------------------------------ MODULE MCDevice ------------------------------
(***************************************************************************)
(* The rest of the device, for TLC: the SSH server, its browser and shell,  *)
(* the synchronisation of the clock and the replies of the time server, the *)
(* allow-list that the DHCP task reads while a page rebuilds it, the name   *)
(* in the local network, and the address range of the DHCP page.  They      *)
(* share no state that a property below is about: `part` says which one a   *)
(* behaviour is about.                                                      *)
(***************************************************************************)
EXTENDS SshServer, ShellCommands, TimeSync, NtpReplies, AllowTable, PoolSettings, LocalName

VARIABLE part

\* Two of three addresses meet in one slot.
SomeHash == [mac \in Mac |-> IF mac = "c" THEN 0 ELSE 3]
Listed(mac) == [mac |-> mac, enabled |-> TRUE]
SomeLists ==
    {<<>>, <<Listed("a"), Listed("b")>>, <<Listed("b"), Listed("b"), Listed("c"), Listed("a")>>,
     <<[mac |-> "a", enabled |-> FALSE], Listed("c")>>}

\* A directory and two files in the root of the first volume, a file in the
\* directory, one on the second volume.
SomePaths == {<<1, 1>>, <<1, 2>>, <<1, 3>>, <<1, 1, 1>>, <<2, 2>>}
SomeDirs == {<<1, 1>>}

\* Paths as they are typed: `..` is 0 and `.` is 9, a volume of 0 is none.
Spellings(parts) == UNION {[1 .. k -> parts] : k \in 0 .. 3}
SomeSpelled == [volume : {0, 1, 2, 3}, parts : Spellings({0, 9, 1, 2})]
SomeTyped ==
    {[volume |-> 0, parts |-> w] : w \in {<<>>, <<0>>, <<1>>, <<2>>, <<9, 1, 1>>, <<1, 0, 2>>}}
        \cup {[volume |-> 1, parts |-> w] : w \in {<<2>>, <<1, 9, 1>>, <<1, 0, 0>>}}
        \cup {[volume |-> 2, parts |-> <<2>>], [volume |-> 3, parts |-> <<>>]}

vars == <<part, sshVars, panelVars, shellVars, timeSyncVars, ntpVars, allowVars, poolVars,
          nameVars>>

Init ==
    /\ part \in {"ssh", "panels", "shell", "sync", "replies", "allowed", "pool", "name"}
    /\ SshInit /\ PanelsInit /\ ShellInit /\ TimeSyncInit /\ NtpInit /\ AllowInit /\ PoolInit
    /\ LocalNameInit
    /\ part # "panels" => disk = {}
    /\ part # "name" => ~stored.on /\ stored.name = "a"

SshStep(A) == part = "ssh" /\ A /\ UNCHANGED <<part, panelVars, shellVars, timeSyncVars, ntpVars, allowVars, poolVars, nameVars>>
PanelsStep(A) == part = "panels" /\ A /\ UNCHANGED <<part, sshVars, shellVars, timeSyncVars, ntpVars, allowVars, poolVars, nameVars>>
ShellStep(A) == part = "shell" /\ A /\ UNCHANGED <<part, sshVars, timeSyncVars, ntpVars, allowVars, poolVars, nameVars>>
SyncStep(A) == part = "sync" /\ A /\ UNCHANGED <<part, sshVars, panelVars, shellVars, ntpVars, allowVars, poolVars, nameVars>>
RepliesStep(A) == part = "replies" /\ A /\ UNCHANGED <<part, sshVars, panelVars, shellVars, timeSyncVars, allowVars, poolVars, nameVars>>
AllowedStep(A) == part = "allowed" /\ A /\ UNCHANGED <<part, sshVars, panelVars, shellVars, timeSyncVars, ntpVars, poolVars, nameVars>>
NameStep(A) == part = "name" /\ A /\ UNCHANGED <<part, sshVars, panelVars, shellVars, timeSyncVars, ntpVars, allowVars, poolVars>>
PoolStep(A) == part = "pool" /\ A /\ UNCHANGED <<part, sshVars, panelVars, shellVars, timeSyncVars, ntpVars, allowVars, nameVars>>

Next ==
    \/ SshStep(SshNext) \/ PanelsStep(PanelsNext) \/ ShellStep(ShellNext) \/ SyncStep(TimeSyncNext)
    \/ RepliesStep(NtpNext) \/ AllowedStep(AllowNext) \/ PoolStep(PoolNext)
    \/ NameStep(LocalNameNext)

\* A task that can go on does.  Nothing is assumed of a client: a session ends
\* without one only because the server stops.
Fairness ==
    /\ WF_vars(SshStep(controlStep)) /\ WF_vars(SshStep(acceptStep)) /\ WF_vars(SshStep(sessionStep))
    /\ WF_vars(SyncStep(pageStep)) /\ WF_vars(SyncStep(callbackStep)) /\ WF_vars(SyncStep(probeStep))
    /\ WF_vars(NameStep(namePage)) /\ WF_vars(NameStep(ssdpRun))

Spec == Init /\ [][Next]_vars /\ Fairness

-----------------------------------------------------------------------------
\* Every path typed into the shell denotes what it means, wherever it stands
\* (ResolveIsWalk, asked only where the shell is what a behaviour is about).
PathsResolve == part = "shell" => ResolveIsWalk

\* The SSH server keeps to its listener and its limit, and what its browser and
\* its shell work on is what is shown and what was typed.
SshSafe ==
    SshTypeOK /\ LoopHasListener /\ SessionsBounded
        /\ PanelsTypeOK /\ KeysActOnShown /\ ShellTypeOK /\ PathsResolve

\* The clock is asked for as the settings say, and a client of the time server
\* gets no more than its share.
TimeSafe ==
    TimeSyncTypeOK /\ BeatGoesOn /\ ProbeAskedOwn /\ NtpTypeOK /\ RepliesBounded

\* The DHCP server goes by the page that was saved: by a whole list while it
\* walks one, and by a range whose offers it accepts and whose cap it can fill.
DhcpPageSafe ==
    AllowTypeOK /\ WalkIsTrue /\ PoolTypeOK /\ OfferableIsAcceptable /\ CapFitsPool

\* A step does what it was asked to: a prompt and a command take their own files,
\* a rebuild leaves the list it was given, and a polite client is answered.
DoneAsAsked ==
    [][PromptKeepsSubject /\ CommandTakesOwn /\ TableIsList /\ PoliteIsServed]_vars

Busy_Device == SshBusy \/ TimeSyncBusy \/ NameBusy

\* Switched off, the SSH server comes to rest: its accept task, without which a
\* new start is refused, and every session that waits for its client leave; and
\* the page, the timer callback and the probes of the clock synchronisation do,
\* and so does a page about the name.
ComesToRest == Busy_Device ~> ~Busy_Device
=============================================================================
