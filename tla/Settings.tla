------------------------------ MODULE Settings ------------------------------
(***************************************************************************)
(* The settings (Config over NVS), the handlers of RestApi that save them   *)
(* and bring the running parts in line, the settings file, and the factory  *)
(* reset.                                                                   *)
(*                                                                          *)
(* A section is a switch (`on`) and the rest (`cfg`); a list is one blob.   *)
(* NVS has no transaction over a section: every key is opened, written and  *)
(* committed by itself, the keys of a save are therefore two steps, a write *)
(* that fails is logged and not heard of again, and the device may restart  *)
(* between them.  The web task serves one request at a time; the task that  *)
(* writes the cache file rewrites the whole DNS section for its checksum.   *)
(* The switch of HTTPS is module HttpsSwitch.                               *)
(***************************************************************************)
EXTENDS Naturals, Sequences

CONSTANTS
    Value, Default,  \* what the rest of a section may be, and the factory value
    Touched          \* the sets of sections that one operator's requests are about

Switched == {"dhcp", "dns", "time", "ssh", "general"}
Lists == {"bindings", "allowed", "hosts"}
\* "timelog" is the cap of the NTP journal, which the time page saves.
Section == Switched \cup Lists \cup {"security", "files", "timelog"}
Filtered == {"dns", "time", "files", "ssh"}

ASSUME SettingsAssumption == Default \in Value /\ Touched \subseteq SUBSET Section

VARIABLES
    nvs,     \* the stored sections
    used,    \* what the running parts go by; `on`: the part is up
    subnet,  \* the DHCP section the "own subnet only" filters were made from
    touched, \* one of Touched
    request, \* the request in the hands of the web task
    job,     \* storeCacheFileMd5: the copy of the DNS section it will write back
    lost     \* a key was not written, or written from a stale copy

settingVars == <<nvs, used, subnet, touched, request, job, lost>>

Setting == [on : BOOLEAN, cfg : Value]
Factory(s) == [on |-> s \in {"dns", "general"}, cfg |-> Default]
NoRequest == [page |-> "none"]
NoJob == [step |-> "idle", copy |-> Factory("dns")]
Idle == request.page = "none"

\* The sections of a settings file, in the order the import takes them.
ImportOrder == <<"dhcp", "bindings", "allowed", "dns", "time", "timelog", "hosts", "security", "files",
                 "general", "ssh">>

SettingsTypeOK ==
    /\ nvs \in [Section -> Setting] /\ used \in [Section -> Setting]
    /\ subnet \in [Filtered -> Value] /\ touched \in Touched /\ lost \in BOOLEAN
    /\ job.step \in {"idle", "read", "switch"} /\ job.copy \in Setting
    /\ request.page \in {"none", "page", "import", "reset"}
    /\ request.page = "page" => request.section \in Section
    /\ request.page = "import" => request.at \in 1 .. Len(ImportOrder) + 1

\* What main() makes of the stored sections: a part that is switched on may fail
\* to start.  The cap of the NTP journal is not taken over.
booted(stored, up) ==
    [s \in Section |-> [on |-> stored[s].on /\ s \in up,
                       cfg |-> IF s = "timelog" THEN Default ELSE stored[s].cfg]]

SettingsInit ==
    /\ touched \in Touched
    /\ nvs = [s \in Section |-> Factory(s)] /\ used = [s \in Section |-> Factory(s)]
    /\ subnet = [f \in Filtered |-> Default]
    /\ request = NoRequest /\ job = NoJob /\ lost = FALSE

-----------------------------------------------------------------------------
\* writeI32, writeStr: a failure is a line on the terminal.
writeKeys(new) ==
    \/ nvs' = new /\ UNCHANGED lost
    \/ new # nvs /\ UNCHANGED nvs /\ lost' = TRUE

\* The key that is written first: the switch, but the host name of the device.
withSwitch(ask, s) == [nvs EXCEPT ![s].on = ask.on]
withCfg(ask, s) == [nvs EXCEPT ![s].cfg = ask.cfg]
firstKey(ask, s) == IF s = "general" THEN withCfg(ask, s) ELSE withSwitch(ask, s)
restKey(ask, s) == IF s = "general" THEN withSwitch(ask, s) ELSE withCfg(ask, s)

Asking(s) == IF s \in Switched THEN Setting ELSE [on : {FALSE}, cfg : Value]

\* A page is sent: the fields are in hand, `had` is what was stored before.  (Bound:
\* once something is lost, nothing is asked until the restart.)
page_Begin(s, ask) ==
    /\ Idle /\ ~lost /\ s \in touched /\ ask \in Asking(s)
    /\ request' = [page |-> "page", section |-> s, ask |-> ask, had |-> nvs[s], step |-> "switch"]
    /\ UNCHANGED <<nvs, used, subnet, touched, job, lost>>

\* Answered with an error before anything was saved: a port that is no port, a
\* list too long, a name that the interface does not take.
page_Refuse ==
    /\ request.page = "page" /\ request.step = "switch"
    /\ request.section \in {"ssh", "allowed", "general", "security"}
    /\ request' = NoRequest
    /\ UNCHANGED <<nvs, used, subnet, touched, job, lost>>

page_SaveSwitch ==
    /\ request.page = "page" /\ request.step = "switch"
    /\ writeKeys(firstKey(request.ask, request.section))
    /\ request' = [request EXCEPT !.step = "rest"]
    /\ UNCHANGED <<used, subnet, touched, job>>

\* setStaticBindings, setLocalHosts: a list over the budget is refused, and the
\* page does not ask.  The names are served all the same until the restart.
page_SaveRest ==
    /\ request.page = "page" /\ request.step = "rest"
    /\ \/ writeKeys(restKey(request.ask, request.section))
       \/ request.section = "bindings" /\ UNCHANGED <<nvs, lost>>
       \/ request.section = "hosts" /\ UNCHANGED nvs /\ lost' = TRUE
    /\ request' = [request EXCEPT !.step = "apply"]
    /\ UNCHANGED <<used, subnet, touched, job>>

\* The page's own "Reset to default".
handlePostTimeSettingsReset == page_Begin("time", Factory("time"))

-----------------------------------------------------------------------------
\* A start may fail; a stop does not, and what is up stays up.
switched(now, want) == IF want /\ ~now THEN BOOLEAN ELSE {want}
refreshed(filters) ==
    subnet' = [f \in Filtered |-> IF f \in filters THEN nvs'["dhcp"].cfg ELSE subnet[f]]

\* applyDhcpSettingsLive, applyDnsSettingsLive, applyTimeSettingsLive: the rest of
\* a section takes hold whether or not the part is up.
applySettingsLive(s, up, cfg) == used' = [used EXCEPT ![s] = [on |-> up, cfg |-> cfg]]

\* The page refreshes the filters of the others only when it has no error to
\* answer with.
applyDhcpRunning(ask) ==
    \E up \in switched(used["dhcp"].on, ask.on) :
        /\ applySettingsLive("dhcp", up, ask.cfg)
        /\ IF ask.on /\ ~up THEN UNCHANGED subnet ELSE refreshed(Filtered)
applyDnsRunning(ask) ==
    \E up \in switched(used["dns"].on, ask.on) :
        applySettingsLive("dns", up, ask.cfg) /\ refreshed({"dns"})
applyTimeRunning(ask) ==
    \E up \in switched(used["time"].on, ask.on) :
        applySettingsLive("time", up, ask.cfg) /\ refreshed({"time"})

\* applySshLive: the listener goes and comes back with the stored settings.
applySshLive == \E up \in switched(FALSE, nvs["ssh"].on) :
                    used' = [used EXCEPT !["ssh"] = [on |-> up, cfg |-> nvs["ssh"].cfg]]

page_Apply(s) ==
    /\ request.page = "page" /\ request.step = "apply" /\ request.section = s
    /\ request' = NoRequest
    /\ UNCHANGED <<touched, job>>
handlePostDhcpSettings == page_Apply("dhcp") /\ UNCHANGED <<nvs, lost>> /\ applyDhcpRunning(request.ask)
handlePostDnsSettings == page_Apply("dns") /\ UNCHANGED <<nvs, lost>> /\ applyDnsRunning(request.ask)
handlePostTimeSettings == page_Apply("time") /\ UNCHANGED <<nvs, lost>> /\ applyTimeRunning(request.ask)
handlePostSshSettings ==
    /\ page_Apply("ssh") /\ UNCHANGED <<nvs, lost>> /\ refreshed({"ssh"})
    /\ IF request.ask = request.had THEN UNCHANGED used ELSE applySshLive
handlePostStaticBindings ==
    /\ page_Apply("bindings") /\ used' = [used EXCEPT !["bindings"] = nvs["bindings"]]
    /\ UNCHANGED <<nvs, subnet, lost>>
handlePostAllowedComputers ==
    /\ page_Apply("allowed") /\ used' = [used EXCEPT !["allowed"] = nvs["allowed"]]
    /\ UNCHANGED <<nvs, subnet, lost>>
handlePostLocalHosts ==
    /\ page_Apply("hosts") /\ used' = [used EXCEPT !["hosts"] = request.ask]
    /\ UNCHANGED <<nvs, subnet, lost>>
handlePostSecuritySettings ==
    /\ page_Apply("security") /\ used' = [used EXCEPT !["security"] = nvs["security"]]
    /\ UNCHANGED <<nvs, subnet, lost>>
handlePostTimeSettings_Log ==
    /\ page_Apply("timelog") /\ used' = [used EXCEPT !["timelog"] = nvs["timelog"]]
    /\ UNCHANGED <<nvs, subnet, lost>>
handlePostFileSettings ==
    /\ page_Apply("files") /\ used' = [used EXCEPT !["files"] = nvs["files"]]
    /\ UNCHANGED <<nvs, lost>> /\ refreshed({"files"})

\* A name that cannot be published is switched off again; the host name stays.
\* The interface has had the host name since before it was saved.
handlePostSettingsGeneral ==
    /\ page_Apply("general") /\ UNCHANGED subnet
    /\ \E up \in switched(FALSE, request.ask.on) :
          /\ used' = [used EXCEPT !["general"] = [on |-> up, cfg |-> request.ask.cfg]]
          /\ IF request.ask.on /\ ~up THEN writeKeys([nvs EXCEPT !["general"].on = FALSE])
             ELSE UNCHANGED <<nvs, lost>>

-----------------------------------------------------------------------------
\* The settings file: some of the sections, one after the other.
after(file, at) ==
    LET next == {i \in at + 1 .. Len(ImportOrder) : ImportOrder[i] \in DOMAIN file} IN
    IF next = {} THEN Len(ImportOrder) + 1 ELSE CHOOSE i \in next : \A j \in next : i <= j

import_Begin(file) ==
    /\ Idle /\ ~lost /\ DOMAIN file \subseteq touched /\ DOMAIN file # {}
    /\ \A s \in DOMAIN file : file[s] \in Asking(s)
    /\ request' = [page |-> "import", file |-> file, at |-> after(file, 0), step |-> "switch"]
    /\ UNCHANGED <<nvs, used, subnet, touched, job, lost>>

ImportOf(s) == request.page = "import" /\ request.at <= Len(ImportOrder)
               /\ ImportOrder[request.at] = s
import_Next == request' = [request EXCEPT !.at = after(request.file, @), !.step = "switch"]

\* A list over its budget or a name the interface does not take is a warning in
\* the answer.
import_Warn(s) ==
    /\ ImportOf(s) /\ request.step = "switch" /\ s \in Lists \cup {"general"}
    /\ import_Next
    /\ UNCHANGED <<nvs, used, subnet, touched, job, lost>>

import_SaveSwitch(s) ==
    /\ ImportOf(s) /\ request.step = "switch"
    /\ writeKeys(firstKey(request.file[s], s))
    /\ request' = [request EXCEPT !.step = "rest"]
    /\ UNCHANGED <<used, subnet, touched, job>>

\* As if: a section of the file waited for the next start.
import_SaveRest_Unused(s) ==
    /\ ImportOf(s) /\ request.step = "rest"
    /\ writeKeys(restKey(request.file[s], s))
    /\ UNCHANGED used
    /\ refreshed({f \in {"ssh"} : s \in {"dhcp", "ssh"}} \cup ({"time", "files"} \cap {s}))
    /\ import_Next /\ UNCHANGED <<touched, job>>
\* The rest of the section, and the part of it that is live at once.
import_SaveRest(s) ==
    /\ ImportOf(s) /\ request.step = "rest"
    /\ writeKeys(restKey(request.file[s], s))
    /\ used' = IF s \in {"dns", "ssh"} THEN used ELSE [used EXCEPT ![s].cfg = request.file[s].cfg]
    /\ refreshed({f \in {"ssh"} : s \in {"dhcp", "ssh"}} \cup ({"time", "files"} \cap {s}))
    /\ import_Next /\ UNCHANGED <<touched, job>>

\* The services follow what is stored now, in the file or not.
import_Services ==
    /\ request.page = "import" /\ request.at = Len(ImportOrder) + 1
    /\ \E dhcpUp \in switched(used["dhcp"].on, nvs["dhcp"].on),
          dnsUp \in switched(used["dns"].on, nvs["dns"].on),
          timeUp \in switched(used["time"].on, nvs["time"].on),
          nameUp \in switched(FALSE, nvs["general"].on),
          sshUp \in switched(FALSE, nvs["ssh"].on) :
          used' = [used EXCEPT
            !["dhcp"].on = dhcpUp, !["time"].on = timeUp,
            !["dns"] = [on |-> dnsUp, cfg |-> nvs["dns"].cfg],
            !["general"].on = IF "general" \in DOMAIN request.file THEN nameUp ELSE @,
            !["ssh"] = IF "ssh" \in DOMAIN request.file
                       THEN [on |-> sshUp, cfg |-> nvs["ssh"].cfg] ELSE @]
    /\ request' = NoRequest
    /\ UNCHANGED <<nvs, touched, job, lost>>
    /\ refreshed({"dns"} \cup {f \in {"time", "ssh"} : used'[f].on /\ ~used[f].on})

-----------------------------------------------------------------------------
\* storeCacheFileMd5: the section is read, and written back with the checksum.
storeCacheFileMd5_Read ==
    /\ job.step = "idle" /\ "dns" \in touched
    /\ job' = [step |-> "read", copy |-> nvs["dns"]]
    /\ UNCHANGED <<nvs, used, subnet, touched, request, lost>>
storeCacheFileMd5_Switch ==
    /\ job.step = "read" /\ job' = [job EXCEPT !.step = "switch"]
    /\ nvs' = [nvs EXCEPT !["dns"].on = job.copy.on] /\ lost' = (lost \/ nvs' # nvs)
    /\ UNCHANGED <<used, subnet, touched, request>>
storeCacheFileMd5_Rest ==
    /\ job.step = "switch" /\ job' = NoJob
    /\ nvs' = [nvs EXCEPT !["dns"].cfg = job.copy.cfg] /\ lost' = (lost \/ nvs' # nvs)
    /\ UNCHANGED <<used, subnet, touched, request>>

resetAll == [s \in Section |-> Factory(s)]
\* handlePostSettingsReset: everything is erased, the restart follows the answer.
handlePostSettingsReset ==
    /\ Idle
    /\ \/ nvs' = resetAll /\ request' = [page |-> "reset"]
          /\ lost' = FALSE
       \/ UNCHANGED <<nvs, request, lost>>
    /\ UNCHANGED <<used, subnet, touched, job>>

\* esp_restart, or the power: at any moment.
esp_restart ==
    /\ request' = NoRequest /\ job' = NoJob /\ lost' = FALSE
    /\ \E up \in SUBSET (Switched \cap touched) : used' = booted(nvs, up \cup (Switched \ touched))
    /\ UNCHANGED <<nvs, touched>> /\ refreshed(Filtered)

webTask ==
    \/ page_SaveSwitch \/ page_SaveRest \/ page_Refuse
    \/ handlePostDhcpSettings \/ handlePostDnsSettings \/ handlePostTimeSettings
    \/ handlePostSshSettings \/ handlePostStaticBindings \/ handlePostAllowedComputers
    \/ handlePostLocalHosts \/ handlePostSecuritySettings \/ handlePostFileSettings
    \/ handlePostSettingsGeneral \/ handlePostTimeSettings_Log
    \/ \E s \in Section : import_Warn(s) \/ import_SaveSwitch(s) \/ import_SaveRest(s)
    \/ import_Services
    \/ request.page = "reset" /\ esp_restart

SettingsNext ==
    \/ webTask
    \/ handlePostTimeSettingsReset
    \/ \E s \in Section : \E ask \in Asking(s) : page_Begin(s, ask)
    \/ \E ss \in SUBSET touched : \E file \in [ss -> Setting] : import_Begin(file)
    \/ storeCacheFileMd5_Read \/ storeCacheFileMd5_Switch \/ storeCacheFileMd5_Rest
    \/ handlePostSettingsReset \/ esp_restart

-----------------------------------------------------------------------------
(* Between two requests the device goes by what it has stored, so that a    *)
(* restart changes nothing: no part uses other values than the stored ones, *)
(* and none is up that is stored as off.  Exempt is what a key not written, *)
(* a section written from a stale copy, or a list over its budget has lost, *)
(* and the cap of the NTP journal (see SavedIsApplied).                     *)
AppliedIsSaved ==
    Idle /\ ~lost =>
        \A s \in Section \ {"timelog"} :
            used[s].cfg = nvs[s].cfg /\ (used[s].on => nvs[s].on)

(* A factory reset that was answered with "Rebooting..." leaves nothing of  *)
(* the old settings for the next start, unless the task that stores the     *)
(* checksum of the cache file brings a DNS section back that it has read    *)
(* before.                                                                  *)
ResetIsFactory ==
    request.page = "reset" /\ ~lost => \A s \in Section : nvs[s] = Factory(s)

(* The same as AppliedIsSaved for the journals' caps: "a log being switched *)
(* on is switched on with the cap the operator chose, not with the default  *)
(* one" (main.cpp, "as everywhere else").                                   *)
SavedIsApplied ==
    Idle /\ job.step = "idle" /\ ~lost => used["timelog"].cfg = nvs["timelog"].cfg

SettingsBusy == ~Idle
=============================================================================
