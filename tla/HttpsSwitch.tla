----------------------------- MODULE HttpsSwitch ----------------------------
(***************************************************************************)
(* The TLS listener of the web interface (WebServer), its certificate pair  *)
(* on one of two volumes (CertStore), and those who switch it: the pages    *)
(* and the settings file ("web"), the task that applies a new pair after    *)
(* the answer has left ("switch"), and the task that tries again once the   *)
(* clock is set ("retry").  Each of them reads the security section and     *)
(* writes all of it back some time later.                                   *)
(*                                                                          *)
(* A pair is the hour it expires at, the next one when it is made; hour 0   *)
(* is a clock that was never set.  Of the security section two keys matter. *)
(* Abstracted: the two files of a pair are read and written in one step;    *)
(* one page is served at a time.                                            *)
(***************************************************************************)
EXTENDS Naturals, FiniteSets

CONSTANT MaxHour

Volume == {"fat", "sd"}
Actor == {"web", "switch", "retry"}

ASSUME HttpsAssumption == MaxHour \in Nat \ {0}

VARIABLES
    handle,    \* httpsServer_ is set
    served,    \* the pair the listener was started with
    deadline,  \* pairDeadlineEpoch_; 0 is no date
    pairs,     \* the pair on each volume
    card,      \* the card is mounted
    store,     \* storage_ of the CertStore
    section,   \* the stored security section
    hour,      \* the clock
    actor,     \* where each is, the section it has read, what it wants of HTTPS
    page,      \* the request the page serves
    mixed      \* two were at the listener and its section at once

httpsVars == <<handle, served, deadline, pairs, card, store, section, hour, actor, page, mixed>>
listener == <<handle, served, deadline>>
volumes == <<pairs, card, store>>

NoPair == 0
Pair == {NoPair} \cup 2 .. MaxHour + 1
Sec == [https : BOOLEAN, volume : Volume]
Page == {"none", "security", "import", "thrown", "storage", "generate", "made", "rename", "delete"}
Busy == {"start", "read", "write", "save", "wait"}

HttpsTypeOK ==
    /\ handle \in BOOLEAN /\ served \in Pair /\ deadline \in 0 .. MaxHour + 1
    /\ pairs \in [Volume -> Pair] /\ card \in BOOLEAN /\ store \in Volume
    /\ section \in Sec /\ hour \in 0 .. MaxHour
    /\ actor \in [Actor -> [at : Busy \cup {"idle", "delayed", "schedule", "hung"},
                             copy : Sec, wish : BOOLEAN]]
    /\ page \in Page
    /\ mixed \in BOOLEAN

-----------------------------------------------------------------------------
mounted(v) == v = "fat" \/ card
pairPresentIn(v) == mounted(v) /\ pairs[v] # NoPair
info == IF pairPresentIn(store) THEN pairs[store] ELSE NoPair
certUsable == info # NoPair /\ hour > 0 /\ hour < info

AtRest == [at |-> "idle", copy |-> [https |-> FALSE, volume |-> "fat"], wish |-> FALSE]
place(a) == actor[a].at
moved(a, to) == IF to = "idle" THEN AtRest ELSE [actor[a] EXCEPT !.at = to]
goes(a, to) == actor' = [actor EXCEPT ![a] = moved(a, to)]
\* getSecurity, with what is wanted of HTTPS.
begins(a, to, wish) ==
    actor' = [actor EXCEPT ![a] = [at |-> to, copy |-> section, wish |-> wish]]

\* The pair is judged, and its date kept for the redirect.
httpsAvailable == deadline' = IF certUsable THEN info ELSE 0
\* The plain port sends its visitors to the listener.
redirect == handle /\ deadline > 0 /\ hour < deadline

\* A listener that is up is left alone, whatever pair it has.
startHttps ==
    /\ handle' = TRUE
    /\ served' = IF handle THEN served ELSE info
stopHttps ==
    /\ handle' = FALSE /\ served' = NoPair
    /\ deadline' = IF handle THEN 0 ELSE deadline

\* setHttpsEnabled in three steps: the listener is switched, the section is
\* read, the section is written.  A page goes on with its own save.
scheduled == IF actor["web"].wish THEN "schedule" ELSE "idle"
enough(a) == IF a = "web" THEN "save" ELSE "idle"
refused(a) == IF a = "web" /\ page = "import" THEN "save" ELSE "idle"
setHttpsEnabled_Switch(a) ==
    /\ place(a) = "start"
    /\ \/ /\ actor[a].wish /\ certUsable /\ httpsAvailable
          /\ \/ startHttps /\ goes(a, "read")
             \/ ~handle /\ goes(a, refused(a)) /\ UNCHANGED <<handle, served>>
       \/ /\ actor[a].wish /\ ~certUsable /\ httpsAvailable
          /\ goes(a, refused(a)) /\ UNCHANGED <<handle, served>>
       \/ ~actor[a].wish /\ stopHttps /\ goes(a, "read")
    /\ UNCHANGED <<volumes, section, hour, page>>
\* The page's own copy is another one, read before.
setHttpsEnabled_Read(a) ==
    /\ place(a) = "read"
    /\ IF a = "web" THEN goes(a, "write") ELSE begins(a, "write", actor[a].wish)
    /\ UNCHANGED <<listener, volumes, section, hour, page>>
setHttpsEnabled_Write(a) ==
    /\ place(a) = "write" /\ goes(a, enough(a))
    /\ section' = [(IF a = "web" THEN section ELSE actor[a].copy) EXCEPT !.https = actor[a].wish]
    /\ page' = IF a = "web" THEN "thrown" ELSE page
    /\ UNCHANGED <<listener, volumes, hour>>

-----------------------------------------------------------------------------
\* The security page and the section of the settings file: the switch is thrown
\* when the listener is not as wanted.  A request that came over the listener
\* it stops waits for its own end.
securityPage_Switch(https, overTls) ==
    /\ place("web") = "idle" /\ (overTls => handle)
    /\ page' \in {"security", "import"}
    /\ begins("web", IF https = handle THEN "save"
                     ELSE IF overTls /\ ~https THEN "hung" ELSE "start", https)
    /\ UNCHANGED <<listener, volumes, section, hour>>
\* The page keeps the stored switch unless it threw it; the settings file also
\* takes over what is already so.
savedSwitch ==
    IF page = "thrown" \/ (page = "import" /\ actor["web"].wish = handle)
    THEN actor["web"].wish ELSE actor["web"].copy.https
securityPage_Save ==
    /\ place("web") = "save" /\ page \in {"security", "import", "thrown"}
    /\ section' = [actor["web"].copy EXCEPT !.https = savedSwitch]
    /\ page' = "none" /\ goes("web", "idle")
    /\ UNCHANGED <<listener, volumes, hour>>
\* The settings file moves the volume only to one where a pair waits.
handlePostSettingsImport_Storage(target) ==
    /\ place("web") = "save" /\ page = "import" /\ target # actor["web"].copy.volume
    /\ pairPresentIn(target) /\ store' = target
    /\ actor' = [actor EXCEPT !["web"].copy.volume = target]
    /\ UNCHANGED <<listener, pairs, card, section, hour, page>>

\* The page of the security settings judges the pair that is there now.
handleGetSecuritySettings ==
    /\ httpsAvailable
    /\ UNCHANGED <<handle, served, volumes, section, hour, actor, page>>

handlePostCertificates_Delete ==
    /\ place("web") = "idle" /\ mounted(store) /\ pairs[store] # NoPair
    /\ pairs' = [pairs EXCEPT ![store] = NoPair]
    /\ page' = "delete" /\ goes("web", IF handle THEN "schedule" ELSE "idle")
    /\ UNCHANGED <<listener, card, store, section, hour>>

\* The pair goes along if that was asked for and the target has none; a copy
\* that fails ends the request.
copyTo(target) == [pairs EXCEPT ![target] = pairs[store]]
handlePostCertificates_Storage(target) ==
    /\ place("web") = "idle" /\ target # store
    /\ \/ pairs' = pairs
       \/ pairPresentIn(store) /\ ~pairPresentIn(target) /\ mounted(target) /\ pairs' = copyTo(target)
    /\ store' = target /\ page' = "storage" /\ begins("web", "save", handle)
    /\ UNCHANGED <<listener, card, section, hour>>
\* The section is written with the volume, or with the name of the new pair.
handlePostCertificates_Save ==
    /\ place("web") = "save" /\ page \in {"storage", "rename"}
    /\ section' = IF page = "storage" THEN [actor["web"].copy EXCEPT !.volume = store] ELSE actor["web"].copy
    /\ page' = "none" /\ goes("web", scheduled)
    /\ UNCHANGED <<listener, volumes, hour>>

\* scheduleHttpsSwitch: a task of its own, or a line in the log.  (Bound: one,
\* and not beside a retry.)
scheduleHttpsSwitch ==
    /\ place("web") = "schedule" /\ place("switch") = "idle" /\ place("retry") = "idle"
    /\ \E to \in {"delayed", "idle"} :
          actor' = [actor EXCEPT !["web"] = AtRest,
                                 !["switch"] = [AtRest EXCEPT !.at = to, !.wish = to = "delayed" /\ certUsable]]
    /\ page' = "none"
    /\ UNCHANGED <<listener, volumes, section, hour>>
\* The two tasks wait, the retry then asks again whether it is needed.
httpsSwitchTask ==
    /\ place("switch") = "delayed" /\ goes("switch", "start")
    /\ UNCHANGED <<listener, volumes, section, hour, page>>
onClockSet ==
    /\ ~handle /\ section.https /\ place("switch") = "idle"
    /\ place("retry") = "idle" /\ goes("retry", "delayed")
    /\ UNCHANGED <<listener, volumes, section, hour, page>>
httpsRetryTask ==
    /\ place("retry") = "delayed"
    /\ actor' = [actor EXCEPT !["retry"] =
          IF ~handle /\ section.https THEN [AtRest EXCEPT !.at = "start", !.wish = TRUE] ELSE AtRest]
    /\ UNCHANGED <<listener, volumes, section, hour, page>>

-----------------------------------------------------------------------------
\* The certificates page, generate (CertGenerate has the run itself): a new pair
\* in place of the old one, none at all after a failed write, or a refusal.
handlePostCertificates_Generate ==
    /\ place("web") = "idle" /\ page' = "generate" /\ begins("web", "wait", handle)
    /\ UNCHANGED <<listener, volumes, section, hour>>
generate ==
    /\ place("web") = "wait" /\ page = "generate" /\ hour > 0 /\ mounted(store)
    /\ \/ pairs' = [pairs EXCEPT ![store] = hour + 1] /\ page' = "made"
       \/ pairs' = [pairs EXCEPT ![store] = NoPair] /\ page' = "generate"
    /\ UNCHANGED <<listener, card, store, section, hour, actor>>
\* A pair that was made may have a new name, saved with the copy from before.
runCertificateGeneration ==
    /\ place("web") = "wait"
    /\ \/ page = "made" /\ page' = "rename" /\ goes("web", "save")
       \/ page = "made" /\ page' = "none" /\ goes("web", scheduled)
       \/ page = "generate" /\ page' = "none" /\ goes("web", "idle")
    /\ UNCHANGED <<listener, volumes, section, hour>>

-----------------------------------------------------------------------------
\* The clock goes on, or is set; every time it is set onClockSet is called.
hourPasses ==
    /\ hour > 0 /\ hour < MaxHour /\ hour' = hour + 1
    /\ UNCHANGED <<listener, volumes, section, actor, page>>
notifyClockSet ==
    /\ hour = 0 /\ hour' = 1
    /\ actor' = IF ~handle /\ section.https /\ place("switch") = "idle" /\ place("retry") = "idle"
                THEN [actor EXCEPT !["retry"].at = "delayed"] ELSE actor
    /\ UNCHANGED <<listener, volumes, section, page>>
cardChanges ==
    /\ card' = ~card
    /\ UNCHANGED <<listener, pairs, store, section, hour, actor, page>>

\* WebServer::start with the store on volume v: the listener comes up if the
\* section asks for it and the pair can serve.
webServerStart(v, now) ==
    LET p == IF pairPresentIn(v) THEN pairs[v] ELSE NoPair
        up == section.https /\ p # NoPair /\ now > 0 /\ now < p IN
    /\ handle' = up
    /\ served' = IF up THEN p ELSE NoPair
    /\ deadline' = IF up THEN p ELSE 0
\* The link was lost and is back: the web server was stopped and is started.
onNetworkConnected ==
    /\ place("web") = "idle" /\ webServerStart(store, hour)
    /\ UNCHANGED <<volumes, section, hour, actor, page>>
\* A restart puts the store on the stored volume; the clock may be lost.
restarted ==
    /\ \E now \in {0, hour} : hour' = now /\ webServerStart(section.volume, now)
    /\ store' = section.volume /\ actor' = [a \in Actor |-> AtRest] /\ page' = "none"
    /\ UNCHANGED <<pairs, card, section>>

HttpsInit ==
    /\ handle = FALSE /\ served = NoPair /\ deadline = 0
    /\ pairs = [v \in Volume |-> NoPair] /\ card \in BOOLEAN /\ store = "fat"
    /\ section = [https |-> FALSE, volume |-> "fat"] /\ hour \in {0, 1}
    /\ actor = [a \in Actor |-> AtRest] /\ page = "none" /\ mixed = FALSE

setHttpsEnabled(a) ==
    setHttpsEnabled_Switch(a) \/ setHttpsEnabled_Read(a) \/ setHttpsEnabled_Write(a)
httpsWebTask ==
    \/ setHttpsEnabled("web") \/ securityPage_Save \/ handlePostCertificates_Save
    \/ scheduleHttpsSwitch \/ generate \/ runCertificateGeneration
httpsTasks ==
    \/ setHttpsEnabled("switch") \/ httpsSwitchTask
    \/ setHttpsEnabled("retry") \/ httpsRetryTask
\* (Bound: nothing new is asked for once two were at work at once, until a restart.)
HttpsAsk ==
    \/ \E https, overTls \in BOOLEAN : securityPage_Switch(https, overTls)
    \/ \E v \in Volume : handlePostSettingsImport_Storage(v) \/ handlePostCertificates_Storage(v)
    \/ handleGetSecuritySettings \/ handlePostCertificates_Delete
    \/ handlePostCertificates_Generate
    \/ onClockSet \/ hourPasses \/ notifyClockSet \/ cardChanges
HttpsNext ==
    \/ /\ httpsWebTask \/ httpsTasks \/ (~mixed /\ HttpsAsk)
       /\ mixed' = (mixed \/ Cardinality({a \in Actor : actor'[a].at \in Busy}) > 1)
    \/ ~mixed /\ onNetworkConnected /\ mixed' = \E a \in Actor : place(a) \in Busy
    \/ restarted /\ mixed' = FALSE

-----------------------------------------------------------------------------
HttpsQuiet == \A a \in Actor : place(a) \in {"idle", "delayed"}
\* A page waits for its answer; a page that stops its own listener gets none.
HttpsBusy == place("web") \notin {"idle", "hung"}

(* A listener that is up is one the stored section asks for, and the store  *)
(* works on the volume the section names, once nobody is at work and if no  *)
(* two were at it at once: a restart then brings back what the operator saw.*)
(* setHttpsEnabled writes the section after the listener, the page and the  *)
(* settings file write a section they read before, and "a reboot has to     *)
(* land on the same volume as this request".                                *)
RestartKeepsHttps ==
    HttpsQuiet /\ ~mixed => /\ handle => section.https
                            /\ store = section.volume

(* The plain port sends nobody to a listener whose pair has run out: the    *)
(* redirect asks "whether the pair it serves is still inside its validity". *)
RedirectIsOpen == redirect => hour < served
=============================================================================
