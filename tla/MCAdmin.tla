------------------------------ MODULE MCAdmin -------------------------------
(***************************************************************************)
(* The administration of the device, for TLC: the settings, HTTPS and its   *)
(* certificate, the generator of certificates, the login guard, the updates *)
(* and the statistics.  They share no state that a property below is about, *)
(* so each is explored by itself: `part` says which one a behaviour is      *)
(* about.                                                                   *)
(***************************************************************************)
EXTENDS Settings, HttpsSwitch, CertGenerate, Logins, Updates, StatFile

VARIABLE part

\* One operator works on one of these.
SomeTouched == {{"dhcp", "time"}, {"dns"}, {"ssh"}, {"files"}, {"general"}, {"hosts"},
                {"bindings"}, {"allowed"}, {"security"}, {"timelog"}}
SomeLimits == {[tries |-> 1, period |-> 2], [tries |-> 3, period |-> 1]}

vars == <<part, settingVars, httpsVars, generateVars, loginVars, updateVars, statVars>>

Init ==
    /\ part \in {"settings", "https", "generate", "logins", "updates", "stats"}
    /\ SettingsInit /\ HttpsInit /\ GenerateInit /\ LoginsInit /\ UpdatesInit /\ StatInit
    /\ part # "settings" => touched = {"dns"}
    /\ part # "https" => card /\ hour = 1
    /\ part # "logins" => limits.tries = 1
    /\ part # "stats" => keepStats
    /\ part # "updates" => \A p \in Path : tree[p] = "none"

SettingsStep(A) == part = "settings" /\ A /\ UNCHANGED <<part, httpsVars, generateVars, loginVars, updateVars, statVars>>
HttpsStep(A) == part = "https" /\ A /\ UNCHANGED <<part, settingVars, generateVars, loginVars, updateVars, statVars>>
GenerateStep(A) == part = "generate" /\ A /\ UNCHANGED <<part, settingVars, httpsVars, loginVars, updateVars, statVars>>
LoginsStep(A) == part = "logins" /\ A /\ UNCHANGED <<part, settingVars, httpsVars, generateVars, updateVars, statVars>>
UpdatesStep(A) == part = "updates" /\ A /\ UNCHANGED <<part, settingVars, httpsVars, generateVars, loginVars, statVars>>
StatStep(A) == part = "stats" /\ A /\ UNCHANGED <<part, settingVars, httpsVars, generateVars, loginVars, updateVars>>

Next ==
    \/ SettingsStep(SettingsNext) \/ HttpsStep(HttpsNext) \/ GenerateStep(GenerateNext)
    \/ LoginsStep(LoginsNext) \/ UpdatesStep(UpdatesNext) \/ StatStep(StatNext)

\* A task that can go on does, and time passes.
Fairness ==
    /\ WF_vars(SettingsStep(webTask)) /\ WF_vars(GenerateStep(generateWork))
    /\ WF_vars(HttpsStep(HttpsNext /\ httpsWebTask)) /\ WF_vars(HttpsStep(HttpsNext /\ httpsTasks))
    /\ WF_vars(LoginsStep(secondPasses)) /\ WF_vars(UpdatesStep(UpdatesWork("http")))
    /\ WF_vars(StatStep(statJobStep))

Spec == Init /\ [][Next]_vars /\ Fairness

-----------------------------------------------------------------------------
\* A restart brings back what the operator saw: the settings in use, the factory
\* settings after a reset, the HTTPS listener and the volume of its certificate.
SettingsKept ==
    SettingsTypeOK /\ AppliedIsSaved /\ ResetIsFactory /\ HttpsTypeOK /\ RestartKeepsHttps

Busy_Admin ==
    SettingsBusy \/ HttpsBusy \/ GenerateBusy \/ LoginsBusy \/ upload["http"].step # "idle"
    \/ StatBusy

\* Every page is answered, whatever the other tasks do meanwhile, and a client
\* that is locked out is let in again: what it tries meanwhile does not count;
\* and the statistics job ends, after one retry at most.
EveryoneIsAnswered == Busy_Admin ~> ~Busy_Admin
=============================================================================
