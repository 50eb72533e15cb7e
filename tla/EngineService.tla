----------------------------- MODULE EngineService -----------------------------
(***************************************************************************)
(* What those who call the engine are promised, however often its          *)
(* configuration file changes and whenever the server shuts down.  The     *)
(* settings in use are of one version of the file, they are replaced as a  *)
(* whole and never by those of an earlier version; once the directories of *)
(* some settings have been scanned, so have those of all that follow; and  *)
(* a call works on the settings that were in use when it began until it    *)
(* ends.                                                                   *)
(***************************************************************************)
EXTENDS Naturals

CONSTANT Caller

VARIABLES
  written,    \* how many versions of the file there have been after the first
  serving,    \* the version whose settings are in use, when there is one
  scanned,    \* whether the directories of those settings have been scanned
  answers,    \* the version a call is answered from, while it is under way
  stopped     \* whether the engine has been shut down

vars == <<written, serving, scanned, answers, stopped>>

Init ==
  /\ written = 0 /\ serving = {} /\ scanned = FALSE /\ stopped = FALSE
  /\ answers = [c \in Caller |-> {}]

(* Somebody writes the file; it need not be used, nor usable.              *)
Write ==
  /\ written' = written + 1
  /\ UNCHANGED <<serving, scanned, answers, stopped>>

Start ==
  /\ serving = {} /\ \E v \in 0 .. written : serving' = {v}
  /\ UNCHANGED <<written, scanned, answers, stopped>>

(* The first settings are in use before their directories are scanned.     *)
Scan ==
  /\ serving # {} /\ ~scanned /\ ~stopped /\ scanned' = TRUE
  /\ UNCHANGED <<written, serving, answers, stopped>>

(* Others are used only when all their directories have been scanned.  The *)
(* calls that are under way do not notice.                                 *)
Replace ==
  /\ ~stopped
  /\ \E v \in serving : \E w \in v .. written : serving' = {w}
  /\ scanned' = TRUE
  /\ UNCHANGED <<written, answers, stopped>>

Begin(c) ==
  /\ serving # {} /\ answers[c] = {}
  /\ answers' = [answers EXCEPT ![c] = serving]
  /\ UNCHANGED <<written, serving, scanned, stopped>>

End(c) ==
  /\ answers[c] # {}
  /\ answers' = [answers EXCEPT ![c] = {}]
  /\ UNCHANGED <<written, serving, scanned, stopped>>

Stop ==
  /\ stopped' = TRUE
  /\ UNCHANGED <<written, serving, scanned, answers>>

Next ==
  \/ Write \/ Start \/ Scan \/ Replace \/ Stop
  \/ \E c \in Caller : Begin(c) \/ End(c)

Spec == Init /\ [][Next]_vars
===============================================================================
