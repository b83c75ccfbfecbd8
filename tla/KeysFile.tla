-------------------------------- MODULE KeysFile -------------------------------
(***************************************************************************)
(* The shared file in which scripts/a2a-cli.ts keeps the keys of the       *)
(* agents of one machine.  Every command is a process of its own that      *)
(* reads the file, and a registration also writes it: two registrations    *)
(* interleave between the statements of each, and either may be killed.    *)
(***************************************************************************)
CONSTANTS
  Slugs,       \* names agents register with
  Processes    \* runs of the command line

VARIABLES
  file,        \* slugs with a key in the file, and whether it can be parsed
  taken,       \* slugs registered with the service
  run,         \* where each process is
  stored,      \* slugs whose registration has said "key stored"
  overlapped   \* of those, the ones saved between another's answer and its save

keysVars == <<file, taken, run, stored, overlapped>>

--------------------------------------------------------------------------------
Idle == [at |-> "idle"]
Over == [at |-> "over"]

\* "seen" are the keys the process has loaded, "before" the slugs stored when it was answered.
Commanding == [at : {"asked", "refused"}, slug : Slugs]

Registering == [at : {"load", "change", "write"}, slug : Slugs,
                seen : SUBSET Slugs, before : SUBSET Slugs]

KeysTypeOK ==
  /\ file \in [keys : SUBSET Slugs, whole : BOOLEAN]
  /\ taken \in SUBSET Slugs
  /\ run \in [Processes -> {Idle, Over} \cup Commanding \cup Registering]
  /\ stored \in SUBSET Slugs /\ overlapped \in SUBSET Slugs

KeysInit ==
  /\ file = [keys |-> {}, whole |-> TRUE]
  /\ taken = {}
  /\ run = [p \in Processes |-> Idle]
  /\ stored = {} /\ overlapped = {}

Goes(p, to) == run' = [run EXCEPT ![p] = to]

--------------------------------------------------------------------------------
\* The service answers; a registration it refuses stores nothing.
register(p, s) ==
  /\ run[p] = Idle /\ s \notin taken
  /\ taken' = taken \cup {s}
  /\ Goes(p, [at |-> "load", slug |-> s, seen |-> {}, before |-> stored])
  /\ UNCHANGED <<file, stored, overlapped>>

\* Mutant: a file that does not parse counts as an empty one.
loadKeysAnyway(p) ==
  /\ run[p].at = "load"
  /\ Goes(p, [run[p] EXCEPT !.at = "change", !.seen = file.keys])
  /\ UNCHANGED <<file, taken, stored, overlapped>>

\* A file that is being written does not parse, and the process ends there.
loadKeys(p) ==
  /\ run[p].at = "load"
  /\ IF file.whole
     THEN Goes(p, [run[p] EXCEPT !.at = "change", !.seen = file.keys])
     ELSE Goes(p, Over)
  /\ UNCHANGED <<file, taken, stored, overlapped>>

\* writeFileSync empties the file and then fills it.
Truncate(p) ==
  /\ run[p].at = "change"
  /\ file' = [keys |-> {}, whole |-> FALSE]
  /\ Goes(p, [run[p] EXCEPT !.at = "write"])
  /\ UNCHANGED <<taken, stored, overlapped>>

saveKeys(p) ==
  /\ run[p].at = "write"
  /\ file' = [keys |-> run[p].seen \cup {run[p].slug}, whole |-> TRUE]
  /\ stored' = stored \cup {run[p].slug}
  /\ overlapped' = overlapped \cup (stored \ run[p].before)
  /\ Goes(p, Over)
  /\ UNCHANGED taken

\* Every other command looks up its agent, or the one it invites or assigns to, and
\* makes the request of the service it stands for, or ends without a word to it.
authHeader(s) == file.whole /\ s \in file.keys

Command(p, s) ==
  /\ run[p] = Idle
  /\ Goes(p, [at |-> IF authHeader(s) THEN "asked" ELSE "refused", slug |-> s])
  /\ UNCHANGED <<file, taken, stored, overlapped>>

\* The process ends, whatever it was about to do.
Killed(p) ==
  /\ run[p] \in Registering
  /\ Goes(p, Over)
  /\ UNCHANGED <<file, taken, stored, overlapped>>

KeysNext ==
  \E p \in Processes :
    \/ \E s \in Slugs : register(p, s) \/ Command(p, s)
    \/ loadKeys(p) \/ Truncate(p) \/ saveKeys(p) \/ Killed(p)

KeysSpec == KeysInit /\ [][KeysNext]_keysVars

--------------------------------------------------------------------------------
(* What the file promises *)

\* A key that was stored is lost only to a registration that the service had answered
\* before and that was saved after.
KeysAreKept == file.whole => stored \ overlapped \subseteq file.keys

--------------------------------------------------------------------------------
(* What the repository says and the code does not keep *)

\* "So several collaborating agents on one machine each use their own key" (the header
\* of scripts/a2a-cli.ts): one of two that register at once is left without.
EachHasItsKey ==
  \A p \in Processes : run[p].at = "refused" => run[p].slug \notin stored
================================================================================
