-------------------------- MODULE SessionRecovery --------------------------
(***************************************************************************)
(* lib/recovery.ts and lib/recovery/storage.ts: when the host reports that *)
(* a session was refused (a tool call without result, a message that does  *)
(* not start with its thinking part, thinking where it is disabled), the   *)
(* plugin repairs the stored parts and may resume the session.  Events     *)
(* overlap, part files may be locked or corrupt, and a repair that only    *)
(* half succeeds must not resume the session for ever.                     *)
(***************************************************************************)
EXTENDS Integers, FiniteSets

CONSTANTS Handlers, Messages, MaxReports, AutoResume, NoMessage

ASSUME RecoveryAssumption ==
  AutoResume \in BOOLEAN /\ MaxReports \in Nat /\ IsFiniteSet(Handlers) /\ IsFiniteSet(Messages)

Kinds == {"tool", "order", "disabled"}

VARIABLES parts,      \* message -> thinking parts, whether one is first, one undeletable, open tool call
          partFile,   \* one more part file of the session: healthy, where, readable now
          handling,   \* handler -> the recovery it runs
          processing, \* processingErrors
          reports,
          resumed,    \* times the session was resumed
          repaired,   \* times a message was repaired for good
          overlooked  \* history: times one was reported clean with an unreadable part left

recoveryVars == <<parts, partFile, handling, processing, reports, resumed, repaired, overlooked>>

NoRecovery == [at |-> "idle", kind |-> "tool", msg |-> NoMessage, indexed |-> FALSE]

\* A message as the host stored it: a tool call is open where thinking came first.
Stored(think, first, stuck) == [think |-> think, first |-> first, stuck |-> stuck, open |-> first]

RecoveryInit ==
  /\ parts \in [Messages -> {Stored(0, FALSE, FALSE), Stored(2, FALSE, TRUE), Stored(1, TRUE, FALSE)}]
  /\ \E lock, sound \in BOOLEAN : (sound \/ ~lock) /\ partFile = [healthy |-> sound, aside |-> FALSE, busy |-> lock]
  /\ handling = [h \in Handlers |-> NoRecovery]
  /\ processing = {} /\ reports = 0 /\ resumed = 0 /\ repaired = 0 /\ overlooked = 0

\* The host refuses a message for a reason the plugin can repair (detectErrorType).
Refused(m, kind) ==
  CASE kind = "tool" -> parts[m].open
    [] kind = "order" -> ~parts[m].first
    [] kind = "disabled" -> parts[m].think > 0

-----------------------------------------------------------------------------
(* Reading the parts of a message. *)

\* handleUnreadableFile: a file that cannot be read just now stays where it is.
QuarantinesUnread(f) == f.busy \/ ~f.healthy
Quarantines(f) == ~f.busy /\ ~f.healthy

\* Every pass over the session reads the parts; moving a corrupt file may fail.
Scan == \E moved \in BOOLEAN :
  partFile' = IF Quarantines(partFile) /\ moved THEN [partFile EXCEPT !.aside = TRUE] ELSE partFile

\* The antivirus, the indexer or another writer lets go of the file.
FileFreed ==
  /\ partFile.busy /\ ~partFile.aside
  /\ partFile' = [partFile EXCEPT !.busy = FALSE]
  /\ UNCHANGED <<parts, handling, processing, reports, resumed, repaired, overlooked>>

-----------------------------------------------------------------------------
(* handleSessionRecovery. *)

\* The event arrives; it may name the message's index.  The session is aborted.
Reported(h) == \E m \in Messages, kind \in Kinds, indexed \in BOOLEAN :
  /\ handling[h].at = "idle" /\ reports < MaxReports
  /\ Refused(m, kind) /\ (indexed => kind = "order")
  /\ handling' = [handling EXCEPT ![h] = [at |-> "listing", kind |-> kind, msg |-> m, indexed |-> indexed]]
  /\ reports' = reports + 1
  /\ UNCHANGED <<parts, partFile, processing, resumed, repaired, overlooked>>

Drops(h) == handling' = [handling EXCEPT ![h] = NoRecovery]

\* The message is looked up; one recovery of it runs at a time.
AdmitsAlways(m) == TRUE
Admits(m) == m \notin processing
Listed(h) ==
  LET m == handling[h].msg IN
    /\ handling[h].at = "listing" /\ Admits(m)
    /\ processing' = processing \cup {m}
    /\ handling' = [handling EXCEPT ![h].at = "repairing"]
    /\ UNCHANGED <<parts, partFile, reports, resumed, repaired, overlooked>>
\* It is being recovered, unknown to the session, or the host did not answer.
NotListed(h) ==
  /\ handling[h].at = "listing"
  /\ Drops(h)
  /\ UNCHANGED <<parts, partFile, processing, reports, resumed, repaired, overlooked>>

\* Success resumes the session where that is configured and of use.
RecoveryGoesOn(h, success) ==
  handling' = [handling EXCEPT ![h].at =
     IF success /\ AutoResume /\ handling[h].kind # "tool" THEN "resuming" ELSE "done"]

\* recoverToolResultMissing: the open calls are answered as cancelled.
recoverToolResultMissing(h) ==
  LET m == handling[h].msg IN
    /\ handling[h].at = "repairing" /\ handling[h].kind = "tool"
    /\ Scan
    /\ \E sent \in BOOLEAN :
         /\ RecoveryGoesOn(h, sent /\ parts[m].open)
         /\ parts' = IF sent THEN [parts EXCEPT ![m].open = FALSE] ELSE parts
    /\ UNCHANGED <<processing, reports, resumed, repaired, overlooked>>

\* prependThinkingPart under an id that sorts first, for the message the error names
\* or for every message that does not start with thinking; a write may fail.
OrderTargets(h) ==
  IF handling[h].indexed /\ ~parts[handling[h].msg].first THEN {handling[h].msg}
  ELSE {m \in Messages : ~parts[m].first}
recoverThinkingBlockOrder(h) ==
  /\ handling[h].at = "repairing" /\ handling[h].kind = "order"
  /\ Scan
  /\ \E written \in SUBSET OrderTargets(h) :
       /\ RecoveryGoesOn(h, written # {})
       /\ parts' = [m \in Messages |-> IF m \in written
                      THEN [parts[m] EXCEPT !.first = TRUE, !.think = IF @ < 2 THEN @ + 1 ELSE @] ELSE parts[m]]
       /\ repaired' = repaired + Cardinality(written)
  /\ UNCHANGED <<processing, reports, resumed, overlooked>>

\* stripThinkingParts, one pass over a message: a part that cannot be read is passed
\* over in silence, one that cannot be unlinked blocks, and stays.
StripPasses == [skipped : 0..2, blocked : BOOLEAN, top : BOOLEAN]
Left(pass) == pass.skipped + IF pass.blocked THEN 1 ELSE 0
PassOf(p, pass) ==
  /\ Left(pass) <= p.think /\ (pass.blocked => p.stuck)
  /\ p.stuck /\ p.think > 0 => Left(pass) > 0
  /\ pass.top => p.first /\ Left(pass) > 0
  /\ p.first /\ Left(pass) = p.think => pass.top
Stripped(p, pass) == [p EXCEPT !.think = Left(pass), !.first = pass.top]
StripSucceedsPartly(p, pass) == p.think > Left(pass)
StripSucceeds(p, pass) == p.think > Left(pass) /\ ~pass.blocked

\* findMessagesWithThinkingBlocks overlooks a message whose parts it cannot read.
recoverThinkingDisabledViolation(h) ==
  \E found \in SUBSET {m \in Messages : parts[m].think > 0} : \E pass \in [found -> StripPasses] :
    LET clean == {m \in found : StripSucceeds(parts[m], pass[m])} IN
      /\ handling[h].at = "repairing" /\ handling[h].kind = "disabled"
      /\ \A m \in found : PassOf(parts[m], pass[m])
      /\ Scan
      /\ RecoveryGoesOn(h, clean # {})
      /\ parts' = [m \in Messages |-> IF m \in found THEN Stripped(parts[m], pass[m]) ELSE parts[m]]
      /\ repaired' = repaired + Cardinality({m \in found : Left(pass[m]) = 0})
      /\ overlooked' = overlooked + Cardinality({m \in clean : pass[m].skipped > 0})
      /\ UNCHANGED <<processing, reports, resumed>>

\* resumeSession prompts the model again; the prompt may fail.
resumeSession(h) ==
  /\ handling[h].at = "resuming"
  /\ handling' = [handling EXCEPT ![h].at = "done"]
  /\ resumed' \in {resumed, resumed + 1}
  /\ UNCHANGED <<parts, partFile, processing, reports, repaired, overlooked>>

RecoveryDone(h) ==
  /\ handling[h].at = "done"
  /\ processing' = processing \ {handling[h].msg}
  /\ Drops(h)
  /\ UNCHANGED <<parts, partFile, reports, resumed, repaired, overlooked>>

RecoveryNext ==
  \/ FileFreed
  \/ \E h \in Handlers :
       \/ Reported(h) \/ Listed(h) \/ NotListed(h)
       \/ recoverToolResultMissing(h) \/ recoverThinkingBlockOrder(h) \/ recoverThinkingDisabledViolation(h)
       \/ resumeSession(h) \/ RecoveryDone(h)

RecoverySpec == RecoveryInit /\ [][RecoveryNext]_recoveryVars

-----------------------------------------------------------------------------
\* The session is resumed at most once per message that was repaired for good, so a
\* file that cannot be removed never makes the plugin prompt the model in a loop; but
\* a message with a part that could not be read while another one was removed passes
\* for clean, and is paid for in `overlooked'.
ResumesAreEarned == resumed <= repaired + overlooked

\* One recovery of a message runs at a time, although the check comes after two
\* calls to the host.
OneRecoveryPerMessage ==
  \A g, h \in Handlers :
    g # h /\ {handling[g].at, handling[h].at} \subseteq {"repairing", "resuming", "done"}
      => handling[g].msg # handling[h].msg

\* A file that was only locked is never put aside as corrupt.
OnlyCorruptPutAside == partFile.aside => ~partFile.healthy

\* Repairs of sessions: earned resumes, one recovery of a message, no good data put aside.
RecoveryEarned == ResumesAreEarned /\ OneRecoveryPerMessage /\ OnlyCorruptPutAside
=============================================================================
