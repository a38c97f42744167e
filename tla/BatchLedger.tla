---------------------------- MODULE BatchLedger ----------------------------
(***************************************************************************)
(* The R5 experiment: the append-only attempt ledger (r5_attempt_ledger),  *)
(* the batch runner that spends attempts in it and calls a worker for each *)
(* (run_r5_preregistered_batch, r5_execution), and the command line that   *)
(* creates or resumes the stores around a batch (run_r5_batch_cli).        *)
(*                                                                         *)
(* Several command lines may run at once.  They share a ledger path; an    *)
(* unlinked ledger file lives on in the connections that have it open, so  *)
(* ledgers are numbered and `path' names the one the path leads to.  The   *)
(* stage store appears only by its WAL sidecar, which a command line that  *)
(* has the stage open for writing leaves beside it and which makes resume  *)
(* refuse.                                                                 *)
(***************************************************************************)
EXTENDS Naturals, FiniteSets, Sequences, SequencesExt

CONSTANTS
    Runners,        \* command lines
    N,              \* length of the frozen schedule; attempt ids are 1..N
    F,              \* the first batch is 1..F
    Selections,     \* attempt lists an operator resumes with
    Digests,        \* input digests; more than one when the payload builder changed
    MaxLedgers      \* bound on the ledger files ever created

Ids == 1..N
Ledgers == 1..MaxLedgers

ASSUME BatchAssumption ==
    /\ N \in Nat /\ F \in Ids /\ MaxLedgers \in Nat
    /\ Selections \subseteq Seq(Ids)
    /\ \A s \in Selections : s # <<>> /\ \A i, j \in DOMAIN s : s[i] = s[j] => i = j

VARIABLES
    path,           \* the ledger the path leads to, 0 when there is no file
    ledger,         \* [Ledgers -> Ledger], the files
    stale,          \* a stage sidecar was left behind by a crash
    run,            \* [Runners -> Run], the command lines
    calls           \* [Ledgers -> [Ids -> Nat]], times an attempt was handed to its worker

vars == <<path, ledger, stale, run, calls>>

Outcomes == {"verified", "failed"}      \* needs_input, blocked and denied act as verified

Attempt == [state : {"PENDING", "CLAIMED", "COMPLETED", "UNKNOWN"},
            digest : Digests \cup {"none"}, outcome : Outcomes \cup {"none"}]
Pending == [state |-> "PENDING", digest |-> "none", outcome |-> "none"]

\* allowed is ledger_meta.allowed_attempt_ids, known the rows of table attempts, event
\* the last event of each attempt.
Ledger == [allowed : SUBSET Ids, known : SUBSET Ids, event : [Ids -> Attempt]]
NoLedger == [allowed |-> {}, known |-> {}, event |-> [a \in Ids |-> Pending]]

Run == [pc : {"idle", "schema", "rows", "confirm", "closed", "recheck", "batch", "next",
              "claim", "invoke", "answer", "complete", "unknown"},
        fresh : BOOLEAN, db : {0} \cup Ledgers, selected : Seq(Ids), digest : Digests \cup {"none"},
        continue_after_failed : BOOLEAN, extension : SUBSET Ids, completed : SUBSET Ids,
        k : Nat, answer : Outcomes \cup {"none"},
        status : {"none", "complete", "stopped-failed", "stopped-unknown",
                  "stopped-preflight", "rejected"},
        report : [Ids -> {"none", "CLAIMED", "COMPLETED", "UNKNOWN"}]]

NoReport == [a \in Ids |-> "none"]
IdleRun == [pc |-> "idle", fresh |-> FALSE, db |-> 0, selected |-> <<>>, digest |-> "none",
            continue_after_failed |-> FALSE, extension |-> {}, completed |-> {}, k |-> 1,
            answer |-> "none", status |-> "none", report |-> NoReport]

Init ==
    /\ path = 0
    /\ ledger = [g \in Ledgers |-> NoLedger]
    /\ stale = FALSE
    /\ run = [r \in Runners |-> IdleRun]
    /\ calls = [g \in Ledgers |-> [a \in Ids |-> 0]]

----------------------------------------------------------------------------
(* Helpers                                                                  *)

Current(r) == run[r].selected[run[r].k]
Event(r, a) == ledger[run[r].db].event[a]
State(r, a) == Event(r, a).state

\* SQLite refuses to write to a database file that was unlinked while open.
Attached(r) == run[r].db = path

\* The command lines that have the stage open for writing, and so keep a sidecar.
StageOpen(r) ==
    \/ run[r].pc = "confirm" /\ run[r].fresh
    \/ run[r].pc \in {"recheck", "batch", "next", "claim", "invoke", "answer", "complete",
                      "unknown"}
Sidecar == stale \/ \E r \in Runners : StageOpen(r)

Goto(r, pc) == run' = [run EXCEPT ![r].pc = pc]

\* The command line ends; its connections are closed.  An error carries no report.
Ends(r, status) ==
    run' = [run EXCEPT ![r].pc = "idle", ![r].status = status,
                       ![r].report = IF status = "rejected" THEN NoReport ELSE @]

\* The ledger's transaction for attempt a, in the file that r has open.
Record(r, a, state, outcome) ==
    ledger' = [ledger EXCEPT ![run[r].db].event[a].state = state,
                             ![run[r].db].event[a].outcome = outcome]

----------------------------------------------------------------------------
(* Creating and resuming the stores                                         *)

\* O_CREAT | O_EXCL.
CreateFile(r, d) ==
    /\ run[r].pc = "idle"
    /\ path = 0
    /\ LET g == Cardinality({l \in Ledgers : ledger[l] # NoLedger}) + 1
       IN  /\ g \in Ledgers
           /\ path' = g
           /\ run' = [run EXCEPT ![r] = [IdleRun EXCEPT
                       !.pc = "schema", !.fresh = TRUE, !.db = g, !.digest = d,
                       !.selected = [i \in 1..F |-> i]]]
    /\ UNCHANGED <<ledger, stale, calls>>

\* The tables and ledger_meta; autocommit, so the attempts are not there yet.
CreateSchema(r) ==
    /\ run[r].pc = "schema"
    /\ ledger' = [ledger EXCEPT ![run[r].db].allowed = 1..F]
    /\ Goto(r, "rows")
    /\ UNCHANGED <<path, stale, calls>>

\* executemany, one row per transaction; the stage and the observer follow.
InsertAttempt(r) ==
    /\ run[r].pc = "rows"
    /\ LET known == ledger[run[r].db].known
           a == Cardinality(known) + 1
       IN  /\ ledger' = [ledger EXCEPT ![run[r].db].known = known \cup {a}]
           /\ Goto(r, IF a = F THEN "confirm" ELSE "rows")
    /\ UNCHANGED <<path, stale, calls>>

\* _validate_existing_schema.
Valid(l) == l.allowed # {} /\ l.known = l.allowed

Selectable(l, s) == \A i \in DOMAIN s : s[i] \in l.known => l.event[s[i]].state = "PENDING"

\* The selected attempts the ledger does not know must be the next ones of the schedule.
Extends(l, s) ==
    LET missing == SelectSeq(s, LAMBDA a : a \notin l.known)
    IN  missing = [i \in 1..Len(missing) |-> Cardinality(l.known) + i]

\* --resume-existing-stores: a quiescent stage, a valid ledger, unchanged bytes, and
\* every selected attempt pending or about to be appended.
OpenExisting(r, s, d, c) ==
    /\ run[r].pc = "idle"
    /\ path # 0
    /\ ~Sidecar
    /\ Valid(ledger[path]) /\ Extends(ledger[path], s) /\ Selectable(ledger[path], s)
    /\ run' = [run EXCEPT ![r] = [IdleRun EXCEPT
                !.pc = "confirm", !.db = path, !.digest = d, !.selected = s,
                !.continue_after_failed = c,
                !.extension = ToSet(s) \ ledger[path].known]]
    /\ UNCHANGED <<path, ledger, stale, calls>>

\* The operator does not type the gate, or something fails before it: the connections
\* are closed, and stores that were created are to be removed.
Decline(r) ==
    /\ run[r].pc = "confirm"
    /\ IF run[r].fresh THEN Goto(r, "closed") ELSE Ends(r, "none")
    /\ UNCHANGED <<path, ledger, stale, calls>>

\* _OpenedStores.close: only the file that was created is removed.
Unlink(r) ==
    /\ run[r].pc = "closed"
    /\ path' = IF Attached(r) THEN 0 ELSE path
    /\ Ends(r, "none")
    /\ UNCHANGED <<ledger, stale, calls>>

\* extend_allowed_attempt_ids accepts: one transaction checks and writes both tables.
Extendable(r) ==
    LET l == ledger[run[r].db]
    IN  /\ Attached(r) /\ l.known = l.allowed
        /\ \A a \in run[r].extension, b \in l.allowed : b < a

\* Mutant: only the metadata are extended.
ActivateExtendsMeta(r) ==
    /\ run[r].pc = "confirm"
    /\ \/ /\ run[r].extension = {}
          /\ Goto(r, IF run[r].fresh THEN "batch" ELSE "recheck")
          /\ UNCHANGED ledger
       \/ /\ run[r].extension # {}
          /\ ledger' = [ledger EXCEPT ![run[r].db].allowed = @ \cup run[r].extension]
          /\ Goto(r, "recheck")
    /\ UNCHANGED <<path, stale, calls>>

\* The gate was typed: extend, open the stage for writing, keep the files.
Activate(r) ==
    /\ run[r].pc = "confirm"
    /\ \/ /\ run[r].extension = {}
          /\ Goto(r, IF run[r].fresh THEN "batch" ELSE "recheck")
          /\ UNCHANGED ledger
       \/ /\ run[r].extension # {} /\ Extendable(r)
          /\ ledger' = [ledger EXCEPT ![run[r].db].allowed = @ \cup run[r].extension,
                                      ![run[r].db].known = @ \cup run[r].extension]
          /\ Goto(r, "recheck")
       \/ /\ run[r].extension # {} /\ ~Extendable(r)
          /\ Ends(r, "rejected")
          /\ UNCHANGED ledger
    /\ UNCHANGED <<path, stale, calls>>

\* Mutant: the command line waits until its attempts are pending.
RecheckWaits(r) ==
    /\ run[r].pc = "recheck"
    /\ \A a \in ToSet(run[r].selected) : a \in ledger[run[r].db].known /\ State(r, a) = "PENDING"
    /\ Goto(r, "batch")
    /\ UNCHANGED <<path, ledger, stale, calls>>

\* A resumed command line looks at its attempts again after the gate.
Recheck(r) ==
    /\ run[r].pc = "recheck"
    /\ IF \A a \in ToSet(run[r].selected) : a \in ledger[run[r].db].known /\ State(r, a) = "PENDING"
       THEN Goto(r, "batch")
       ELSE Ends(r, "rejected")
    /\ UNCHANGED <<path, ledger, stale, calls>>

----------------------------------------------------------------------------
(* The batch                                                                *)

\* The first scan stops at attempt a.
Mismatch(r, a) == State(r, a) = "COMPLETED" /\ Event(r, a).digest # run[r].digest

\* Mutant: an earlier failure does not stop the batch.
StopsIgnoresFailure(r, a) == State(r, a) \in {"CLAIMED", "UNKNOWN"}

Stops(r, a) ==
    \/ State(r, a) \in {"CLAIMED", "UNKNOWN"}
    \/ /\ State(r, a) = "COMPLETED" /\ Event(r, a).outcome = "failed"
       /\ ~run[r].continue_after_failed

\* The ledger is read once; what other command lines do later is not seen.
StartBatch(r) ==
    /\ run[r].pc = "batch"
    /\ LET s == run[r].selected
           first == SelectInSeq(s, LAMBDA a : Mismatch(r, a) \/ Stops(r, a))
       IN  \/ /\ ToSet(s) \subseteq ledger[run[r].db].known
              /\ first = 0
              /\ run' = [run EXCEPT ![r].pc = "next",
                          ![r].completed = {a \in ToSet(s) : State(r, a) = "COMPLETED"}]
           \/ /\ ToSet(s) \subseteq ledger[run[r].db].known
              /\ first # 0 /\ ~Mismatch(r, s[first])
              /\ run' = [run EXCEPT ![r].pc = "idle",
                          ![r].status = IF State(r, s[first]) = "COMPLETED"
                                        THEN "stopped-failed" ELSE "stopped-unknown",
                          ![r].report = [a \in Ids |->
                                IF a \in ToSet(SubSeq(s, 1, first)) /\ State(r, a) # "PENDING"
                                THEN State(r, a) ELSE "none"]]
           \/ /\ \/ ~(ToSet(s) \subseteq ledger[run[r].db].known)
                 \/ first # 0 /\ Mismatch(r, s[first])
              /\ Ends(r, "rejected")
    /\ UNCHANGED <<path, ledger, stale, calls>>

\* The head of the loop: skip what was completed, build a worker for the rest.  The
\* factory fails, or the deadline has passed: stopped-preflight.  "complete" stands for
\* "complete-with-failures" too.
NextItem(r) ==
    /\ run[r].pc = "next"
    /\ \/ run[r].k > Len(run[r].selected) /\ Ends(r, "complete")
       \/ /\ run[r].k <= Len(run[r].selected) /\ Current(r) \in run[r].completed
          /\ run' = [run EXCEPT ![r].k = @ + 1, ![r].report[Current(r)] = "COMPLETED"]
       \/ /\ run[r].k <= Len(run[r].selected) /\ Current(r) \notin run[r].completed
          /\ Goto(r, "claim") \/ Ends(r, "stopped-preflight")
    /\ UNCHANGED <<path, ledger, stale, calls>>

\* Mutant: a claim that is already there is taken over.
ClaimableAgain(r, a) ==
    /\ Attached(r)
    /\ a \in ledger[run[r].db].known
    /\ State(r, a) \in {"PENDING", "CLAIMED"}

Claimable(r, a) ==
    /\ Attached(r)
    /\ a \in ledger[run[r].db].known
    /\ State(r, a) = "PENDING"

\* BEGIN IMMEDIATE, look, insert.  The alarm may go off after the commit.
Claim(r) ==
    LET a == Current(r)
    IN  /\ run[r].pc = "claim"
        /\ \/ /\ Claimable(r, a)
              /\ ledger' = [ledger EXCEPT ![run[r].db].event[a] =
                    [state |-> "CLAIMED", digest |-> run[r].digest, outcome |-> "none"]]
              /\ Goto(r, "invoke") \/ Ends(r, "rejected")
           \/ /\ ~Claimable(r, a)
              /\ Ends(r, "rejected")
              /\ UNCHANGED ledger
        /\ UNCHANGED <<path, stale, calls>>

\* attempt_executor is called: the attempt and its worker are handed to the executor.
Invoke(r) ==
    /\ run[r].pc = "invoke"
    /\ calls' = [calls EXCEPT ![run[r].db][Current(r)] = @ + 1]
    /\ Goto(r, "answer")
    /\ UNCHANGED <<path, ledger, stale>>

\* Mutant: a result that cannot be classified is kept as it is.
AnswerUnclassified(r) ==
    /\ run[r].pc = "answer"
    /\ run' = [run EXCEPT ![r].pc = "complete", ![r].answer = "error"]
    /\ UNCHANGED <<path, ledger, stale, calls>>

\* The executor returns a result, or raises (the alarm included).
Answer(r) ==
    /\ run[r].pc = "answer"
    /\ \/ \E o \in Outcomes : run' = [run EXCEPT ![r].pc = "complete", ![r].answer = o]
       \/ Goto(r, "unknown")
    /\ UNCHANGED <<path, ledger, stale, calls>>

\* complete: the transaction commits and the loop goes on or stops; or complete raises,
\* before the commit or (the alarm) after it.
Complete(r) ==
    LET a == Current(r)
        o == run[r].answer
    IN  /\ run[r].pc = "complete"
        /\ \/ /\ Attached(r) /\ State(r, a) = "CLAIMED"
              /\ Record(r, a, "COMPLETED", o)
              /\ \/ run' = [run EXCEPT ![r].report[a] = "COMPLETED", ![r].answer = "none",
                             ![r].pc = IF o = "failed" /\ ~run[r].continue_after_failed
                                       THEN "idle" ELSE "next",
                             ![r].status = IF o = "failed" /\ ~run[r].continue_after_failed
                                           THEN "stopped-failed" ELSE "none",
                             ![r].k = @ + 1]
                 \/ Goto(r, "unknown")
           \/ Goto(r, "unknown") /\ UNCHANGED ledger
        /\ UNCHANGED <<path, stale, calls>>

\* Mutant: what the handler meant to write is reported.
MarkUnknownAssumed(r) ==
    /\ run[r].pc = "unknown"
    /\ \/ Attached(r) /\ State(r, Current(r)) = "CLAIMED" /\ Record(r, Current(r), "UNKNOWN", "none")
       \/ UNCHANGED ledger
    /\ run' = [run EXCEPT ![r].pc = "idle", ![r].status = "stopped-unknown",
                          ![r].answer = "none", ![r].report[Current(r)] = "UNKNOWN"]
    /\ UNCHANGED <<path, stale, calls>>

\* Mutant: the attempt's last event is not looked at.
MarkUnknownUnchecked(r) ==
    /\ run[r].pc = "unknown"
    /\ Attached(r) /\ Record(r, Current(r), "UNKNOWN", "none")
    /\ Ends(r, "stopped-unknown")
    /\ UNCHANGED <<path, stale, calls>>

\* Mutant: the attempt is released for another try.
MarkUnknownReleases(r) ==
    /\ run[r].pc = "unknown"
    /\ Attached(r) /\ Record(r, Current(r), "PENDING", "none")
    /\ Ends(r, "stopped-unknown")
    /\ UNCHANGED <<path, stale, calls>>

\* The exception handler.  mark_unknown may fail, and then the report says CLAIMED.
MarkUnknown(r) ==
    LET a == Current(r)
        Reports(state) == run' = [run EXCEPT ![r].pc = "idle", ![r].status = "stopped-unknown",
                                             ![r].answer = "none", ![r].report[a] = state]
    IN  /\ run[r].pc = "unknown"
        /\ \/ /\ Attached(r) /\ State(r, a) = "CLAIMED"
              /\ Record(r, a, "UNKNOWN", "none")
              /\ Reports("UNKNOWN") \/ Reports("CLAIMED") \/ Ends(r, "rejected")
           \/ Reports("CLAIMED") /\ UNCHANGED ledger
        /\ UNCHANGED <<path, stale, calls>>

\* The alarm, or any error, outside the call of the executor.
Interrupt(r) ==
    /\ \/ run[r].pc \in {"batch", "next", "claim", "invoke", "unknown"} /\ Ends(r, "rejected")
       \/ run[r].pc = "invoke" /\ Goto(r, "unknown")
    /\ UNCHANGED <<path, ledger, stale, calls>>

----------------------------------------------------------------------------
(* The specification                                                        *)

\* The process dies, or creating the ledger fails half-way: the files stay.
Crash(r) ==
    /\ run[r].pc # "idle"
    /\ stale' = (stale \/ StageOpen(r))
    /\ run' = [run EXCEPT ![r] = IdleRun]
    /\ UNCHANGED <<path, ledger, calls>>

\* An operator opens the stage and closes it again.
RecoverStage ==
    /\ stale
    /\ stale' = FALSE
    /\ UNCHANGED <<path, ledger, run, calls>>

Step(r) ==
    \/ CreateSchema(r) \/ InsertAttempt(r) \/ Decline(r) \/ Unlink(r)
    \/ Activate(r) \/ Recheck(r) \/ StartBatch(r) \/ NextItem(r)
    \/ Claim(r) \/ Invoke(r) \/ Answer(r) \/ Complete(r) \/ MarkUnknown(r) \/ Interrupt(r)

Next ==
    \/ \E r \in Runners :
        \/ \E d \in Digests : CreateFile(r, d)
        \/ \E s \in Selections, d \in Digests, c \in BOOLEAN : OpenExisting(r, s, d, c)
        \/ Step(r)
        \/ Crash(r)
    \/ RecoverStage

Spec == Init /\ [][Next]_vars

\* The interpreter goes on with what it is in, and the timer ends a worker that hangs.
\* Nothing makes an operator answer the prompt.
Prompt(r) == run[r].pc = "confirm"
FairSpec == Spec /\ \A r \in Runners : WF_vars(Step(r) /\ ~Prompt(r))

----------------------------------------------------------------------------
(* Properties                                                               *)

\* The ledger files and the command lines have the values the schema's CHECKs and
\* R5BatchResult allow.
TypeOK ==
    /\ path \in {0} \cup Ledgers
    /\ ledger \in [Ledgers -> Ledger]
    /\ stale \in BOOLEAN
    /\ run \in [Runners -> Run]
    /\ calls \in [Ledgers -> [Ids -> Nat]]

\* An attempt is handed to its worker at most once in the life of a ledger, and only
\* after the attempt was spent (claim before attempt_executor), across crashes, alarms,
\* resumed batches and command lines that run at the same time.
CalledOnce ==
    \A g \in Ledgers, a \in Ids :
        /\ calls[g][a] <= 1
        /\ calls[g][a] = 1 => ledger[g].event[a].state # "PENDING"
        /\ ledger[g].event[a].state = "COMPLETED" => calls[g][a] = 1

\* While a worker runs, every attempt before it in the batch is completed, on the same
\* input, and none failed unless the operator opted in: the batch read the ledger once,
\* but what it did not see completed it must claim itself.
OrderIsKept ==
    \A r \in Runners : run[r].pc \in {"answer", "complete"} =>
        \A i \in 1..(run[r].k - 1) :
            LET e == Event(r, run[r].selected[i])
            IN  /\ e.state = "COMPLETED" /\ e.digest = run[r].digest
                /\ e.outcome = "failed" => run[r].continue_after_failed

\* A batch that says "complete" has completed every selected attempt on its own input,
\* and no report shows an attempt as less spent than the ledger has it.
ReportIsTrue ==
    \A r \in Runners :
        /\ run[r].status = "complete" =>
            \A a \in ToSet(run[r].selected) :
                State(r, a) = "COMPLETED" /\ Event(r, a).digest = run[r].digest
        /\ \A a \in Ids :
            /\ run[r].report[a] \in {"COMPLETED", "UNKNOWN"} => State(r, a) = run[r].report[a]
            /\ run[r].report[a] = "CLAIMED" => State(r, a) # "PENDING"

\* A ledger whose creation was cut short is never claimed in, and one that was claimed in
\* stays acceptable to open_existing, extensions included.
ClaimedLedgerIsValid ==
    \A g \in Ledgers, a \in Ids :
        ledger[g].event[a].state # "PENDING" => Valid(ledger[g]) /\ a \in ledger[g].known

\* A file with claims in it stays at the path: what an attempt spent is there to be
\* inspected and to refuse a repeat.
EvidenceIsKept ==
    \A g \in Ledgers, a \in Ids : ledger[g].event[a].state # "PENDING" => path = g

\* No decision is taken back, and the schedule of a ledger only grows.
EvidenceOnlyGrows ==
    [][\A g \in Ledgers :
        /\ ledger[g].allowed \subseteq ledger'[g].allowed
        /\ \A a \in Ids :
            LET e == ledger[g].event[a]
                f == ledger'[g].event[a]
            IN  /\ e.state # "PENDING" => f.state # "PENDING" /\ f.digest = e.digest
                /\ e.state \in {"COMPLETED", "UNKNOWN"} => f = e]_vars

\* A command line that is at work comes to its end, or to the prompt where it waits for
\* its operator, whatever the others do to the ledger in the meantime.
BatchEnds == \A r \in Runners : ~Prompt(r) ~> run[r].pc = "idle" \/ Prompt(r)

\* Each attempt of each ledger is a one-shot (module OneShot).
Phase(g, a) ==
    CASE ledger[g].event[a].state \in {"COMPLETED", "UNKNOWN"} -> "decided"
      [] ledger[g].event[a].state = "CLAIMED" /\ calls[g][a] > 0 -> "called"
      [] ledger[g].event[a].state = "CLAIMED" /\ calls[g][a] = 0 -> "spent"
      [] OTHER -> "pending"

Promise == INSTANCE OneShot WITH
    Attempts <- Ledgers \X Ids,
    phase <- [x \in Ledgers \X Ids |-> Phase(x[1], x[2])]

\* Claiming, calling and deciding, spread over several transactions and command lines,
\* look from outside like the steps of a one-shot.
Implements == Promise!OneShotSpec
=============================================================================
