----------------------------- MODULE RunJournal -----------------------------
(***************************************************************************)
(* The observer journal (observation_store.py) and the runs kept in it     *)
(* (observer_runtime.py).  A command starts a run or resumes one, wraps    *)
(* every call it makes in a pair of events, an intent before the call and  *)
(* a terminal after it, and closes its invocation.  Commands share one     *)
(* SQLite file: an append reads MAX(cursor) and inserts in two statements, *)
(* and the history a command judges may be older than its next write.      *)
(***************************************************************************)
EXTENDS Naturals, FiniteSets, FiniteSetsExt, Sequences

CONSTANTS
    Clients,        \* operating-system processes that open the journal
    Runs,           \* run ids
    Work,           \* [Clients -> sets of labels]: the operations its commands perform
    MaxWork,        \* bound on the outermost operations of one command
    MaxInvocations, \* bound on the invocations in the journal when a command begins
    MaxFaults,      \* bound on crashes and failed writes
    NoRun

ASSUME JournalAssumption ==
    /\ NoRun \notin Runs
    /\ MaxWork \in Nat
    /\ MaxInvocations \in Nat
    /\ MaxFaults \in Nat

VARIABLES
    events,         \* table observation_events, a set of Event, durable
    artifacts,      \* table observer_artifacts of the other database, durable
    client,         \* [Clients -> Client], lost in a crash
    called,         \* history: the calls that were dispatched
    crowded,        \* history: the runs that two commands held at once
    faults          \* crashes and failed writes so far

vars == <<events, artifacts, client, called, crowded, faults>>

----------------------------------------------------------------------------
(* The operations.  single: a flag of the run object allows one.  once:    *)
(* the intent has an id fixed by the run.  failure: the terminal status of *)
(* a call that raised.  calls: what may be journaled while it is running.  *)

Propose == [label |-> "worker", single |-> TRUE, once |-> FALSE, failure |-> "failed",
            calls |-> {"model", "preflight"}]
JournaledModelChannel == [label |-> "model", single |-> TRUE, once |-> FALSE,
                          failure |-> "failed", calls |-> {}]
LocalModelPreflight == [label |-> "preflight", single |-> FALSE, once |-> TRUE,
                        failure |-> "failed", calls |-> {}]
SnapshotPinDecision == [label |-> "pin", single |-> TRUE, once |-> FALSE,
                        failure |-> "denied", calls |-> {}]
ExecutionAuthorization == [label |-> "permit", single |-> TRUE, once |-> FALSE,
                           failure |-> "denied", calls |-> {}]
ControlledStep == [label |-> "step", single |-> TRUE, once |-> FALSE,
                   failure |-> "denied", calls |-> {}]
SnapshotSource == [label |-> "source", single |-> FALSE, once |-> FALSE,
                   failure |-> "failed", calls |-> {}]
StageOperation == [label |-> "stage", single |-> FALSE, once |-> FALSE,
                   failure |-> "failed", calls |-> {}]
VerifierCall == [label |-> "verifier", single |-> TRUE, once |-> FALSE,
                 failure |-> "failed", calls |-> {}]
SandboxRun == [label |-> "sandbox", single |-> FALSE, once |-> FALSE,
               failure |-> "failed", calls |-> {}]
SandboxLifecycle == [label |-> "close", single |-> FALSE, once |-> FALSE,
                     failure |-> "failed", calls |-> {}]

\* Mutant: the local mock publication uses a random intent id.
MockPublicationTwice == [label |-> "mock", single |-> TRUE, once |-> FALSE,
                         failure |-> "failed", calls |-> {"dispatch"}]

MockPublication == [label |-> "mock", single |-> TRUE, once |-> TRUE, failure |-> "failed",
                    calls |-> {"dispatch"}]
PublicationDispatch == [label |-> "dispatch", single |-> TRUE, once |-> FALSE,
                        failure |-> "unknown", calls |-> {}]

Operations == {o \in {Propose, JournaledModelChannel, LocalModelPreflight, SnapshotPinDecision,
                      ExecutionAuthorization, ControlledStep, SnapshotSource, StageOperation,
                      VerifierCall, SandboxRun, SandboxLifecycle, MockPublication,
                      PublicationDispatch} :
                   \E c \in Clients : o.label \in Work[c]}

Labels == {o.label : o \in Operations}
Op(l) == CHOOSE o \in Operations : o.label = l
Inner == UNION {o.calls : o \in Operations}

\* A run that was ever asked to publish is not resumed.
PublicationLabels == {"mock", "dispatch"}

----------------------------------------------------------------------------
(* The tables and the run objects                                          *)

Statuses == {"none", "ok", "failed", "denied", "unknown"}

Event == [cursor : Nat, run : Runs, type : {"agent_started", "intent", "terminal",
          "agent_finished", "run_finished"}, label : Labels \cup {"none"}, inv : Nat,
          seq : Nat, status : Statuses]

Client == [step : {"idle", "write", "insert", "ready", "gate", "dispatch", "running",
                   "invocation_finished"},
           run : Runs \cup {NoRun}, fresh : BOOLEAN, inv : Nat, last : Nat, seq : Nat,
           used : SUBSET Labels, stack : Seq([label : Labels, inv : Nat, status : Statuses]),
           label : Labels \cup {"none"}, type : {"none", "agent_started", "terminal",
           "agent_finished", "run_finished"}, next : Nat, work : Nat, status : {"ok", "failed"}]

IdleClient == [step |-> "idle", run |-> NoRun, fresh |-> FALSE, inv |-> 0, last |-> 0, seq |-> 0,
               used |-> {}, stack |-> <<>>, label |-> "none", type |-> "none", next |-> 0,
               work |-> 0, status |-> "ok"]

Of(r) == {e \in events : e.run = r}
Intents(S) == {e \in S : e.type = "intent"}
Terminals(S, i) == {e \in S : e.type = "terminal" /\ e.inv = i}

\* COALESCE(MAX(cursor) + 1, 0)
NextCursor == IF events = {} THEN 0 ELSE Max({e.cursor : e \in events}) + 1

\* MAX(cursor) + 1 of the checkpoints: every intent is stored with its own.
NextCheckpoint == Cardinality(Intents(events))

Init ==
    /\ events = {}
    /\ artifacts = {}
    /\ client = [c \in Clients |-> IdleClient]
    /\ called = {}
    /\ crowded = {}
    /\ faults = 0

----------------------------------------------------------------------------
(* What a command reads in the history                                     *)

\* _all_work_terminal: no unknown outcome, one terminal for every intent.
Settled(r) ==
    /\ \A e \in Of(r) : e.status # "unknown"
    /\ \A i \in Intents(Of(r)) : Cardinality(Terminals(Of(r), i.inv)) = 1

\* _all_agent_invocations_terminal
InvocationsClosed(r) ==
    \A s \in Of(r) : s.type = "agent_started" =>
        Cardinality({f \in Of(r) : f.type = "agent_finished" /\ f.inv = s.inv}) = 1

\* The sequence numbers of a run are those of its cursor order.
Contiguous(r) ==
    \A e \in Of(r) : e.seq = Cardinality({d \in Of(r) : d.cursor < e.cursor})

\* _reject_prior_attempt: the task of the process was never started.
FirstAttempt == \A e \in events : e.type # "agent_started" /\ e.label # "worker"

\* resume_existing accepts the run.
Resumable(r) ==
    /\ Of(r) # {}
    /\ \A e \in Of(r) : e.type # "run_finished" /\ e.label \notin PublicationLabels
    /\ Contiguous(r)
    /\ InvocationsClosed(r)
    /\ Settled(r)

\* check_checkpoint: the trigger is at its cursor and of the same run.
Triggered(c) == \E e \in events : e.cursor = client[c].last /\ e.run = client[c].run

----------------------------------------------------------------------------
(* Starting and resuming                                                   *)

\* Commands that hold run r.
Holders(r) == {c \in Clients : client[c].run = r}

\* A run is crowded once two commands hold it; NoRun stands for two starts at once.
Crowd ==
    crowded' = crowded
        \cup {r \in Runs : \E c, d \in Clients : c # d /\ client'[c].run = r /\ client'[d].run = r}
        \cup {r \in {NoRun} : \E c, d \in Clients : c # d /\ client'[c].fresh /\ client'[d].fresh}

\* Bound on the length of the journal.
Room == Cardinality({e \in events : e.type = "agent_started"}) < MaxInvocations

\* c goes on to append an event of type t.
Write(c, t, rec) == client' = [client EXCEPT ![c] = [rec EXCEPT !.step = "write", !.type = t]]

OpenNew(c, r) ==
    /\ client[c].step = "idle" /\ Room
    /\ Of(r) = {} /\ Holders(r) = {}
    /\ FirstAttempt
    /\ Write(c, "agent_started", [IdleClient EXCEPT !.run = r, !.fresh = TRUE])
    /\ Crowd
    /\ UNCHANGED <<events, artifacts, called, faults>>

\* The flags of the run object are read back from the history.
Restored(r) == {l \in Labels : Op(l).single /\ l # "mock" /\ \E e \in Of(r) : e.label = l}

ResumeExisting(c, r) ==
    /\ client[c].step = "idle" /\ Room
    /\ Resumable(r)
    /\ Write(c, "agent_started",
             [IdleClient EXCEPT !.run = r, !.seq = Cardinality(Of(r)), !.used = Restored(r)])
    /\ Crowd
    /\ UNCHANGED <<events, artifacts, called, faults>>

----------------------------------------------------------------------------
(* append                                                                  *)

\* The event that c is about to store at cursor n.
Pending(c, n) ==
    LET k == client[c]
        own == IF k.type = "agent_started" THEN n ELSE IF k.type = "terminal" THEN Head(k.stack).inv ELSE k.inv
    IN [cursor |-> n, run |-> k.run, type |-> k.type,
        label |-> IF k.type = "terminal" THEN Head(k.stack).label ELSE "none",
        inv |-> own, seq |-> k.seq,
        status |-> CASE k.type = "terminal" -> Head(k.stack).status
                     [] k.type \in {"agent_finished", "run_finished"} -> k.status
                     [] OTHER -> "none"]

\* SELECT MAX(cursor) + 1
ReadCursor(c) ==
    /\ client[c].step = "write"
    /\ client' = [client EXCEPT ![c].step = "insert", ![c].next = NextCursor]
    /\ UNCHANGED <<events, artifacts, called, crowded, faults>>

\* What c does after its event was stored.
Stored(c) ==
    LET k == [client[c] EXCEPT !.last = client[c].next, !.seq = @ + 1, !.type = "none", !.next = 0]
    IN CASE k.fresh \/ client[c].type = "agent_started" ->
                [k EXCEPT !.step = "ready", !.fresh = FALSE, !.inv = client[c].next]
         [] client[c].type = "terminal" ->
                LET good == Head(k.stack).status = "ok"
                    up == Tail(k.stack)
                IN [k EXCEPT !.stack = IF up # <<>> /\ ~good THEN [up EXCEPT ![1].status = "failed"] ELSE up,
                             !.step = IF up = <<>> THEN "ready" ELSE "running",
                             !.status = IF up = <<>> /\ ~good THEN "failed" ELSE @]
         [] client[c].type = "agent_finished" -> [k EXCEPT !.step = "invocation_finished"]
         [] OTHER -> IdleClient

\* What c does when its event could not be stored: the outcome of a call stays unknown.
NotStored(c) ==
    LET k == [client[c] EXCEPT !.type = "none", !.next = 0]
        up == Tail(k.stack)
    IN IF client[c].type # "terminal" THEN IdleClient
       ELSE IF up = <<>> THEN [k EXCEPT !.stack = <<>>, !.step = "ready", !.status = "failed"]
       ELSE [k EXCEPT !.stack = [up EXCEPT ![1].status = "unknown"], !.step = "running"]

\* Mutant: the table has no UNIQUE cursor.
InsertDuplicateCursor(c) ==
    /\ client[c].step = "insert"
    /\ events' = events \cup {Pending(c, client[c].next)}
    /\ client' = [client EXCEPT ![c] = Stored(c)]
    /\ Crowd
    /\ UNCHANGED <<artifacts, called, faults>>

\* INSERT; the cursor is UNIQUE, so a writer in between makes it fail.
Insert(c) ==
    /\ client[c].step = "insert"
    /\ IF client[c].next \in {e.cursor : e \in events}
       THEN /\ client' = [client EXCEPT ![c] = NotStored(c)]
            /\ UNCHANGED events
       ELSE /\ events' = events \cup {Pending(c, client[c].next)}
            /\ client' = [client EXCEPT ![c] = Stored(c)]
    /\ Crowd
    /\ UNCHANGED <<artifacts, called, faults>>

----------------------------------------------------------------------------
(* run_gated_dispatch                                                      *)

\* c may journal operation l now: an outermost one, or one the running call makes.
MayGate(c, l) ==
    /\ l \in Work[c]
    /\ \/ /\ client[c].step = "ready"
          /\ l \notin Inner
          /\ client[c].work < MaxWork
          /\ client[c].status = "ok" \/ l = "close"
       \/ /\ client[c].step = "running"
          /\ l \in Op(Head(client[c].stack).label).calls
          /\ Head(client[c].stack).status = "none"
    /\ l \notin client[c].used

\* An inner gate that refuses makes the running call fail, an outer one the command.
Refused(c, k) ==
    IF k.stack = <<>> THEN [k EXCEPT !.step = "ready", !.status = "failed", !.label = "none"]
    ELSE [k EXCEPT !.step = "running", !.stack[1].status = "failed", !.label = "none"]

\* The single-use flag is set before anything is written; the pending-action
\* artifact goes to its own database; then the checkpoint cursor is read.
Gate(c, l) ==
    /\ MayGate(c, l)
    /\ client' = [client EXCEPT ![c].step = "gate", ![c].label = l, ![c].next = NextCheckpoint,
                                ![c].work = IF client[c].stack = <<>> THEN @ + 1 ELSE @,
                                ![c].used = IF Op(l).single THEN @ \cup {l} ELSE @]
    /\ artifacts' = artifacts \cup {<<client[c].run, l, client[c].seq>>}
    /\ UNCHANGED <<events, called, crowded, faults>>

\* The intent with its checkpoint, in one transaction.
RecordIntent(c) ==
    LET k == client[c]
        n == NextCursor
    IN /\ events' = events \cup {[cursor |-> n, run |-> k.run, type |-> "intent", label |-> k.label,
                                  inv |-> n, seq |-> k.seq, status |-> "none"]}
       /\ client' = [client EXCEPT
            ![c].step = "dispatch", ![c].last = n, ![c].seq = @ + 1, ![c].next = 0, ![c].label = "none",
            ![c].stack = <<[label |-> k.label, inv |-> n, status |-> "none"]>> \o @]

Refuse(c) == client' = [client EXCEPT ![c] = Refused(c, [client[c] EXCEPT !.next = 0])] /\ UNCHANGED events

\* record_checkpoint_and_intent: another writer's checkpoint makes the insert fail.
\* What it does with a checkpoint or event id it knows (lines 533-545 and 559-560) never
\* happens: those who call it without once make random ids.
RecordCheckpointAndIntent(c) ==
    /\ client[c].step = "gate" /\ ~Op(client[c].label).once
    /\ IF Triggered(c) /\ NextCheckpoint = client[c].next THEN RecordIntent(c) ELSE Refuse(c)
    /\ UNCHANGED <<artifacts, called, crowded, faults>>

\* record_checkpoint_and_intent_once: BEGIN IMMEDIATE, and no intent of that id.
RecordCheckpointAndIntentOnce(c) ==
    /\ client[c].step = "gate" /\ Op(client[c].label).once
    /\ IF Triggered(c) /\ \A e \in Of(client[c].run) : e.label # client[c].label
       THEN RecordIntent(c) ELSE Refuse(c)
    /\ UNCHANGED <<artifacts, called, crowded, faults>>

\* dispatch()
Dispatch(c) ==
    /\ client[c].step = "dispatch"
    /\ called' = called \cup {[run |-> client[c].run, label |-> Head(client[c].stack).label,
                               inv |-> Head(client[c].stack).inv]}
    /\ client' = [client EXCEPT ![c].step = "running"]
    /\ UNCHANGED <<events, artifacts, crowded, faults>>

\* Mutant: a call that raised has no terminal status.
OutcomesUnclassified(c) == {"ok", "raised"}

\* How a call may end.  A failed call inside it ends a publication, not a Worker.
Outcomes(c) ==
    LET top == Head(client[c].stack)
        bad == Op(top.label).failure
    IN CASE top.status = "none" -> {"ok", bad}
         [] top.label = "mock" -> {"failed", "unknown"}
         [] OTHER -> {"ok", bad}

\* The call returns or raises, and the append of its terminal event reads the cursor.
Return(c) ==
    /\ client[c].step = "running"
    /\ \E s \in Outcomes(c) :
         client' = [client EXCEPT ![c].step = "insert", ![c].type = "terminal",
                                  ![c].next = NextCursor, ![c].stack[1].status = s]
    /\ UNCHANGED <<events, artifacts, called, crowded, faults>>

----------------------------------------------------------------------------
(* Finishing                                                               *)

\* Mutant: an invocation is closed whatever its work came to.
FinishAgentInvocationUnsettled(c) ==
    /\ client[c].step = "ready"
    /\ client[c].work > 0 \/ client[c].status = "failed"
    /\ Write(c, "agent_finished", client[c])
    /\ Crowd
    /\ UNCHANGED <<events, artifacts, called, faults>>

\* finish_agent_invocation; a command whose work is not settled just ends.
FinishAgentInvocation(c) ==
    /\ client[c].step = "ready"
    /\ client[c].work > 0 \/ client[c].status = "failed"
    /\ IF Settled(client[c].run)
       THEN Write(c, "agent_finished", client[c])
       ELSE client' = [client EXCEPT ![c] = IdleClient]
    /\ Crowd
    /\ UNCHANGED <<events, artifacts, called, faults>>

\* finish_run, by the commands that publish; the others end here.
FinishRun(c) ==
    /\ client[c].step = "invocation_finished"
    /\ IF "mock" \in client[c].used /\ Settled(client[c].run) /\ InvocationsClosed(client[c].run)
       THEN Write(c, "run_finished", client[c])
       ELSE client' = [client EXCEPT ![c] = IdleClient]
    /\ Crowd
    /\ UNCHANGED <<events, artifacts, called, faults>>

----------------------------------------------------------------------------
(* Failures                                                                *)

\* The process dies.
Crash(c) ==
    /\ client[c].step # "idle"
    /\ faults < MaxFaults
    /\ faults' = faults + 1
    /\ client' = [client EXCEPT ![c] = IdleClient]
    /\ UNCHANGED <<events, artifacts, called, crowded>>

\* The database is locked or the disk is full.
StoreFault(c) ==
    /\ client[c].step \in {"insert", "gate"}
    /\ faults < MaxFaults
    /\ faults' = faults + 1
    /\ client' = [client EXCEPT ![c] = IF client[c].step = "insert" THEN NotStored(c)
                                       ELSE Refused(c, [client[c] EXCEPT !.next = 0])]
    /\ UNCHANGED <<events, artifacts, called, crowded>>

Next ==
    \E c \in Clients :
        \/ \E r \in Runs : OpenNew(c, r) \/ ResumeExisting(c, r)
        \/ \E l \in Labels : Gate(c, l)
        \/ RecordCheckpointAndIntent(c) \/ RecordCheckpointAndIntentOnce(c)
        \/ Dispatch(c) \/ Return(c)
        \/ ReadCursor(c) \/ Insert(c)
        \/ FinishAgentInvocation(c) \/ FinishRun(c)
        \/ Crash(c) \/ StoreFault(c)

Spec == Init /\ [][Next]_vars

----------------------------------------------------------------------------
(* Properties                                                              *)

\* Every variable has its type.
TypeOK ==
    /\ events \subseteq Event
    /\ \A c \in Clients : client[c] \in Client
    /\ crowded \subseteq Runs \cup {NoRun}
    /\ faults \in 0..MaxFaults

\* run_gated_dispatch: whatever writers collide, crash or fail, a call that was
\* made has its intent in the journal, the intent has its artifact, a terminal
\* follows the intent it answers, and no two events share a cursor.
EffectsAreJournaled ==
    /\ \A k \in called : \E e \in Intents(events) :
          e.run = k.run /\ e.label = k.label /\ e.inv = k.inv
    /\ \A e \in Intents(events) : <<e.run, e.label, e.seq>> \in artifacts
    /\ \A t \in events : t.type = "terminal" =>
          \E k \in called : k.inv = t.inv /\ k.run = t.run /\ k.label = t.label /\ t.inv < t.cursor
    /\ \A d, e \in events : d.cursor = e.cursor => d = e

\* A run publishes to the local mock once, whoever resumes it, and unless two
\* commands start or resume at the same moment the Worker is called once for
\* the task.
CalledAtMostOnce ==
    /\ \A r \in Runs : Cardinality({k \in called : k.run = r /\ k.label = "mock"}) <= 1
    /\ crowded = {} => Cardinality({k \in called : k.label = "worker"}) <= 1

\* A run that one command at a time has held is never resumed or closed once
\* it has a call without a terminal or an unknown outcome.
UncertaintyIsFinal ==
    [][\A e \in events' \ events :
          (e.type \in {"agent_started", "agent_finished", "run_finished"} /\ e.run \notin crowded)
              => Settled(e.run)]_vars
=============================================================================
