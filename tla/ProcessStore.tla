---------------------------- MODULE ProcessStore ----------------------------
(***************************************************************************)
(* The durable process store (runtime_store.py) and the workflow graph it  *)
(* enforces (state_machine.py).  Clients share one SQLite file.  advance   *)
(* reads the row, checks the caller's version and the transition, and then *)
(* writes in a transaction of its own, so another client may have moved    *)
(* the process in between.                                                 *)
(***************************************************************************)
EXTENDS Naturals

CONSTANTS
    Clients,          \* connections to the database file
    Processes,        \* process ids
    Evidence,         \* the sets of evidence flags callers present
    MaxVersion,       \* bound on the transitions of one process
    MaxAudits         \* bound on the audit events of one process

Flags == {"contract_complete", "policy_allowed", "artifact_digest", "verification_passed",
          "staged_digest", "approval_valid", "receipt_present", "postcondition_verified"}

ASSUME StoreAssumption ==
    /\ Evidence \subseteq SUBSET Flags
    /\ MaxVersion \in Nat
    /\ MaxAudits \in Nat

VARIABLES
    rows,       \* table processes: [Processes -> Row], durable
    events,     \* table process_events, a set of Event, durable and append-only
    audits,     \* table audit_events, by process, durable and append-only
    call        \* [Clients -> Call], the call a client is in, lost in a crash

vars == <<rows, events, audits, call>>

----------------------------------------------------------------------------
(* The workflow graph                                                       *)

States == {"received", "specified", "authorized", "executing", "verifying", "staged",
           "waiting_approval", "applying", "completed", "waiting_input", "quarantined",
           "rejected", "failed", "reconciliation_required", "cancelled"}

Terminal == {"completed", "rejected", "failed", "cancelled"}

\* Mutant: a specified process may execute without being authorized.
NormalSkipsAuthorization ==
    [received |-> {"specified", "waiting_input", "rejected", "cancelled"},
     specified |-> {"authorized", "executing", "waiting_input", "rejected", "cancelled"},
     authorized |-> {"executing", "rejected", "cancelled"},
     executing |-> {"verifying", "quarantined", "failed", "cancelled"},
     verifying |-> {"executing", "staged", "quarantined", "rejected", "failed"},
     staged |-> {"waiting_approval", "executing", "cancelled"},
     waiting_approval |-> {"applying", "executing", "rejected", "cancelled"},
     applying |-> {"completed", "failed", "reconciliation_required"},
     waiting_input |-> {"specified", "cancelled"},
     quarantined |-> {"executing", "rejected", "cancelled"},
     reconciliation_required |-> {"completed", "failed"},
     completed |-> {}, rejected |-> {}, failed |-> {}, cancelled |-> {}]

Normal ==
    [received |-> {"specified", "waiting_input", "rejected", "cancelled"},
     specified |-> {"authorized", "waiting_input", "rejected", "cancelled"},
     authorized |-> {"executing", "rejected", "cancelled"},
     executing |-> {"verifying", "quarantined", "failed", "cancelled"},
     verifying |-> {"executing", "staged", "quarantined", "rejected", "failed"},
     staged |-> {"waiting_approval", "executing", "cancelled"},
     waiting_approval |-> {"applying", "executing", "rejected", "cancelled"},
     applying |-> {"completed", "failed", "reconciliation_required"},
     waiting_input |-> {"specified", "cancelled"},
     quarantined |-> {"executing", "rejected", "cancelled"},
     reconciliation_required |-> {"completed", "failed"},
     completed |-> {}, rejected |-> {}, failed |-> {}, cancelled |-> {}]

\* Mutant: a staged change needs no passed verification.
RequiredUnverified(s, t) ==
    CASE s = "received" /\ t = "specified" -> {"contract_complete"}
      [] s = "specified" /\ t = "authorized" -> {"policy_allowed"}
      [] s = "executing" /\ t = "verifying" -> {"artifact_digest"}
      [] s = "verifying" /\ t = "staged" -> {"staged_digest"}
      [] s = "staged" /\ t = "waiting_approval" -> {"staged_digest"}
      [] s = "waiting_approval" /\ t = "applying" -> {"approval_valid", "staged_digest"}
      [] t = "completed" -> {"receipt_present", "postcondition_verified"}
      [] OTHER -> {}

\* The flags the edge from s to t needs.
Required(s, t) ==
    CASE s = "received" /\ t = "specified" -> {"contract_complete"}
      [] s = "specified" /\ t = "authorized" -> {"policy_allowed"}
      [] s = "executing" /\ t = "verifying" -> {"artifact_digest"}
      [] s = "verifying" /\ t = "staged" -> {"verification_passed", "staged_digest"}
      [] s = "staged" /\ t = "waiting_approval" -> {"staged_digest"}
      [] s = "waiting_approval" /\ t = "applying" -> {"approval_valid", "staged_digest"}
      [] t = "completed" -> {"receipt_present", "postcondition_verified"}
      [] OTHER -> {}

\* transition(current, target, evidence) returns rather than raises.
Transition(s, t, e) ==
    /\ s \notin Terminal
    /\ t \in Normal[s]
    /\ Required(s, t) \subseteq e

----------------------------------------------------------------------------
(* The tables                                                               *)

Row == [state : States \cup {"none"}, version : Nat]
NoRow == [state |-> "none", version |-> 0]

Event == [process : Processes, sequence : Nat, previous : States \cup {"none"},
          state : States, evidence : SUBSET Flags]

Call == [step : {"idle", "versioned", "write", "reread"}, process : Processes, version : Nat,
         from : States, to : States, evidence : SUBSET Flags]

Exists(p) == rows[p].state # "none"

\* c is not inside create or advance.
Free(c) == call[c].step \in {"idle", "versioned"}

\* The version a caller holds is all that survives a call.
Return(c, step, v) ==
    call' = [call EXCEPT ![c].step = step, ![c].version = v, ![c].from = "received",
                         ![c].to = "received", ![c].evidence = {}]
Idle(c) == Return(c, "idle", 0)

Init ==
    /\ rows = [p \in Processes |-> NoRow]
    /\ events = {}
    /\ audits = [p \in Processes |-> 0]
    /\ call \in [Clients -> [step : {"idle"}, process : Processes, version : {0},
                             from : {"received"}, to : {"received"}, evidence : {{}}]]

----------------------------------------------------------------------------
(* The operations                                                           *)

\* Mutant: INSERT OR REPLACE.
CreateReplaces(c, p) ==
    /\ Free(c)
    /\ rows' = [rows EXCEPT ![p] = [state |-> "received", version |-> 0]]
    /\ events' = events \cup {[process |-> p, sequence |-> 0, previous |-> "none",
                               state |-> "received", evidence |-> {}]}
    /\ call' = [call EXCEPT ![c].step = "reread", ![c].process = p, ![c].version = 0]
    /\ UNCHANGED audits

\* Mutant: the row starts in a state the workflow does not know.
CreateUnknownState(c, p) ==
    /\ Free(c)
    /\ ~Exists(p)
    /\ rows' = [rows EXCEPT ![p] = [state |-> "open", version |-> 0]]
    /\ UNCHANGED <<events, audits, call>>

\* Row and first event in one transaction; PRIMARY KEY(process_id).
Create(c, p) ==
    /\ Free(c)
    /\ ~Exists(p)
    /\ rows' = [rows EXCEPT ![p] = [state |-> "received", version |-> 0]]
    /\ events' = events \cup {[process |-> p, sequence |-> 0, previous |-> "none",
                               state |-> "received", evidence |-> {}]}
    /\ call' = [call EXCEPT ![c].step = "reread", ![c].process = p, ![c].version = 0]
    /\ UNCHANGED audits

Get(c, p) ==
    /\ Free(c)
    /\ Exists(p)
    /\ call' = [call EXCEPT ![c].step = "versioned", ![c].process = p,
                            ![c].version = rows[p].version]
    /\ UNCHANGED <<rows, events, audits>>

\* The first half of advance: the row is read, the caller's version compared, the
\* transition checked.
AdvanceReads(c, t, e) ==
    LET p == call[c].process
    IN  /\ call[c].step = "versioned"
        /\ rows[p].version < MaxVersion
        /\ IF rows[p].version = call[c].version /\ Transition(rows[p].state, t, e)
           THEN call' = [call EXCEPT ![c].step = "write", ![c].from = rows[p].state,
                                     ![c].to = t, ![c].evidence = e]
           ELSE Idle(c)
        /\ UNCHANGED <<rows, events, audits>>

\* UPDATE ... WHERE process_id = ? AND version = ?, and UNIQUE(process_id, sequence).
Writable(p, v) ==
    /\ rows[p].version = v
    /\ \A d \in events : d.process = p => d.sequence # v + 1

Logged(c, v) ==
    [process |-> call[c].process, sequence |-> v + 1, previous |-> call[c].from,
     state |-> call[c].to, evidence |-> call[c].evidence]

\* Mutant: the version is read again for the update.
AdvanceWritesRereadsVersion(c) ==
    LET p == call[c].process
        v == rows[p].version
    IN  /\ call[c].step = "write"
        /\ rows' = [rows EXCEPT ![p] = [state |-> call[c].to, version |-> v + 1]]
        /\ events' = events \cup {Logged(c, v)}
        /\ Return(c, "reread", v + 1)
        /\ UNCHANGED audits

\* Mutant: the event is inserted in a transaction of its own, which may fail.
AdvanceWritesTwice(c) ==
    LET p == call[c].process
        v == call[c].version
    IN  /\ call[c].step = "write"
        /\ Writable(p, v)
        /\ rows' = [rows EXCEPT ![p] = [state |-> call[c].to, version |-> v + 1]]
        /\ events' \in {events, events \cup {Logged(c, v)}}
        /\ Return(c, "reread", v + 1)
        /\ UNCHANGED audits

\* The second half: the update and the event in one transaction, or neither.
AdvanceWrites(c) ==
    LET p == call[c].process
        v == call[c].version
    IN  /\ call[c].step = "write"
        /\ \/ /\ Writable(p, v)
              /\ rows' = [rows EXCEPT ![p] = [state |-> call[c].to, version |-> v + 1]]
              /\ events' = events \cup {Logged(c, v)}
              /\ Return(c, "reread", v + 1)
           \/ /\ ~Writable(p, v)
              /\ Idle(c)
              /\ UNCHANGED <<rows, events>>
        /\ UNCHANGED audits

\* create and advance end with a get of their own, which may already see the work of
\* another client.
Reread(c) ==
    /\ call[c].step = "reread"
    /\ call' = [call EXCEPT ![c].step = "versioned",
                            ![c].version = rows[call[c].process].version]
    /\ UNCHANGED <<rows, events, audits>>

AppendAuditEvent(c, p) ==
    /\ Free(c)
    /\ Exists(p)
    /\ audits[p] < MaxAudits
    /\ audits' = [audits EXCEPT ![p] = @ + 1]
    /\ UNCHANGED <<rows, events, call>>

\* A client dies, or its transaction is rolled back.
Abort(c) ==
    /\ call[c].step # "idle"
    /\ Idle(c)
    /\ UNCHANGED <<rows, events, audits>>

Next ==
    \E c \in Clients :
        \/ \E p \in Processes : Create(c, p) \/ Get(c, p) \/ AppendAuditEvent(c, p)
        \/ \E t \in States, e \in Evidence : AdvanceReads(c, t, e)
        \/ AdvanceWrites(c)
        \/ Reread(c)
        \/ Abort(c)

Spec == Init /\ [][Next]_vars

----------------------------------------------------------------------------
(* Properties                                                               *)

\* The tables hold the values their schema and the workflow's enumeration allow.
TypeOK ==
    /\ rows \in [Processes -> Row]
    /\ events \subseteq Event
    /\ audits \in [Processes -> Nat]
    /\ call \in [Clients -> Call]

\* The event log of a process is one gapless chain that ends at its row: every
\* version has exactly one event, each event starts where the one before it ended,
\* although clients check a transition in one transaction and write it in another
\* (advance's UPDATE ... WHERE version = ?).
HistoryIsChain ==
    \A p \in Processes : Exists(p) =>
        /\ \A n \in 0..rows[p].version :
            \E d \in events : d.process = p /\ d.sequence = n
        /\ \A d, e \in events :
            d.process = p /\ e.process = p =>
                /\ d.sequence <= rows[p].version
                /\ d.sequence = e.sequence => d = e
                /\ e.sequence = d.sequence + 1 => e.previous = d.state
                /\ d.sequence = rows[p].version => d.state = rows[p].state

\* What was applied was verified: before an "applying" event there is a "staged" event
\* with verification_passed, and the process did not execute again in between, however
\* often it went back before (VERIFYING -> STAGED's requirement, and the edges back).
AppliedWasVerified ==
    \A e \in events : e.state = "applying" =>
        /\ "approval_valid" \in e.evidence
        /\ \E d \in events :
            /\ d.process = e.process /\ d.sequence < e.sequence
            /\ d.state = "staged" /\ "verification_passed" \in d.evidence
            /\ \A m \in events :
                m.process = e.process /\ d.sequence < m.sequence /\ m.sequence < e.sequence
                    => m.state # "executing"

\* A process executes only after a policy decision allowed it.
ExecutedWasAllowed ==
    \A e \in events : e.state = "executing" =>
        \E d \in events :
            /\ d.process = e.process /\ d.sequence < e.sequence
            /\ d.state = "authorized" /\ "policy_allowed" \in d.evidence

\* A decided process stays decided, and no step skips a version or rewrites the log.
StoreOnlyMovesForward ==
    [][/\ events \subseteq events'
       /\ \A p \in Processes : Exists(p) =>
            /\ rows'[p] # rows[p] => rows'[p].version = rows[p].version + 1
            /\ rows[p].state \in Terminal => rows'[p] = rows[p]]_vars

\* The state column is all an observer of the workflow sees.
Workflow == INSTANCE Workflow WITH
    state <- [p \in Processes |-> rows[p].state]

\* Each process moves through the workflow graph (module Workflow), as if advance
\* were one atomic step.
Implements == Workflow!WorkflowSpec
=============================================================================
