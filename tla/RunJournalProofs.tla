--------------------------- MODULE RunJournalProofs ---------------------------
(***************************************************************************)
(* The observer journal of any commands, runs and operations: what of the  *)
(* calls is in it, how often a call is made, and what is never written     *)
(* once an outcome is uncertain.  NextCursor is fresh because the journal  *)
(* always has an event with the greatest cursor.                           *)
(***************************************************************************)
EXTENDS RunJournal, FiniteSetTheorems, TLAPS

----------------------------------------------------------------------------
(* The journal: types, cursors, intents and the calls they announce        *)

\* The table of events has a last one, and no cursor twice.
EventsOK ==
    /\ events \subseteq Event
    /\ IsFiniteSet(events)
    /\ events # {} => \E m \in events : \A e \in events : e.cursor <= m.cursor
    /\ \A d, e \in events : d.cursor = e.cursor => d = e
    /\ \A e \in events : \E s \in events : s.type = "agent_started" /\ s.run = e.run

\* What a command is about to do fits what it has done.
StepOK(k) ==
    /\ k \in Client
    /\ IF k.step = "idle" THEN k.run = NoRun /\ ~k.fresh ELSE k.run \in Runs
    /\ k.step \in {"ready", "write", "invocation_finished"} => k.stack = <<>>
    /\ k.step \in {"dispatch", "running"} => k.stack # <<>>
    /\ k.step \in {"write", "insert"} => k.type # "none"
    /\ k.step = "write" => k.type # "terminal"
    /\ k.step = "insert" => (k.type = "terminal" <=> k.stack # <<>>)
    /\ k.fresh => k.step \in {"write", "insert"} /\ k.type = "agent_started"
    /\ k.step = "gate" => k.label \in Labels

\* A call on the stack has its intent in the journal, has been made once its dispatch is
\* over, and is older than the terminal that c is about to store.
CallOK(k, i) ==
    /\ \E e \in Intents(events) :
           /\ e.run = k.run /\ e.label = k.stack[i].label
           /\ e.inv = k.stack[i].inv /\ e.cursor = e.inv
    /\ ~(k.step = "dispatch" /\ i = 1) =>
           \E x \in called : x.run = k.run /\ x.label = k.stack[i].label /\ x.inv = k.stack[i].inv
    /\ k.step = "insert" => k.stack[i].inv < k.next

ClientOK(k) ==
    /\ StepOK(k)
    /\ \A i \in DOMAIN k.stack : CallOK(k, i)
    /\ k.step = "gate" => <<k.run, k.label, k.seq>> \in artifacts
    /\ k.step # "idle" /\ ~k.fresh =>
           \E s \in events : s.type = "agent_started" /\ s.run = k.run

\* An intent whose id the run fixes is in the journal once.
OnceOK ==
    \A d, e \in Intents(events) :
        d.run = e.run /\ d.label = e.label /\ d.label \in Labels /\ Op(d.label).once => d = e

JInv ==
    /\ EventsOK
    /\ DOMAIN client = Clients /\ \A c \in Clients : ClientOK(client[c])
    /\ called \subseteq [run : Runs, label : Labels, inv : Nat]
    /\ crowded \subseteq Runs \cup {NoRun} /\ faults \in 0..MaxFaults
    /\ EffectsAreJournaled /\ OnceOK

----------------------------------------------------------------------------
(* The runs that one command holds                                         *)

\* Two commands with one run, or two that start one, crowd it.
SoleOK ==
    \A c, d \in Clients : c # d =>
        /\ client[c].run = client[d].run /\ client[c].run \in Runs => client[c].run \in crowded
        /\ client[c].fresh /\ client[d].fresh => NoRun \in crowded

\* What c is about to store was true of the run when c looked, and is true still.
SettledOK ==
    \A c \in Clients :
        client[c].step \in {"write", "insert"} /\ client[c].type # "terminal"
            /\ client[c].run \notin crowded => Settled(client[c].run)

----------------------------------------------------------------------------
(* The one attempt, while no run is crowded                                *)

Busy(c) == client[c].step # "idle"
WorkerStarted == \E e \in events : e.label = "worker"

AttemptOK ==
    /\ \A c, d \in Clients : Busy(c) /\ Busy(d) => c = d
    /\ \A d, e \in events : d.run = e.run
    /\ \A c \in Clients : client[c].fresh => events = {}
    /\ \A c \in Clients : Busy(c) /\ WorkerStarted => "worker" \in client[c].used
    /\ \A c \in Clients : client[c].step = "gate" /\ client[c].label = "worker" =>
           ~WorkerStarted /\ "worker" \in client[c].used
    /\ \A d, e \in Intents(events) : d.label = "worker" /\ e.label = "worker" => d = e

HInv == SoleOK /\ SettledOK /\ (crowded = {} => AttemptOK)

----------------------------------------------------------------------------
(* Operations, cursors and stacks                                          *)

\* What a label stands for, and how a call of it may end.
LEMMA OpOfLabel ==
    \A l \in Labels : Op(l) \in Operations /\ Op(l).label = l
  BY DEF Labels, Op

\* A call that raised has a terminal status.
LEMMA FailureIsStatus ==
    \A o \in Operations : o.failure \in Statuses /\ o.failure # "none"
  BY DEF Operations, Statuses, Propose, JournaledModelChannel, LocalModelPreflight,
         SnapshotPinDecision, ExecutionAuthorization, ControlledStep, SnapshotSource,
         StageOperation, VerifierCall, SandboxRun, SandboxLifecycle, MockPublication,
         PublicationDispatch

\* MAX(cursor) + 1 is greater than every cursor of the table.
LEMMA NextCursorFresh ==
    ASSUME EventsOK
    PROVE  NextCursor \in Nat /\ \A e \in events : e.cursor < NextCursor
  <1>1. CASE events = {}
    BY <1>1 DEF NextCursor
  <1>2. CASE events # {}
    <2>. DEFINE S == {e.cursor : e \in events}
    <2>1. PICK m \in events : \A e \in events : e.cursor <= m.cursor
      BY <1>2 DEF EventsOK
    <2>2. S \subseteq Nat
      BY DEF EventsOK, Event
    <2>3. m.cursor \in S /\ \A y \in S : m.cursor >= y
      BY <2>1, <2>2
    <2>4. Max(S) \in S /\ \A y \in S : Max(S) >= y
      <3>. HIDE DEF S
      <3>. QED
        BY <2>3 DEF Max
    <2>5. NextCursor = Max(S) + 1
      BY <1>2 DEF NextCursor
    <2>6. \A e \in events : e.cursor \in S
      OBVIOUS
    <2>. HIDE DEF S
    <2>7. \A e \in events : e.cursor \in Nat /\ Max(S) >= e.cursor
      BY <2>2, <2>4, <2>6
    <2>8. Max(S) \in Nat
      BY <2>2, <2>4
    <2>. QED
      BY <2>5, <2>7, <2>8
  <1>. QED
    BY <1>1, <1>2

\* What is counted in the journal is a number.
LEMMA Counted ==
    ASSUME EventsOK
    PROVE  /\ NextCheckpoint \in Nat
           /\ \A r : Cardinality(Of(r)) \in Nat
  <1>1. \A S : S \subseteq events => Cardinality(S) \in Nat
    BY FS_Subset, FS_CardinalityType DEF EventsOK
  <1>. QED
    BY <1>1 DEF NextCheckpoint, Intents, Of

\* An event with a new cursor, of a run that was started.
LEMMA NewEvent ==
    ASSUME EventsOK, NEW e \in Event, events' = events \cup {e},
           \A d \in events : d.cursor # e.cursor,
           e.type = "agent_started" \/ \E s \in events : s.type = "agent_started" /\ s.run = e.run
    PROVE  EventsOK'
  <1>1. events' \subseteq Event
    BY DEF EventsOK
  <1>2. IsFiniteSet(events')
    BY FS_AddElement DEF EventsOK
  <1>3. \E m \in events' : \A d \in events' : d.cursor <= m.cursor
    <2>1. \A d \in events' : d.cursor \in Nat
      BY <1>1 DEF Event
    <2>2. CASE events = {}
      BY <2>1, <2>2
    <2>3. CASE events # {}
      <3>1. PICK m \in events : \A d \in events : d.cursor <= m.cursor
        BY <2>3 DEF EventsOK
      <3>2. CASE e.cursor <= m.cursor
        BY <3>1, <3>2
      <3>3. CASE m.cursor <= e.cursor
        <4>1. \A d \in events' : d.cursor <= e.cursor
          BY <2>1, <3>1, <3>3
        <4>. QED
          BY <4>1
      <3>4. m.cursor \in Nat /\ e.cursor \in Nat
        BY <2>1
      <3>. QED
        BY <3>2, <3>3, <3>4
    <2>. QED
      BY <2>2, <2>3
  <1>4. \A d, f \in events' : d.cursor = f.cursor => d = f
    BY DEF EventsOK
  <1>5. \A d \in events' : \E s \in events' : s.type = "agent_started" /\ s.run = d.run
    BY DEF EventsOK
  <1>. QED
    BY <1>1, <1>2, <1>3, <1>4, <1>5 DEF EventsOK

\* The calls of a command, one inside the other.
Frame == [label : Labels, inv : Nat, status : Statuses]
WithStatus(s, v) == [s EXCEPT ![1].status = v]
Push(f, s) == <<f>> \o s

\* Setting the status of the innermost call keeps labels and intents.
LEMMA StatusSet ==
    ASSUME NEW s \in Seq(Frame), s # <<>>, NEW v \in Statuses
    PROVE  /\ WithStatus(s, v) \in Seq(Frame) /\ WithStatus(s, v) # <<>>
           /\ DOMAIN WithStatus(s, v) = DOMAIN s
           /\ \A i \in DOMAIN s : /\ WithStatus(s, v)[i].label = s[i].label
                                  /\ WithStatus(s, v)[i].inv = s[i].inv
           /\ WithStatus(s, v)[1].status = v
  <1>1. Len(s) \in Nat /\ Len(s) > 0 /\ DOMAIN s = 1..Len(s) /\ \A i \in DOMAIN s : s[i] \in Frame
    OBVIOUS
  <1>2. WithStatus(s, v) = [s EXCEPT ![1] = [s[1] EXCEPT !.status = v]]
    BY DEF WithStatus
  <1>3. s[1] \in Frame
    BY <1>1
  <1>. DEFINE f == [s[1] EXCEPT !.status = v]
  <1>4. f \in Frame /\ f.label = s[1].label /\ f.inv = s[1].inv /\ f.status = v
    BY <1>3 DEF Frame
  <1>. HIDE DEF f
  <1>5. WithStatus(s, v) = [s EXCEPT ![1] = f]
    BY <1>2 DEF f
  <1>. HIDE DEF Frame
  <1>6. [s EXCEPT ![1] = f] \in Seq(Frame)
    BY <1>1, <1>4
  <1>. QED
    BY <1>1, <1>4, <1>5, <1>6

\* A call inside the others.
LEMMA Pushed ==
    ASSUME NEW s \in Seq(Frame), NEW f \in Frame
    PROVE  /\ Push(f, s) \in Seq(Frame) /\ Push(f, s) # <<>>
           /\ DOMAIN Push(f, s) = 1..Len(s) + 1 /\ Push(f, s)[1] = f
           /\ \A i \in DOMAIN Push(f, s) : i # 1 => i - 1 \in DOMAIN s /\ Push(f, s)[i] = s[i - 1]
  BY DEF Push

\* The innermost call, and those around it.
LEMMA Popped ==
    ASSUME NEW s \in Seq(Frame), s # <<>>
    PROVE  /\ Tail(s) \in Seq(Frame) /\ Head(s) = s[1] /\ Head(s) \in Frame
           /\ \A i \in DOMAIN Tail(s) : i + 1 \in DOMAIN s /\ Tail(s)[i] = s[i + 1]
  OBVIOUS

----------------------------------------------------------------------------
(* One command's step                                                      *)

\* What a command did stays done when the journal grows.
LEMMA OneCommand ==
    ASSUME JInv, NEW c \in Clients,
           DOMAIN client' = Clients, \A d \in Clients \ {c} : client'[d] = client[d],
           ClientOK(client[c])',
           events \subseteq events', called \subseteq called', artifacts \subseteq artifacts'
    PROVE  \A d \in Clients : ClientOK(client[d])'
  <1>1. ASSUME NEW d \in Clients \ {c}
        PROVE  ClientOK(client[d])'
    <2>1. client'[d] = client[d] /\ ClientOK(client[d])
      BY DEF JInv
    <2>2. StepOK(client[d])'
      BY <2>1 DEF ClientOK, StepOK
    <2>3. ASSUME NEW i \in DOMAIN client'[d].stack
          PROVE  CallOK(client[d], i)'
      BY <2>1, <2>3 DEF ClientOK, CallOK, Intents
    <2>. QED
      BY <2>1, <2>2, <2>3 DEF ClientOK
  <1>. QED
    BY <1>1

\* A step that writes nothing to the journal and makes no call.
LEMMA QuietStep ==
    ASSUME JInv, NEW c \in Clients,
           DOMAIN client' = Clients, \A d \in Clients \ {c} : client'[d] = client[d],
           ClientOK(client[c])',
           UNCHANGED <<events, called>>, artifacts \subseteq artifacts',
           crowded' \subseteq Runs \cup {NoRun}, faults' \in 0..MaxFaults
    PROVE  JInv'
  <1>1. \A d \in Clients : ClientOK(client[d])'
    BY OneCommand
  <1>2. EventsOK'
    BY DEF JInv, EventsOK
  <1>3. EffectsAreJournaled' /\ OnceOK'
    BY DEF JInv, EffectsAreJournaled, OnceOK, Intents
  <1>. QED
    BY <1>1, <1>2, <1>3 DEF JInv

\* Calls of the runs counted as crowded.
LEMMA CrowdTyped ==
    ASSUME JInv, Crowd
    PROVE  crowded' \subseteq Runs \cup {NoRun}
  BY DEF JInv, Crowd

\* A command that is not running.
LEMMA IdleOK ==
    /\ IdleClient \in Client /\ IdleClient.step = "idle" /\ IdleClient.run = NoRun
    /\ IdleClient.fresh = FALSE /\ IdleClient.stack = <<>> /\ IdleClient.label = "none"
    /\ IdleClient.type = "none"
  BY DEF IdleClient, Client, Statuses

\* A command that ends, or dies.
LEMMA EndStep ==
    ASSUME JInv, NEW c \in Clients, client' = [client EXCEPT ![c] = IdleClient],
           UNCHANGED <<events, called, artifacts>>,
           crowded' \subseteq Runs \cup {NoRun}, faults' \in 0..MaxFaults
    PROVE  JInv'
  <1>1. /\ DOMAIN client' = Clients /\ \A d \in Clients \ {c} : client'[d] = client[d]
        /\ client'[c] = IdleClient
    BY DEF JInv
  <1>2. ClientOK(client[c])'
    BY <1>1, IdleOK DEF ClientOK, StepOK, CallOK
  <1>. QED
    BY <1>1, <1>2, QuietStep

\* The calls of a command whose stack has no others than before.
LEMMA KeptCalls ==
    ASSUME NEW c \in Clients, ClientOK(client[c]), client[c].step # "dispatch",
           events \subseteq events', called \subseteq called', client'[c].run = client[c].run,
           \A i \in DOMAIN client'[c].stack : \E j \in DOMAIN client[c].stack :
               /\ client'[c].stack[i].label = client[c].stack[j].label
               /\ client'[c].stack[i].inv = client[c].stack[j].inv
               /\ client'[c].step = "insert" => client[c].stack[j].inv < client'[c].next
    PROVE  \A i \in DOMAIN client'[c].stack : CallOK(client[c], i)'
  <1>. SUFFICES ASSUME NEW i \in DOMAIN client'[c].stack
                PROVE  CallOK(client[c], i)'
    OBVIOUS
  <1>1. PICK j \in DOMAIN client[c].stack :
            /\ client'[c].stack[i].label = client[c].stack[j].label
            /\ client'[c].stack[i].inv = client[c].stack[j].inv
            /\ client'[c].step = "insert" => client[c].stack[j].inv < client'[c].next
    OBVIOUS
  <1>2. CallOK(client[c], j)
    BY DEF ClientOK
  <1>. QED
    BY <1>1, <1>2 DEF CallOK, Intents

\* Storing the start of an invocation is what a command begins with.
LEMMA OpenStep ==
    ASSUME JInv, NEW c \in Clients, NEW r \in Runs, OpenNew(c, r) \/ ResumeExisting(c, r)
    PROVE  JInv'
  <1>1. /\ UNCHANGED <<events, called, artifacts, faults>> /\ Crowd
        /\ DOMAIN client = Clients /\ faults \in 0..MaxFaults
    BY DEF OpenNew, ResumeExisting, JInv
  <1>2. crowded' \subseteq Runs \cup {NoRun}
    BY <1>1, CrowdTyped
  <1>3. ASSUME NEW rec \in Client, Write(c, "agent_started", rec),
               rec.run = r, rec.stack = <<>>,
               rec.fresh \/ \E s \in events : s.type = "agent_started" /\ s.run = r
        PROVE  JInv'
    <2>. DEFINE x == [rec EXCEPT !.step = "write", !.type = "agent_started"]
    <2>1. /\ DOMAIN client' = Clients /\ \A d \in Clients \ {c} : client'[d] = client[d]
          /\ client'[c] = x
      BY <1>1, <1>3 DEF Write
    <2>2. x \in Client /\ x.step = "write" /\ x.type = "agent_started" /\ x.run = r
          /\ x.stack = <<>> /\ x.fresh = rec.fresh
      BY <1>3 DEF Client
    <2>. HIDE DEF x
    <2>3. ClientOK(client[c])'
      BY <1>1, <1>3, <2>1, <2>2 DEF ClientOK, StepOK, CallOK
    <2>. QED
      BY <1>1, <1>2, <2>1, <2>3, QuietStep
  <1>4. CASE OpenNew(c, r)
    <2>. DEFINE rec == [IdleClient EXCEPT !.run = r, !.fresh = TRUE]
    <2>1. rec \in Client /\ rec.run = r /\ rec.stack = <<>> /\ rec.fresh
      BY IdleOK DEF Client
    <2>. QED
      BY <1>3, <1>4, <2>1 DEF OpenNew
  <1>5. CASE ResumeExisting(c, r)
    <2>. DEFINE rec == [IdleClient EXCEPT !.run = r, !.seq = Cardinality(Of(r)),
                                          !.used = Restored(r)]
    <2>1. Cardinality(Of(r)) \in Nat /\ Restored(r) \in SUBSET Labels
      BY Counted DEF JInv, Restored
    <2>2. rec \in Client /\ rec.run = r /\ rec.stack = <<>>
      BY <2>1, IdleOK DEF Client
    <2>3. \E s \in events : s.type = "agent_started" /\ s.run = r
      BY <1>5 DEF ResumeExisting, Resumable, Of, JInv, EventsOK
    <2>. QED
      BY <1>3, <1>5, <2>2, <2>3 DEF ResumeExisting
  <1>. QED
    BY <1>4, <1>5

\* An append reads the cursor.
LEMMA ReadStep ==
    ASSUME JInv, NEW c \in Clients, ReadCursor(c)
    PROVE  JInv'
  <1>. DEFINE k == client[c]
              x == client'[c]
  <1>1. /\ UNCHANGED <<events, called, artifacts, faults, crowded>> /\ k.step = "write"
        /\ DOMAIN client = Clients /\ ClientOK(k) /\ k \in Client
        /\ client' = [client EXCEPT ![c].step = "insert", ![c].next = NextCursor]
    BY DEF ReadCursor, JInv, ClientOK, StepOK
  <1>2. NextCursor \in Nat
    BY NextCursorFresh DEF JInv
  <1>3. DOMAIN client' = Clients /\ \A d \in Clients \ {c} : client'[d] = client[d]
    BY <1>1
  <1>4. x = [k EXCEPT !.step = "insert", !.next = NextCursor]
    BY <1>1
  <1>5. /\ x \in Client /\ x.step = "insert" /\ x.run = k.run /\ x.type = k.type
        /\ x.stack = k.stack /\ x.fresh = k.fresh
    BY <1>1, <1>2, <1>4 DEF Client
  <1>6. ClientOK(client[c])'
    BY <1>1, <1>5 DEF ClientOK, StepOK, CallOK
  <1>. QED
    BY <1>1, <1>3, <1>6, QuietStep DEF JInv

\* A gate sets its flag and stores its artifact.
LEMMA GateStep ==
    ASSUME JInv, NEW c \in Clients, NEW l \in Labels, Gate(c, l)
    PROVE  JInv'
  <1>. DEFINE k == client[c]
              x == client'[c]
  <1>1. /\ UNCHANGED <<events, called, faults, crowded>> /\ k.step \in {"ready", "running"}
        /\ DOMAIN client = Clients /\ ClientOK(k) /\ k \in Client
        /\ artifacts' = artifacts \cup {<<k.run, l, k.seq>>}
    BY DEF Gate, MayGate, JInv, ClientOK, StepOK
  <1>2. client' = [client EXCEPT ![c].step = "gate", ![c].label = l, ![c].next = NextCheckpoint,
                                 ![c].work = IF client[c].stack = <<>> THEN @ + 1 ELSE @,
                                 ![c].used = IF Op(l).single THEN @ \cup {l} ELSE @]
    BY DEF Gate
  <1>3. DOMAIN client' = Clients /\ \A d \in Clients \ {c} : client'[d] = client[d]
    BY <1>1, <1>2
  <1>4. PICK w \in Nat, u \in SUBSET Labels :
            x = [k EXCEPT !.step = "gate", !.label = l, !.next = NextCheckpoint, !.work = w,
                          !.used = u]
    <2>1. k.work \in Nat /\ k.used \in SUBSET Labels
      BY <1>1 DEF Client
    <2>. DEFINE W == IF client[c].stack = <<>> THEN k.work + 1 ELSE k.work
                U == IF Op(l).single THEN k.used \cup {l} ELSE k.used
    <2>2. W \in Nat /\ U \in SUBSET Labels
      BY <2>1
    <2>3. x = [k EXCEPT !.step = "gate", !.label = l, !.next = NextCheckpoint, !.work = W,
                        !.used = U]
      BY <1>1, <1>2
    <2>. QED
      BY <2>2, <2>3
  <1>5. NextCheckpoint \in Nat
    BY Counted DEF JInv
  <1>6. /\ x \in Client /\ x.step = "gate" /\ x.run = k.run /\ x.type = k.type
        /\ x.stack = k.stack /\ x.fresh = k.fresh /\ x.label = l /\ x.seq = k.seq
    <2>. DEFINE y == [k EXCEPT !.step = "gate", !.label = l, !.next = NextCheckpoint, !.work = w,
                               !.used = u]
    <2>1. k \in Client
      BY <1>1
    <2>. HIDE DEF k
    <2>2. y \in Client
      BY <1>5, <2>1 DEF Client
    <2>3. /\ y.step = "gate" /\ y.run = k.run /\ y.type = k.type
          /\ y.stack = k.stack /\ y.fresh = k.fresh /\ y.label = l /\ y.seq = k.seq
      BY <2>1 DEF Client
    <2>4. x = y
      BY <1>4
    <2>. HIDE DEF y, x
    <2>. QED
      BY <2>2, <2>3, <2>4
  <1>7. ~k.fresh /\ k.run \in Runs
    BY <1>1 DEF ClientOK, StepOK
  <1>8. ClientOK(client[c])'
    <2>1. \A i \in DOMAIN x.stack : CallOK(client[c], i)'
      BY <1>1, <1>6, KeptCalls
    <2>2. StepOK(client[c])'
      BY <1>1, <1>6, <1>7 DEF ClientOK, StepOK
    <2>. QED
      BY <1>1, <1>6, <1>7, <2>1, <2>2 DEF ClientOK
  <1>. QED
    BY <1>1, <1>3, <1>8, QuietStep DEF JInv

\* The state after a gate that refuses, and after an append that fails.
LEMMA RefusedShape ==
    ASSUME NEW c \in Clients, ClientOK(client[c]), client[c].step = "gate"
    PROVE  LET k == client[c]
               x == Refused(c, [k EXCEPT !.next = 0])
           IN /\ x \in Client /\ x.run = k.run /\ x.fresh = k.fresh /\ x.used = k.used
              /\ \/ x.step = "ready" /\ x.stack = <<>>
                 \/ x.step = "running" /\ x.stack # <<>>
              /\ \A i \in DOMAIN x.stack :
                     /\ i \in DOMAIN k.stack
                     /\ x.stack[i].label = k.stack[i].label /\ x.stack[i].inv = k.stack[i].inv
  <1>. DEFINE k == client[c]
              x == Refused(c, [k EXCEPT !.next = 0])
  <1>1. k \in Client /\ k.stack \in Seq(Frame)
    BY DEF ClientOK, StepOK, Client, Frame
  <1>. HIDE DEF k
  <1>2. [k EXCEPT !.next = 0] \in Client /\ [k EXCEPT !.next = 0].stack = k.stack
    BY <1>1 DEF Client
  <1>3. CASE k.stack = <<>>
    <2>1. x = [[k EXCEPT !.next = 0] EXCEPT !.step = "ready", !.status = "failed", !.label = "none"]
      BY <1>2, <1>3 DEF Refused
    <2>2. x = [k EXCEPT !.next = 0, !.step = "ready", !.status = "failed", !.label = "none"]
      BY <1>1, <2>1 DEF Client
    <2>. HIDE DEF x
    <2>3. x \in Client
      BY <1>1, <2>2 DEF Client
    <2>4. /\ x.run = k.run /\ x.fresh = k.fresh /\ x.used = k.used
          /\ x.step = "ready" /\ x.stack = k.stack
      BY <1>1, <2>2 DEF Client
    <2>. HIDE DEF x
    <2>. QED
      BY <1>3, <2>3, <2>4 DEF k, x
  <1>4. CASE k.stack # <<>>
    <2>. DEFINE s == WithStatus(k.stack, "failed")
    <2>1. /\ s \in Seq(Frame) /\ s # <<>> /\ DOMAIN s = DOMAIN k.stack
          /\ \A i \in DOMAIN k.stack : s[i].label = k.stack[i].label /\ s[i].inv = k.stack[i].inv
      BY <1>1, <1>4, StatusSet DEF Statuses
    <2>2. x = [[k EXCEPT !.next = 0] EXCEPT !.step = "running", !.stack[1].status = "failed",
                                            !.label = "none"]
      BY <1>2, <1>4 DEF Refused
    <2>3. x = [k EXCEPT !.next = 0, !.step = "running", !.stack = s, !.label = "none"]
      BY <1>1, <2>2 DEF WithStatus, Client
    <2>. HIDE DEF s
    <2>. HIDE DEF x
    <2>4. x \in Client
      BY <1>1, <2>1, <2>3 DEF Client, Frame
    <2>5. x.run = k.run /\ x.fresh = k.fresh /\ x.used = k.used /\ x.step = "running" /\ x.stack = s
      BY <1>1, <2>3 DEF Client
    <2>. QED
      BY <2>1, <2>4, <2>5 DEF k, x
  <1>. QED
    BY <1>3, <1>4

\* An append that fails ends a command, or leaves the outcome of its call unknown.
LEMMA NotStoredShape ==
    ASSUME NEW c \in Clients, ClientOK(client[c]), client[c].step = "insert",
           client[c].type = "terminal"
    PROVE  LET k == client[c]
               x == NotStored(c)
           IN /\ x \in Client /\ x.run = k.run /\ x.fresh = k.fresh /\ x.used = k.used
              /\ \/ x.step = "ready" /\ x.stack = <<>>
                 \/ x.step = "running" /\ x.stack # <<>>
              /\ \A i \in DOMAIN x.stack :
                     /\ i + 1 \in DOMAIN k.stack
                     /\ x.stack[i].label = k.stack[i + 1].label
                     /\ x.stack[i].inv = k.stack[i + 1].inv
  <1>. DEFINE k == client[c]
              x == NotStored(c)
              up == Tail(k.stack)
  <1>1. k \in Client /\ k.stack \in Seq(Frame) /\ k.stack # <<>> /\ k.type = "terminal"
    BY DEF ClientOK, StepOK, Client, Frame
  <1>2. /\ up \in Seq(Frame)
        /\ \A i \in DOMAIN up : i + 1 \in DOMAIN k.stack /\ up[i] = k.stack[i + 1]
    BY <1>1, Popped
  <1>. HIDE DEF k
  <1>3. [k EXCEPT !.type = "none", !.next = 0].stack = k.stack
    BY <1>1 DEF Client
  <1>4. CASE up = <<>>
    <2>1. x = [[k EXCEPT !.type = "none", !.next = 0]
                  EXCEPT !.stack = <<>>, !.step = "ready", !.status = "failed"]
      BY <1>1, <1>3, <1>4 DEF NotStored, k
    <2>2. x = [k EXCEPT !.type = "none", !.next = 0, !.stack = <<>>, !.step = "ready",
                        !.status = "failed"]
      BY <1>1, <2>1 DEF Client
    <2>. HIDE DEF x
    <2>3. x \in Client
      <3>1. <<>> \in Seq(Frame)
        OBVIOUS
      <3>. QED
        BY <1>1, <2>2, <3>1 DEF Client, Frame
    <2>4. /\ x.run = k.run /\ x.fresh = k.fresh /\ x.used = k.used
          /\ x.step = "ready" /\ x.stack = <<>>
      BY <1>1, <2>2 DEF Client
    <2>. QED
      BY <2>3, <2>4 DEF k, x
  <1>5. CASE up # <<>>
    <2>. DEFINE s == WithStatus(up, "unknown")
    <2>1. /\ s \in Seq(Frame) /\ s # <<>> /\ DOMAIN s = DOMAIN up
          /\ \A i \in DOMAIN up : s[i].label = up[i].label /\ s[i].inv = up[i].inv
      BY <1>2, <1>5, StatusSet DEF Statuses
    <2>2. x = [[k EXCEPT !.type = "none", !.next = 0]
                  EXCEPT !.stack = [up EXCEPT ![1].status = "unknown"], !.step = "running"]
      BY <1>1, <1>3, <1>5 DEF NotStored, k
    <2>3. x = [k EXCEPT !.type = "none", !.next = 0, !.stack = s, !.step = "running"]
      BY <1>1, <2>2 DEF WithStatus, Client
    <2>. HIDE DEF s, x
    <2>4. x \in Client
      BY <1>1, <2>1, <2>3 DEF Client, Frame
    <2>5. x.run = k.run /\ x.fresh = k.fresh /\ x.used = k.used /\ x.step = "running" /\ x.stack = s
      BY <1>1, <2>3 DEF Client
    <2>. HIDE DEF up
    <2>. QED
      BY <1>2, <2>1, <2>4, <2>5 DEF k, x
  <1>. QED
    BY <1>4, <1>5

\* An append or a gate that fails, in the state of the command.
LEMMA FailedStep ==
    ASSUME JInv, NEW c \in Clients,
           \/ client[c].step = "insert" /\ client' = [client EXCEPT ![c] = NotStored(c)]
           \/ client[c].step = "gate"
              /\ client' = [client EXCEPT ![c] = Refused(c, [client[c] EXCEPT !.next = 0])],
           UNCHANGED <<events, called, artifacts>>,
           crowded' \subseteq Runs \cup {NoRun}, faults' \in 0..MaxFaults
    PROVE  JInv'
  <1>. DEFINE k == client[c]
              x == client'[c]
  <1>1. DOMAIN client = Clients /\ ClientOK(k)
    BY DEF JInv
  <1>2. DOMAIN client' = Clients /\ \A d \in Clients \ {c} : client'[d] = client[d]
    BY <1>1
  <1>3. ASSUME x \in Client, x.run = k.run, x.fresh = k.fresh, ~k.fresh, k.run \in Runs,
               k.step \in {"insert", "gate"},
               \/ x.step = "ready" /\ x.stack = <<>>
               \/ x.step = "running" /\ x.stack # <<>>,
               \A i \in DOMAIN x.stack : \E j \in DOMAIN k.stack :
                   x.stack[i].label = k.stack[j].label /\ x.stack[i].inv = k.stack[j].inv
        PROVE  JInv'
    <2>1. \A i \in DOMAIN x.stack : CallOK(client[c], i)'
      BY <1>1, <1>3, KeptCalls
    <2>2. StepOK(client[c])'
      BY <1>3 DEF StepOK
    <2>3. ClientOK(client[c])'
      BY <1>1, <1>3, <2>1, <2>2 DEF ClientOK
    <2>. QED
      BY <1>2, <2>3, QuietStep
  <1>4. CASE client[c].step = "gate"
    <2>1. x = Refused(c, [client[c] EXCEPT !.next = 0])
      BY <1>1, <1>4
    <2>2. ~k.fresh /\ k.run \in Runs
      BY <1>1, <1>4 DEF ClientOK, StepOK
    <2>. QED
      BY <1>1, <1>3, <1>4, <2>1, <2>2, RefusedShape
  <1>5. CASE client[c].step = "insert" /\ client[c].type = "terminal"
    <2>1. x = NotStored(c)
      BY <1>1, <1>5
    <2>2. ~k.fresh /\ k.run \in Runs
      BY <1>1, <1>5 DEF ClientOK, StepOK
    <2>. QED
      BY <1>1, <1>3, <1>5, <2>1, <2>2, NotStoredShape
  <1>6. CASE client[c].step = "insert" /\ client[c].type # "terminal"
    BY <1>6, EndStep DEF NotStored
  <1>. QED
    BY <1>4, <1>5, <1>6

\* A call comes to an end.
LEMMA ReturnStep ==
    ASSUME JInv, NEW c \in Clients, Return(c)
    PROVE  JInv'
  <1>. DEFINE k == client[c]
              x == client'[c]
  <1>1. /\ DOMAIN client = Clients /\ ClientOK(k) /\ k \in Client /\ k.step = "running"
        /\ k.stack \in Seq(Frame) /\ k.stack # <<>>
        /\ UNCHANGED <<events, artifacts, called, crowded, faults>>
    BY DEF JInv, Return, ClientOK, StepOK, Client, Frame
  <1>2. PICK v \in Outcomes(c) :
            client' = [client EXCEPT ![c].step = "insert", ![c].type = "terminal",
                                     ![c].next = NextCursor, ![c].stack[1].status = v]
    BY DEF Return
  <1>3. v \in Statuses
    <2>1. Head(k.stack) \in Frame
      BY <1>1, Popped
    <2>2. Op(Head(k.stack).label).failure \in Statuses
      BY <2>1, OpOfLabel, FailureIsStatus DEF Frame
    <2>. QED
      BY <2>2 DEF Outcomes, Statuses
  <1>. DEFINE s == WithStatus(k.stack, v)
  <1>4. /\ s \in Seq(Frame) /\ s # <<>> /\ DOMAIN s = DOMAIN k.stack
        /\ \A i \in DOMAIN k.stack : s[i].label = k.stack[i].label /\ s[i].inv = k.stack[i].inv
    BY <1>1, <1>3, StatusSet
  <1>5. DOMAIN client' = Clients /\ \A d \in Clients \ {c} : client'[d] = client[d]
    BY <1>1, <1>2
  <1>6. x = [k EXCEPT !.step = "insert", !.type = "terminal", !.next = NextCursor, !.stack = s]
    BY <1>1, <1>2 DEF WithStatus, Client
  <1>7. NextCursor \in Nat /\ \A e \in events : e.cursor < NextCursor
    BY NextCursorFresh DEF JInv
  <1>8. ~k.fresh /\ k.run \in Runs
    BY <1>1 DEF ClientOK, StepOK
  <1>. HIDE DEF s, x, k
  <1>9. x \in Client
    BY <1>1, <1>4, <1>6, <1>7 DEF Client, Frame
  <1>10. /\ x.run = k.run /\ x.fresh = k.fresh /\ x.step = "insert" /\ x.type = "terminal"
         /\ x.stack = s /\ x.next = NextCursor
    BY <1>1, <1>6 DEF Client
  <1>11. \A i \in DOMAIN k.stack : k.stack[i].inv < NextCursor
    BY <1>1, <1>7 DEF ClientOK, CallOK, Intents, k
  <1>12. \A i \in DOMAIN x.stack : CallOK(client[c], i)'
    BY <1>1, <1>4, <1>10, <1>11, KeptCalls DEF x, k
  <1>13. StepOK(client[c])'
    BY <1>4, <1>8, <1>9, <1>10 DEF StepOK, x
  <1>14. ClientOK(client[c])'
    BY <1>1, <1>8, <1>10, <1>12, <1>13 DEF ClientOK, x, k
  <1>. QED
    BY <1>1, <1>5, <1>14, QuietStep DEF JInv

\* A call is made: its intent is in the journal.
LEMMA DispatchStep ==
    ASSUME JInv, NEW c \in Clients, Dispatch(c)
    PROVE  JInv'
  <1>. DEFINE k == client[c]
              x == client'[c]
              call == [run |-> k.run, label |-> Head(k.stack).label, inv |-> Head(k.stack).inv]
  <1>1. /\ DOMAIN client = Clients /\ ClientOK(k) /\ k \in Client /\ k.step = "dispatch"
        /\ k.stack \in Seq(Frame) /\ k.stack # <<>>
        /\ UNCHANGED <<events, artifacts, crowded, faults>>
        /\ called' = called \cup {call}
        /\ client' = [client EXCEPT ![c].step = "running"]
    BY DEF JInv, Dispatch, ClientOK, StepOK, Client, Frame
  <1>2. DOMAIN client' = Clients /\ \A d \in Clients \ {c} : client'[d] = client[d]
    BY <1>1
  <1>3. /\ x \in Client /\ x.step = "running" /\ x.run = k.run /\ x.fresh = k.fresh
        /\ x.stack = k.stack
    BY <1>1 DEF Client
  <1>4. k.run \in Runs /\ ~k.fresh
    BY <1>1 DEF ClientOK, StepOK
  <1>5. Head(k.stack) = k.stack[1] /\ k.stack[1] \in Frame /\ 1 \in DOMAIN k.stack
    BY <1>1, Popped
  <1>6. /\ call.run = k.run /\ call.label = k.stack[1].label /\ call.inv = k.stack[1].inv
        /\ call \in [run : Runs, label : Labels, inv : Nat]
    BY <1>4, <1>5 DEF Frame
  <1>. HIDE DEF call
  <1>7. \E e \in Intents(events) : e.run = call.run /\ e.label = call.label /\ e.inv = call.inv
    BY <1>1, <1>5, <1>6 DEF ClientOK, CallOK
  <1>8. ASSUME NEW i \in DOMAIN x.stack
        PROVE  CallOK(client[c], i)'
    <2>1. CallOK(k, i)
      BY <1>1, <1>3, <1>8 DEF ClientOK
    <2>2. \E y \in called' : y.run = k.run /\ y.label = k.stack[i].label /\ y.inv = k.stack[i].inv
      <3>1. CASE i = 1
        BY <1>1, <1>6, <3>1
      <3>2. CASE i # 1
        BY <1>1, <2>1, <3>2 DEF CallOK
      <3>. QED
        BY <3>1, <3>2
    <2>. QED
      BY <1>1, <1>3, <2>1, <2>2 DEF CallOK, Intents
  <1>9. ClientOK(client[c])'
    <2>1. StepOK(client[c])'
      BY <1>1, <1>3, <1>4 DEF StepOK
    <2>. QED
      BY <1>1, <1>3, <1>4, <1>8, <2>1 DEF ClientOK
  <1>10. \A d \in Clients : ClientOK(client[d])'
    BY <1>1, <1>2, <1>9, OneCommand
  <1>11. EventsOK' /\ OnceOK'
    BY <1>1 DEF JInv, EventsOK, OnceOK, Intents
  <1>12. EffectsAreJournaled'
    BY <1>1, <1>7 DEF JInv, EffectsAreJournaled, Intents
  <1>. QED
    BY <1>1, <1>2, <1>6, <1>10, <1>11, <1>12 DEF JInv

\* Every event that is added keeps what the journal says of calls.
LEMMA AddedEvent ==
    ASSUME JInv, NEW n \in Event, events' = events \cup {n},
           UNCHANGED <<artifacts, called>>,
           \A d \in events : d.cursor # n.cursor,
           n.type = "agent_started" \/ \E s \in events : s.type = "agent_started" /\ s.run = n.run,
           n.type = "intent" =>
               /\ <<n.run, n.label, n.seq>> \in artifacts
               /\ n.label \in Labels /\ Op(n.label).once =>
                      \A e \in events : ~(e.run = n.run /\ e.label = n.label),
           n.type = "terminal" =>
               \E k \in called : k.inv = n.inv /\ k.run = n.run /\ k.label = n.label
                                 /\ n.inv < n.cursor
    PROVE  EventsOK' /\ EffectsAreJournaled' /\ OnceOK'
  <1>1. EventsOK'
    BY NewEvent DEF JInv
  <1>2. EffectsAreJournaled'
    <2>1. \A k \in called' : \E e \in Intents(events)' :
              e.run = k.run /\ e.label = k.label /\ e.inv = k.inv
      BY DEF JInv, EffectsAreJournaled, Intents
    <2>2. \A e \in Intents(events)' : <<e.run, e.label, e.seq>> \in artifacts'
      BY DEF JInv, EffectsAreJournaled, Intents
    <2>3. \A t \in events' : t.type = "terminal" =>
              \E k \in called' : /\ k.inv = t.inv /\ k.run = t.run /\ k.label = t.label
                                 /\ t.inv < t.cursor
      BY DEF JInv, EffectsAreJournaled
    <2>. QED
      BY <1>1, <2>1, <2>2, <2>3 DEF EffectsAreJournaled, EventsOK
  <1>3. OnceOK'
    BY DEF JInv, OnceOK, Intents
  <1>. QED
    BY <1>1, <1>2, <1>3

\* An intent is recorded with a cursor that nobody has.
LEMMA IntentStep ==
    ASSUME JInv, NEW c \in Clients, client[c].step = "gate", RecordIntent(c),
           UNCHANGED <<artifacts, called, crowded, faults>>,
           Op(client[c].label).once => \A e \in Of(client[c].run) : e.label # client[c].label
    PROVE  JInv'
  <1>. DEFINE k == client[c]
              x == client'[c]
              n == NextCursor
              f == [label |-> k.label, inv |-> n, status |-> "none"]
              e == [cursor |-> n, run |-> k.run, type |-> "intent", label |-> k.label, inv |-> n,
                    seq |-> k.seq, status |-> "none"]
  <1>1. /\ DOMAIN client = Clients /\ ClientOK(k) /\ k \in Client /\ k.stack \in Seq(Frame)
        /\ k.seq \in Nat /\ k.label \in Labels /\ k.run \in Runs /\ ~k.fresh
    BY DEF JInv, ClientOK, StepOK, Client, Frame
  <1>2. n \in Nat /\ \A d \in events : d.cursor < n
    BY NextCursorFresh DEF JInv
  <1>3. /\ events' = events \cup {e}
        /\ client' = [client EXCEPT
             ![c].step = "dispatch", ![c].last = n, ![c].seq = @ + 1, ![c].next = 0,
             ![c].label = "none", ![c].stack = <<f>> \o @]
    BY DEF RecordIntent
  <1>. HIDE DEF n
  <1>4. DOMAIN client' = Clients /\ \A d \in Clients \ {c} : client'[d] = client[d]
    BY <1>1, <1>3
  <1>5. f \in Frame /\ f.label = k.label /\ f.inv = n
    BY <1>1, <1>2 DEF Frame, Statuses
  <1>6. /\ e.cursor = n /\ e.run = k.run /\ e.type = "intent" /\ e.label = k.label
        /\ e.inv = n /\ e.seq = k.seq
    OBVIOUS
  <1>7. e \in Event
    BY <1>1, <1>2 DEF Event, Statuses
  <1>. DEFINE s == Push(f, k.stack)
  <1>8. /\ s \in Seq(Frame) /\ s # <<>> /\ s[1] = f
        /\ \A i \in DOMAIN s : i # 1 => i - 1 \in DOMAIN k.stack /\ s[i] = k.stack[i - 1]
    BY <1>1, <1>5, Pushed
  <1>9. x = [k EXCEPT !.step = "dispatch", !.last = n, !.seq = k.seq + 1, !.next = 0,
                      !.label = "none", !.stack = s]
    BY <1>1, <1>3 DEF Push, Client
  <1>. HIDE DEF e, f, s, x, k
  <1>10. x \in Client
    <2>1. k.seq + 1 \in Nat /\ k \in Client /\ n \in Nat /\ s \in Seq(Frame)
      BY <1>1, <1>2, <1>8
    <2>. QED
      BY <1>9, <2>1 DEF Client, Frame
  <1>11. x.step = "dispatch" /\ x.run = k.run /\ x.fresh = k.fresh /\ x.stack = s
    BY <1>1, <1>9 DEF Client
  <1>12. e \in Intents(events')
    BY <1>3, <1>6 DEF Intents
  <1>13. ASSUME NEW i \in DOMAIN x.stack
         PROVE  CallOK(client[c], i)'
    <2>1. CASE i = 1
      BY <1>5, <1>6, <1>8, <1>11, <1>12, <2>1 DEF CallOK, Intents, x
    <2>2. CASE i # 1
      <3>. DEFINE j == i - 1
      <3>1. j \in DOMAIN k.stack /\ x.stack[i] = k.stack[j]
        BY <1>8, <1>11, <1>13, <2>2
      <3>. HIDE DEF j
      <3>2. CallOK(k, j) /\ k.step = "gate"
        BY <1>1, <3>1 DEF ClientOK, k
      <3>. QED
        BY <1>3, <1>11, <2>2, <3>1, <3>2 DEF CallOK, Intents, x
    <2>. QED
      BY <2>1, <2>2
  <1>14. \E t \in events : t.type = "agent_started" /\ t.run = k.run
    BY <1>1 DEF ClientOK, k
  <1>15. ClientOK(client[c])'
    <2>1. StepOK(client[c])'
      BY <1>1, <1>8, <1>10, <1>11 DEF StepOK, x
    <2>2. \E t \in events' : t.type = "agent_started" /\ t.run = k.run
      BY <1>3, <1>14
    <2>. QED
      BY <1>11, <1>13, <2>1, <2>2 DEF ClientOK, x
  <1>16. \A d \in Clients : ClientOK(client[d])'
    BY <1>3, <1>4, <1>15, OneCommand
  <1>17. <<e.run, e.label, e.seq>> \in artifacts
    BY <1>1, <1>6 DEF ClientOK, k
  <1>18. \A d \in events : d.cursor # e.cursor
    <2>1. \A d \in events : d.cursor \in Nat
      BY DEF JInv, EventsOK, Event
    <2>. QED
      BY <1>2, <1>6, <2>1
  <1>19. Op(e.label).once => \A d \in events : ~(d.run = e.run /\ d.label = e.label)
    BY <1>6 DEF Of, k
  <1>20. EventsOK' /\ EffectsAreJournaled' /\ OnceOK'
    BY <1>3, <1>6, <1>7, <1>14, <1>17, <1>18, <1>19, AddedEvent
  <1>. QED
    BY <1>4, <1>16, <1>20 DEF JInv

\* The intent of a call, whether its id is fixed or not.
LEMMA RecordStep ==
    ASSUME JInv, NEW c \in Clients,
           RecordCheckpointAndIntent(c) \/ RecordCheckpointAndIntentOnce(c)
    PROVE  JInv'
  <1>1. /\ client[c].step = "gate" /\ UNCHANGED <<artifacts, called, crowded, faults>>
        /\ crowded \subseteq Runs \cup {NoRun} /\ faults \in 0..MaxFaults
    BY DEF RecordCheckpointAndIntent, RecordCheckpointAndIntentOnce, JInv
  <1>2. CASE Refuse(c)
    BY <1>1, <1>2, FailedStep DEF Refuse
  <1>3. CASE RecordIntent(c) /\ (Op(client[c].label).once =>
                 \A e \in Of(client[c].run) : e.label # client[c].label)
    BY <1>1, <1>3, IntentStep
  <1>. QED
    BY <1>2, <1>3 DEF RecordCheckpointAndIntent, RecordCheckpointAndIntentOnce

\* The state after an append: the terminal of a call takes it from the stack.
LEMMA PoppedShape ==
    ASSUME NEW c \in Clients, ClientOK(client[c]), client[c].step = "insert",
           client[c].type = "terminal"
    PROVE  LET k == client[c]
               x == Stored(c)
           IN /\ x \in Client /\ x.run = k.run /\ x.fresh = k.fresh /\ x.used = k.used
              /\ \/ x.step = "ready" /\ x.stack = <<>>
                 \/ x.step = "running" /\ x.stack # <<>>
              /\ \A i \in DOMAIN x.stack :
                     /\ i + 1 \in DOMAIN k.stack
                     /\ x.stack[i].label = k.stack[i + 1].label
                     /\ x.stack[i].inv = k.stack[i + 1].inv
  <1>. DEFINE k == client[c]
              x == Stored(c)
              up == Tail(k.stack)
              good == Head(k.stack).status = "ok"
              y == [k EXCEPT !.last = k.next, !.seq = @ + 1, !.type = "none", !.next = 0]
  <1>1. /\ k \in Client /\ k.stack \in Seq(Frame) /\ k.stack # <<>> /\ k.type = "terminal"
        /\ ~k.fresh /\ k.next \in Nat /\ k.seq \in Nat
    BY DEF ClientOK, StepOK, Client, Frame
  <1>2. /\ up \in Seq(Frame)
        /\ \A i \in DOMAIN up : i + 1 \in DOMAIN k.stack /\ up[i] = k.stack[i + 1]
    BY <1>1, Popped
  <1>3. y.stack = k.stack /\ y.fresh = k.fresh
    BY <1>1 DEF Client
  <1>4. x = [y EXCEPT
               !.stack = IF Tail(y.stack) # <<>> /\ ~(Head(y.stack).status = "ok")
                         THEN [Tail(y.stack) EXCEPT ![1].status = "failed"] ELSE Tail(y.stack),
               !.step = IF Tail(y.stack) = <<>> THEN "ready" ELSE "running",
               !.status = IF Tail(y.stack) = <<>> /\ ~(Head(y.stack).status = "ok") THEN "failed"
                          ELSE @]
    BY <1>1, <1>3 DEF Stored
  <1>5. PICK s \in Seq(Frame), v \in {"ok", "failed"} :
            /\ x = [y EXCEPT !.stack = s, !.step = IF up = <<>> THEN "ready" ELSE "running",
                             !.status = v]
            /\ DOMAIN s = DOMAIN up /\ (s = <<>> <=> up = <<>>)
            /\ \A i \in DOMAIN up : s[i].label = up[i].label /\ s[i].inv = up[i].inv
    <2>. DEFINE S == IF up # <<>> /\ ~good THEN WithStatus(up, "failed") ELSE up
                V == IF up = <<>> /\ ~good THEN "failed" ELSE y.status
    <2>1. V \in {"ok", "failed"}
      BY <1>1 DEF Client
    <2>2. /\ S \in Seq(Frame) /\ DOMAIN S = DOMAIN up /\ (S = <<>> <=> up = <<>>)
          /\ \A i \in DOMAIN up : S[i].label = up[i].label /\ S[i].inv = up[i].inv
      <3>1. CASE up # <<>> /\ ~good
        BY <1>2, <3>1, StatusSet DEF Statuses
      <3>2. CASE ~(up # <<>> /\ ~good)
        BY <1>2, <3>2
      <3>. QED
        BY <3>1, <3>2
    <2>3. x = [y EXCEPT !.stack = S, !.step = IF up = <<>> THEN "ready" ELSE "running",
                        !.status = V]
      BY <1>3, <1>4 DEF WithStatus
    <2>. HIDE DEF S, V, x, y, up
    <2>. QED
      BY <2>1, <2>2, <2>3
  <1>. HIDE DEF k, x, up
  <1>6. y \in Client
    <2>1. k.seq + 1 \in Nat
      BY <1>1
    <2>. QED
      BY <1>1, <2>1 DEF Client
  <1>7. y.run = k.run /\ y.fresh = k.fresh /\ y.used = k.used
    BY <1>1 DEF Client
  <1>. HIDE DEF y
  <1>8. x \in Client
    BY <1>5, <1>6 DEF Client, Frame
  <1>9. /\ x.run = k.run /\ x.fresh = k.fresh /\ x.used = k.used /\ x.stack = s
        /\ x.step = IF up = <<>> THEN "ready" ELSE "running"
    BY <1>5, <1>6, <1>7 DEF Client
  <1>. QED
    BY <1>2, <1>5, <1>8, <1>9 DEF k, x

\* Any other event is stored with an empty stack.
LEMMA ClosedShape ==
    ASSUME NEW c \in Clients, ClientOK(client[c]), client[c].step = "insert",
           client[c].type # "terminal"
    PROVE  LET k == client[c]
               x == Stored(c)
           IN \/ x = IdleClient
              \/ /\ x \in Client /\ x.run = k.run /\ x.used = k.used /\ ~x.fresh /\ x.stack = <<>>
                 /\ x.step \in {"ready", "invocation_finished"}
  <1>. DEFINE k == client[c]
              x == Stored(c)
              y == [k EXCEPT !.last = k.next, !.seq = @ + 1, !.type = "none", !.next = 0]
  <1>1. /\ k \in Client /\ k.stack = <<>> /\ k.type # "terminal" /\ k.type # "none"
        /\ (k.fresh => k.type = "agent_started") /\ k.next \in Nat /\ k.seq \in Nat
    BY DEF ClientOK, StepOK, Client
  <1>2. y \in Client
    <2>1. k.seq + 1 \in Nat
      BY <1>1
    <2>. HIDE DEF k
    <2>. QED
      BY <1>1, <2>1 DEF Client
  <1>3. y.run = k.run /\ y.used = k.used /\ y.fresh = k.fresh /\ y.stack = <<>>
    BY <1>1 DEF Client
  <1>4. CASE k.type = "agent_started"
    <2>1. x = [y EXCEPT !.step = "ready", !.fresh = FALSE, !.inv = k.next]
      BY <1>3, <1>4 DEF Stored
    <2>. HIDE DEF x, y, k
    <2>2. x \in Client
      BY <1>1, <1>2, <2>1 DEF Client
    <2>3. x.run = k.run /\ x.used = k.used /\ ~x.fresh /\ x.stack = <<>> /\ x.step = "ready"
      BY <1>2, <1>3, <2>1 DEF Client
    <2>. QED
      BY <2>2, <2>3 DEF x, k
  <1>5. CASE k.type = "agent_finished"
    <2>1. x = [y EXCEPT !.step = "invocation_finished"]
      BY <1>1, <1>3, <1>5 DEF Stored
    <2>2. ~k.fresh
      BY <1>1, <1>5
    <2>. HIDE DEF x, y, k
    <2>3. x \in Client
      BY <1>2, <2>1 DEF Client
    <2>4. /\ x.run = k.run /\ x.used = k.used /\ ~x.fresh
          /\ x.stack = <<>> /\ x.step = "invocation_finished"
      BY <1>2, <1>3, <2>1, <2>2 DEF Client
    <2>. QED
      BY <2>3, <2>4 DEF x, k
  <1>6. CASE k.type = "run_finished"
    BY <1>1, <1>3, <1>6 DEF Stored
  <1>7. k.type \in {"agent_started", "agent_finished", "run_finished"}
    BY <1>1 DEF Client
  <1>. QED
    BY <1>4, <1>5, <1>6, <1>7

\* An event is stored, or another writer had its cursor.
LEMMA InsertStep ==
    ASSUME JInv, NEW c \in Clients, Insert(c)
    PROVE  JInv'
  <1>. DEFINE k == client[c]
              x == client'[c]
              n == Pending(c, k.next)
  <1>1. /\ DOMAIN client = Clients /\ ClientOK(k) /\ k \in Client /\ k.stack \in Seq(Frame)
        /\ k.step = "insert" /\ k.run \in Runs /\ k.next \in Nat /\ k.seq \in Nat
        /\ faults \in 0..MaxFaults
        /\ UNCHANGED <<artifacts, called, faults>> /\ crowded' \subseteq Runs \cup {NoRun}
    BY CrowdTyped DEF JInv, Insert, ClientOK, StepOK, Client, Frame
  <1>2. CASE client' = [client EXCEPT ![c] = NotStored(c)] /\ UNCHANGED events
    BY <1>1, <1>2, FailedStep
  <1>3. CASE /\ k.next \notin {e.cursor : e \in events}
             /\ events' = events \cup {n}
             /\ client' = [client EXCEPT ![c] = Stored(c)]
    <2>1. DOMAIN client' = Clients /\ (\A d \in Clients \ {c} : client'[d] = client[d])
          /\ x = Stored(c)
      BY <1>1, <1>3
    <2>2. /\ n.cursor = k.next /\ n.run = k.run /\ n.type = k.type
          /\ n.label = IF k.type = "terminal" THEN Head(k.stack).label ELSE "none"
          /\ n.inv = IF k.type = "agent_started" THEN k.next
                     ELSE IF k.type = "terminal" THEN Head(k.stack).inv ELSE k.inv
          /\ n.seq = k.seq
          /\ DOMAIN n = {"cursor", "run", "type", "label", "inv", "seq", "status"}
      BY DEF Pending
    <2>3. k.type = "terminal" =>
              /\ k.stack # <<>> /\ 1 \in DOMAIN k.stack /\ Head(k.stack) = k.stack[1]
              /\ Head(k.stack) \in Frame
      BY <1>1, Popped DEF ClientOK, StepOK
    <2>4. k.type \in {"agent_started", "terminal", "agent_finished", "run_finished"}
      BY <1>1 DEF ClientOK, StepOK, Client
    <2>5. n.status \in Statuses
      <3>1. CASE k.type = "terminal"
        <4>1. n.status = Head(k.stack).status
          BY <3>1 DEF Pending
        <4>. QED
          BY <2>3, <3>1, <4>1 DEF Frame
      <3>2. CASE k.type \in {"agent_finished", "run_finished"}
        <4>1. n.status = k.status
          BY <3>2 DEF Pending
        <4>. QED
          BY <1>1, <4>1 DEF Client, Statuses
      <3>3. CASE k.type = "agent_started"
        <4>1. n.status = "none"
          BY <3>3 DEF Pending
        <4>. QED
          BY <4>1 DEF Statuses
      <3>. QED
        BY <2>4, <3>1, <3>2, <3>3
    <2>. DEFINE m == [cursor |-> n.cursor, run |-> n.run, type |-> n.type, label |-> n.label,
                      inv |-> n.inv, seq |-> n.seq, status |-> n.status]
    <2>6. n = m
      BY DEF Pending
    <2>7. n \in Event
      <3>1. /\ n.cursor \in Nat /\ n.run \in Runs
            /\ n.type \in {"agent_started", "terminal", "agent_finished", "run_finished"}
            /\ n.label \in Labels \cup {"none"} /\ n.inv \in Nat /\ n.seq \in Nat
        BY <1>1, <2>2, <2>3, <2>4 DEF Client, Frame
      <3>2. m \in Event
        BY <2>5, <3>1 DEF Event
      <3>. QED
        BY <2>6, <3>2
    <2>. HIDE DEF n, m
    <2>8. ClientOK(client[c])' /\ events \subseteq events'
      <3>1. events \subseteq events'
        BY <1>3
      <3>2. ASSUME x \in Client, x.run = k.run, ~x.fresh,
                   \/ x.step \in {"ready", "invocation_finished"} /\ x.stack = <<>>
                   \/ x.step = "running" /\ x.stack # <<>>,
                   \A i \in DOMAIN x.stack : \E j \in DOMAIN k.stack :
                       x.stack[i].label = k.stack[j].label /\ x.stack[i].inv = k.stack[j].inv
            PROVE  ClientOK(client[c])'
        <4>1. \A i \in DOMAIN x.stack : CallOK(client[c], i)'
          BY <1>1, <3>1, <3>2, KeptCalls
        <4>2. StepOK(client[c])'
          BY <1>1, <3>2 DEF StepOK
        <4>3. \E s \in events' : s.type = "agent_started" /\ s.run = k.run
          <5>1. CASE k.fresh
            <6>1. n.type = "agent_started" /\ n \in events'
              BY <1>1, <1>3, <2>2, <5>1 DEF ClientOK, StepOK
            <6>. QED
              BY <2>2, <6>1
          <5>2. CASE ~k.fresh
            BY <1>1, <3>1, <5>2 DEF ClientOK
          <5>. QED
            BY <5>1, <5>2
        <4>. QED
          BY <3>2, <4>1, <4>2, <4>3 DEF ClientOK
      <3>3. CASE k.type = "terminal"
        <4>1. ~k.fresh
          BY <1>1, <3>3 DEF ClientOK, StepOK
        <4>. QED
          BY <1>1, <2>1, <3>1, <3>2, <3>3, <4>1, PoppedShape
      <3>4. CASE k.type # "terminal"
        <4>1. CASE x = IdleClient
          BY <3>1, <4>1, IdleOK DEF ClientOK, StepOK, CallOK
        <4>2. CASE x # IdleClient
          <5>1. /\ x \in Client /\ x.run = k.run /\ ~x.fresh /\ x.stack = <<>>
                /\ x.step \in {"ready", "invocation_finished"}
            BY <1>1, <2>1, <3>4, <4>2, ClosedShape
          <5>. QED
            BY <3>1, <3>2, <5>1
        <4>. QED
          BY <4>1, <4>2
      <3>. QED
        BY <3>3, <3>4
    <2>9. \A d \in Clients : ClientOK(client[d])'
      BY <1>1, <2>1, <2>8, OneCommand
    <2>10. \A d \in events : d.cursor # n.cursor
      BY <1>3, <2>2
    <2>11. n.type = "agent_started" \/ \E s \in events : s.type = "agent_started" /\ s.run = n.run
      <3>1. k.fresh => n.type = "agent_started"
        BY <1>1, <2>2 DEF ClientOK, StepOK
      <3>2. ~k.fresh => \E s \in events : s.type = "agent_started" /\ s.run = k.run
        BY <1>1 DEF ClientOK
      <3>. QED
        BY <2>2, <3>1, <3>2
    <2>12. n.type = "terminal" =>
               \E y \in called : y.inv = n.inv /\ y.run = n.run /\ y.label = n.label
                                 /\ n.inv < n.cursor
      <3>1. k.type = "terminal" => CallOK(k, 1)
        BY <1>1, <2>3 DEF ClientOK
      <3>2. n.type = "terminal" =>
                /\ n.inv = k.stack[1].inv /\ n.label = k.stack[1].label /\ n.run = k.run
                /\ n.cursor = k.next
        BY <2>2, <2>3
      <3>. QED
        BY <1>1, <2>2, <3>1, <3>2 DEF CallOK
    <2>13. n.type # "intent"
      BY <2>2, <2>4
    <2>14. EventsOK' /\ EffectsAreJournaled' /\ OnceOK'
      BY <1>1, <1>3, <2>7, <2>10, <2>11, <2>12, <2>13, AddedEvent
    <2>. QED
      BY <1>1, <2>1, <2>9, <2>14 DEF JInv
  <1>. QED
    BY <1>2, <1>3 DEF Insert

\* An invocation or a run is closed, or the command ends without.
LEMMA FinishStep ==
    ASSUME JInv, NEW c \in Clients, FinishAgentInvocation(c) \/ FinishRun(c)
    PROVE  JInv'
  <1>. DEFINE k == client[c]
  <1>1. /\ UNCHANGED <<events, artifacts, called, faults>> /\ Crowd
        /\ DOMAIN client = Clients /\ ClientOK(k) /\ k \in Client
        /\ k.step \in {"ready", "invocation_finished"} /\ faults \in 0..MaxFaults
    BY DEF FinishAgentInvocation, FinishRun, JInv, ClientOK, StepOK
  <1>2. crowded' \subseteq Runs \cup {NoRun}
    BY <1>1, CrowdTyped
  <1>3. CASE client' = [client EXCEPT ![c] = IdleClient]
    BY <1>1, <1>2, <1>3, EndStep
  <1>4. ASSUME NEW t \in {"agent_finished", "run_finished"}, Write(c, t, k)
        PROVE  JInv'
    <2>. DEFINE x == [k EXCEPT !.step = "write", !.type = t]
    <2>1. /\ DOMAIN client' = Clients /\ \A d \in Clients \ {c} : client'[d] = client[d]
          /\ client'[c] = x
      BY <1>1, <1>4 DEF Write
    <2>2. k.run \in Runs /\ ~k.fresh /\ k.stack = <<>>
      BY <1>1 DEF ClientOK, StepOK
    <2>. HIDE DEF k
    <2>3. /\ x \in Client /\ x.step = "write" /\ x.type = t /\ x.run = k.run /\ x.stack = k.stack
          /\ x.fresh = k.fresh
      BY <1>1 DEF Client
    <2>. HIDE DEF x
    <2>4. ClientOK(client[c])'
      BY <1>1, <2>1, <2>2, <2>3 DEF ClientOK, StepOK, CallOK
    <2>. QED
      BY <1>1, <1>2, <2>1, <2>4, QuietStep
  <1>. QED
    BY <1>3, <1>4 DEF FinishAgentInvocation, FinishRun

\* A process dies, or the database refuses a write.
LEMMA FaultStep ==
    ASSUME JInv, NEW c \in Clients, Crash(c) \/ StoreFault(c)
    PROVE  JInv'
  <1>1. UNCHANGED <<events, artifacts, called>> /\ crowded' \subseteq Runs \cup {NoRun}
    BY DEF Crash, StoreFault, JInv
  <1>2. faults' \in 0..MaxFaults
    BY JournalAssumption DEF Crash, StoreFault, JInv
  <1>3. CASE Crash(c)
    BY <1>1, <1>2, <1>3, EndStep DEF Crash
  <1>4. CASE StoreFault(c)
    BY <1>1, <1>2, <1>4, FailedStep DEF StoreFault
  <1>. QED
    BY <1>3, <1>4

\* Nothing is in the journal and no command runs.
LEMMA JournalInit == Init => JInv
  <1>. SUFFICES ASSUME Init PROVE JInv
    OBVIOUS
  <1>1. EventsOK
    BY FS_EmptySet DEF Init, EventsOK
  <1>2. DOMAIN client = Clients /\ \A c \in Clients : ClientOK(client[c])
    BY IdleOK DEF Init, ClientOK, StepOK, CallOK
  <1>3. EffectsAreJournaled /\ OnceOK
    BY DEF Init, EffectsAreJournaled, OnceOK, Intents
  <1>. QED
    BY <1>1, <1>2, <1>3, JournalAssumption DEF Init, JInv

\* Every step of a command keeps the journal what it is.
LEMMA JournalStep == JInv /\ [Next]_vars => JInv'
  <1>. SUFFICES ASSUME JInv, [Next]_vars PROVE JInv'
    OBVIOUS
  <1>1. ASSUME UNCHANGED vars PROVE JInv'
    <2>1. \A c \in Clients : ClientOK(client[c])'
      BY <1>1 DEF vars, JInv, ClientOK, StepOK, CallOK, Intents
    <2>2. EventsOK' /\ EffectsAreJournaled' /\ OnceOK'
      BY <1>1 DEF vars, JInv, EventsOK, EffectsAreJournaled, OnceOK, Intents
    <2>. QED
      BY <1>1, <2>1, <2>2 DEF vars, JInv
  <1>2. ASSUME NEW c \in Clients, NEW r \in Runs, OpenNew(c, r) \/ ResumeExisting(c, r)
        PROVE  JInv'
    BY <1>2, OpenStep
  <1>3. ASSUME NEW c \in Clients, NEW l \in Labels, Gate(c, l) PROVE JInv'
    BY <1>3, GateStep
  <1>4. ASSUME NEW c \in Clients,
               \/ RecordCheckpointAndIntent(c) \/ RecordCheckpointAndIntentOnce(c)
               \/ Dispatch(c) \/ Return(c) \/ ReadCursor(c) \/ Insert(c)
        PROVE  JInv'
    BY <1>4, RecordStep, DispatchStep, ReturnStep, ReadStep, InsertStep
  <1>5. ASSUME NEW c \in Clients,
               FinishAgentInvocation(c) \/ FinishRun(c) \/ Crash(c) \/ StoreFault(c)
        PROVE  JInv'
    BY <1>5, FinishStep, FaultStep
  <1>. QED
    BY <1>1, <1>2, <1>3, <1>4, <1>5 DEF Next

\* What is in the journal, in the commands and on their stacks belongs together.
THEOREM JournalInvariance == Spec => []JInv
  BY JournalInit, JournalStep, PTL DEF Spec

\* Type correctness (RunJournal.TypeOK).
THEOREM TypeCorrect == Spec => []TypeOK
  <1>1. JInv => TypeOK
    BY DEF JInv, EventsOK, ClientOK, StepOK, TypeOK
  <1>. QED
    BY <1>1, JournalInvariance, PTL

\* run_gated_dispatch (RunJournal.EffectsAreJournaled): whatever commands, collisions, crashes
\* and failed writes there are, a call that was made has its intent in the journal with its
\* artifact, a terminal answers a call that was made before it, and cursors are unique.
THEOREM EffectsAreJournaledHolds == Spec => []EffectsAreJournaled
  <1>1. JInv => EffectsAreJournaled
    BY DEF JInv
  <1>. QED
    BY <1>1, JournalInvariance, PTL

----------------------------------------------------------------------------
(* The kinds of steps, as far as runs, flags and labels are concerned      *)

SameRun(k, x) == x.run = k.run /\ x.fresh = k.fresh /\ x.used = k.used

\* A run is started, or resumed.
Opens(k, x) ==
    /\ k.step = "idle" /\ x.step = "write" /\ x.type = "agent_started" /\ x.run \in Runs
    /\ UNCHANGED <<events, called>> /\ Crowd
    /\ \/ Of(x.run) = {} /\ FirstAttempt /\ x.fresh
       \/ Resumable(x.run) /\ x.used = Restored(x.run) /\ ~x.fresh

\* An event other than an intent is stored.
Stores(k, x, n) ==
    /\ k.step = "insert" /\ events' = events \cup {n} /\ n.type = k.type /\ n.run = k.run
    /\ UNCHANGED called /\ Crowd
    /\ n.label = "none" \/ \E e \in Intents(events) : e.label = n.label
    /\ x = IdleClient \/ (x.run = k.run /\ x.used = k.used /\ ~x.fresh)
    /\ x.step \in {"idle", "ready", "running", "invocation_finished"}

\* An intent is stored.
Records(k, x, n) ==
    /\ k.step = "gate" /\ events' = events \cup {n} /\ n.type = "intent" /\ n.run = k.run
    /\ n.label = k.label
    /\ SameRun(k, x) /\ x.step = "dispatch" /\ UNCHANGED <<called, crowded>>

\* A command ends.
Ends(x) == x = IdleClient /\ UNCHANGED <<events, called>> /\ (Crowd \/ UNCHANGED crowded)

\* A gate is entered.
Gates(k, x) ==
    /\ k.step # "idle" /\ x.step = "gate" /\ x.label \in Labels /\ x.label \notin k.used
    /\ x.run = k.run /\ x.fresh = k.fresh
    /\ x.used = IF Op(x.label).single THEN k.used \cup {x.label} ELSE k.used
    /\ UNCHANGED <<events, called, crowded>>

\* A command closes what is settled.
Closes(k, x) ==
    /\ k.step # "idle" /\ x.step = "write" /\ Settled(k.run)
    /\ SameRun(k, x) /\ UNCHANGED <<events, called>> /\ Crowd

\* A command goes on otherwise.
Goes(k, x) ==
    /\ k.step # "idle" /\ SameRun(k, x) /\ UNCHANGED events /\ (Crowd \/ UNCHANGED crowded)
    /\ x.step \in {"insert", "running", "ready"}
    /\ x.step = "insert" => x.type = "terminal" \/ (k.step = "write" /\ x.type = k.type)

Kind(k, x) ==
    \/ Opens(k, x) \/ Ends(x) \/ Gates(k, x) \/ Closes(k, x) \/ Goes(k, x)
    \/ \E n \in events' : Stores(k, x, n) \/ Records(k, x, n)

Moves(c) ==
    /\ DOMAIN client' = Clients /\ \A d \in Clients \ {c} : client'[d] = client[d]
    /\ Kind(client[c], client'[c])

\* Starting and resuming.
LEMMA OpenMoves ==
    ASSUME JInv, NEW c \in Clients, NEW r \in Runs, OpenNew(c, r) \/ ResumeExisting(c, r)
    PROVE  Moves(c)
  <1>. DEFINE k == client[c]
              x == client'[c]
  <1>1. /\ UNCHANGED <<events, called>> /\ Crowd /\ k.step = "idle" /\ DOMAIN client = Clients
    BY DEF OpenNew, ResumeExisting, JInv
  <1>2. ASSUME NEW rec \in Client, Write(c, "agent_started", rec), rec.run = r
        PROVE  /\ DOMAIN client' = Clients /\ \A d \in Clients \ {c} : client'[d] = client[d]
               /\ x.step = "write" /\ x.type = "agent_started" /\ x.run = r
               /\ x.fresh = rec.fresh /\ x.used = rec.used
    BY <1>1, <1>2 DEF Write, Client
  <1>3. CASE OpenNew(c, r)
    <2>. DEFINE rec == [IdleClient EXCEPT !.run = r, !.fresh = TRUE]
    <2>1. rec \in Client /\ rec.run = r /\ rec.fresh
      BY IdleOK DEF Client
    <2>2. Write(c, "agent_started", rec) /\ Of(r) = {} /\ FirstAttempt
      BY <1>3 DEF OpenNew
    <2>. HIDE DEF rec
    <2>. QED
      BY <1>1, <1>2, <2>1, <2>2 DEF Moves, Kind, Opens
  <1>4. CASE ResumeExisting(c, r)
    <2>. DEFINE rec == [IdleClient EXCEPT !.run = r, !.seq = Cardinality(Of(r)),
                                          !.used = Restored(r)]
    <2>1. Cardinality(Of(r)) \in Nat /\ Restored(r) \in SUBSET Labels
      BY Counted DEF JInv, Restored
    <2>2. rec \in Client /\ rec.run = r /\ ~rec.fresh /\ rec.used = Restored(r)
      BY <2>1, IdleOK DEF Client
    <2>3. Write(c, "agent_started", rec) /\ Resumable(r)
      BY <1>4 DEF ResumeExisting
    <2>. HIDE DEF rec
    <2>. QED
      BY <1>1, <1>2, <2>2, <2>3 DEF Moves, Kind, Opens
  <1>. QED
    BY <1>3, <1>4

\* Appends that read the cursor, and calls that are made or return.
LEMMA CallMoves ==
    ASSUME JInv, NEW c \in Clients, ReadCursor(c) \/ Return(c) \/ Dispatch(c)
    PROVE  Moves(c)
  <1>. DEFINE k == client[c]
              x == client'[c]
  <1>1. k \in Client /\ DOMAIN client = Clients /\ UNCHANGED <<events, crowded>>
    BY DEF ReadCursor, Return, Dispatch, JInv, ClientOK, StepOK
  <1>2. CASE ReadCursor(c)
    <2>1. client' = [client EXCEPT ![c].step = "insert", ![c].next = NextCursor] /\ k.step = "write"
      BY <1>2 DEF ReadCursor
    <2>2. DOMAIN client' = Clients /\ \A d \in Clients \ {c} : client'[d] = client[d]
      BY <1>1, <2>1
    <2>3. SameRun(k, x) /\ x.step = "insert" /\ x.type = k.type
      BY <1>1, <2>1 DEF Client, SameRun
    <2>. QED
      BY <1>1, <2>1, <2>2, <2>3 DEF Moves, Kind, Goes
  <1>3. CASE Return(c)
    <2>1. PICK v \in Outcomes(c) :
              client' = [client EXCEPT ![c].step = "insert", ![c].type = "terminal",
                                       ![c].next = NextCursor, ![c].stack[1].status = v]
      BY <1>3 DEF Return
    <2>2. DOMAIN client' = Clients /\ \A d \in Clients \ {c} : client'[d] = client[d]
      BY <1>1, <2>1
    <2>3. SameRun(k, x) /\ x.step = "insert" /\ x.type = "terminal"
      BY <1>1, <2>1 DEF Client, SameRun
    <2>4. k.step = "running"
      BY <1>3 DEF Return
    <2>. QED
      BY <1>1, <2>2, <2>3, <2>4 DEF Moves, Kind, Goes
  <1>4. CASE Dispatch(c)
    <2>1. client' = [client EXCEPT ![c].step = "running"] /\ k.step = "dispatch"
      BY <1>4 DEF Dispatch
    <2>2. DOMAIN client' = Clients /\ \A d \in Clients \ {c} : client'[d] = client[d]
      BY <1>1, <2>1
    <2>3. SameRun(k, x) /\ x.step = "running"
      BY <1>1, <2>1 DEF Client, SameRun
    <2>. QED
      BY <1>1, <2>1, <2>2, <2>3 DEF Moves, Kind, Goes
  <1>. QED
    BY <1>2, <1>3, <1>4

\* Entering a gate.
LEMMA GateMoves ==
    ASSUME JInv, NEW c \in Clients, NEW l \in Labels, Gate(c, l)
    PROVE  Moves(c)
  <1>. DEFINE k == client[c]
              x == client'[c]
  <1>1. /\ k \in Client /\ DOMAIN client = Clients /\ UNCHANGED <<events, called, crowded>>
        /\ k.step # "idle" /\ l \notin k.used
    BY DEF Gate, MayGate, JInv, ClientOK, StepOK
  <1>2. client' = [client EXCEPT ![c].step = "gate", ![c].label = l, ![c].next = NextCheckpoint,
                                 ![c].work = IF client[c].stack = <<>> THEN @ + 1 ELSE @,
                                 ![c].used = IF Op(l).single THEN @ \cup {l} ELSE @]
    BY DEF Gate
  <1>3. DOMAIN client' = Clients /\ \A d \in Clients \ {c} : client'[d] = client[d]
    BY <1>1, <1>2
  <1>4. /\ x.step = "gate" /\ x.label = l /\ x.run = k.run /\ x.fresh = k.fresh
        /\ x.used = IF Op(l).single THEN k.used \cup {l} ELSE k.used
    BY <1>1, <1>2 DEF Client
  <1>. QED
    BY <1>1, <1>3, <1>4 DEF Moves, Kind, Gates

\* A gate that refuses, or an append that fails.
LEMMA FailedMoves ==
    ASSUME JInv, NEW c \in Clients,
           \/ client[c].step = "insert" /\ client' = [client EXCEPT ![c] = NotStored(c)]
           \/ client[c].step = "gate"
              /\ client' = [client EXCEPT ![c] = Refused(c, [client[c] EXCEPT !.next = 0])],
           UNCHANGED <<events, called>>, Crowd \/ UNCHANGED crowded
    PROVE  Moves(c)
  <1>. DEFINE k == client[c]
              x == client'[c]
  <1>1. DOMAIN client = Clients /\ ClientOK(k)
    BY DEF JInv
  <1>2. DOMAIN client' = Clients /\ \A d \in Clients \ {c} : client'[d] = client[d]
    BY <1>1
  <1>3. CASE client[c].step = "gate"
    <2>1. x = Refused(c, [client[c] EXCEPT !.next = 0])
      BY <1>1, <1>3
    <2>2. SameRun(k, x) /\ x.step \in {"ready", "running"}
      BY <1>1, <1>3, <2>1, RefusedShape DEF SameRun
    <2>. QED
      BY <1>2, <1>3, <2>2 DEF Moves, Kind, Goes
  <1>4. CASE client[c].step = "insert" /\ client[c].type = "terminal"
    <2>1. x = NotStored(c)
      BY <1>1, <1>4
    <2>2. SameRun(k, x) /\ x.step \in {"ready", "running"}
      BY <1>1, <1>4, <2>1, NotStoredShape DEF SameRun
    <2>. QED
      BY <1>2, <1>4, <2>2 DEF Moves, Kind, Goes
  <1>5. CASE client[c].step = "insert" /\ client[c].type # "terminal"
    <2>1. x = IdleClient
      BY <1>1, <1>5 DEF NotStored
    <2>. QED
      BY <1>2, <2>1 DEF Moves, Kind, Ends
  <1>. QED
    BY <1>3, <1>4, <1>5

\* Recording an intent, or refusing to.
LEMMA RecordMoves ==
    ASSUME JInv, NEW c \in Clients,
           RecordCheckpointAndIntent(c) \/ RecordCheckpointAndIntentOnce(c)
    PROVE  Moves(c)
  <1>. DEFINE k == client[c]
              x == client'[c]
  <1>1. /\ k.step = "gate" /\ UNCHANGED <<called, crowded>>
        /\ k \in Client /\ DOMAIN client = Clients
    BY DEF RecordCheckpointAndIntent, RecordCheckpointAndIntentOnce, JInv, ClientOK, StepOK
  <1>2. CASE Refuse(c)
    BY <1>1, <1>2, FailedMoves DEF Refuse
  <1>3. CASE RecordIntent(c)
    <2>. DEFINE e == [cursor |-> NextCursor, run |-> k.run, type |-> "intent", label |-> k.label,
                      inv |-> NextCursor, seq |-> k.seq, status |-> "none"]
    <2>1. /\ events' = events \cup {e}
          /\ client' = [client EXCEPT
               ![c].step = "dispatch", ![c].last = NextCursor, ![c].seq = @ + 1, ![c].next = 0,
               ![c].label = "none",
               ![c].stack = <<[label |-> k.label, inv |-> NextCursor, status |-> "none"]>> \o @]
      BY <1>3 DEF RecordIntent
    <2>2. DOMAIN client' = Clients /\ \A d \in Clients \ {c} : client'[d] = client[d]
      BY <1>1, <2>1
    <2>3. SameRun(k, x) /\ x.step = "dispatch"
      BY <1>1, <2>1 DEF Client, SameRun
    <2>4. e \in events' /\ e.type = "intent" /\ e.run = k.run /\ e.label = k.label
      BY <2>1
    <2>. HIDE DEF e
    <2>5. Records(k, x, e)
      BY <1>1, <2>1, <2>3, <2>4 DEF Records
    <2>. QED
      BY <2>2, <2>4, <2>5 DEF Moves, Kind
  <1>. QED
    BY <1>2, <1>3 DEF RecordCheckpointAndIntent, RecordCheckpointAndIntentOnce

\* Storing an event.
LEMMA InsertMoves ==
    ASSUME JInv, NEW c \in Clients, Insert(c)
    PROVE  Moves(c)
  <1>. DEFINE k == client[c]
              x == client'[c]
              n == Pending(c, k.next)
  <1>1. /\ DOMAIN client = Clients /\ ClientOK(k) /\ k \in Client /\ k.stack \in Seq(Frame)
        /\ k.step = "insert" /\ UNCHANGED called /\ Crowd
    BY DEF JInv, Insert, ClientOK, StepOK, Client, Frame
  <1>2. CASE client' = [client EXCEPT ![c] = NotStored(c)] /\ UNCHANGED events
    BY <1>1, <1>2, FailedMoves
  <1>3. CASE events' = events \cup {n} /\ client' = [client EXCEPT ![c] = Stored(c)]
    <2>1. /\ DOMAIN client' = Clients /\ \A d \in Clients \ {c} : client'[d] = client[d]
          /\ x = Stored(c)
      BY <1>1, <1>3
    <2>2. /\ n.run = k.run /\ n.type = k.type
          /\ n.label = IF k.type = "terminal" THEN Head(k.stack).label ELSE "none"
      BY DEF Pending
    <2>. HIDE DEF n
    <2>3. n.label = "none" \/ \E e \in Intents(events) : e.label = n.label
      <3>1. CASE k.type = "terminal"
        <4>1. k.stack # <<>>
          BY <1>1, <3>1 DEF ClientOK, StepOK
        <4>2. 1 \in DOMAIN k.stack /\ Head(k.stack) = k.stack[1]
          BY <1>1, <4>1, Popped
        <4>3. CallOK(k, 1)
          BY <1>1, <4>2 DEF ClientOK
        <4>. QED
          BY <2>2, <3>1, <4>2, <4>3 DEF CallOK
      <3>. QED
        BY <2>2, <3>1
    <2>4. /\ x = IdleClient \/ (x.run = k.run /\ x.used = k.used /\ ~x.fresh)
          /\ x.step \in {"idle", "ready", "running", "invocation_finished"}
      <3>1. CASE k.type = "terminal"
        <4>1. ~k.fresh
          BY <1>1, <3>1 DEF ClientOK, StepOK
        <4>. QED
          BY <1>1, <2>1, <3>1, <4>1, PoppedShape
      <3>2. CASE k.type # "terminal"
        BY <1>1, <2>1, <3>2, ClosedShape, IdleOK
      <3>. QED
        BY <3>1, <3>2
    <2>5. Stores(k, x, n)
      BY <1>1, <1>3, <2>2, <2>3, <2>4 DEF Stores
    <2>6. n \in events'
      BY <1>3
    <2>. QED
      BY <2>1, <2>5, <2>6 DEF Moves, Kind
  <1>. QED
    BY <1>2, <1>3 DEF Insert

\* Closing, ending, dying.
LEMMA EndMoves ==
    ASSUME JInv, NEW c \in Clients,
           FinishAgentInvocation(c) \/ FinishRun(c) \/ Crash(c) \/ StoreFault(c)
    PROVE  Moves(c)
  <1>. DEFINE k == client[c]
              x == client'[c]
  <1>1. /\ UNCHANGED <<events, called>> /\ (Crowd \/ UNCHANGED crowded)
        /\ DOMAIN client = Clients /\ k \in Client
    BY DEF FinishAgentInvocation, FinishRun, Crash, StoreFault, JInv, ClientOK, StepOK
  <1>2. CASE client' = [client EXCEPT ![c] = IdleClient]
    BY <1>1, <1>2 DEF Moves, Kind, Ends
  <1>3. ASSUME NEW t, Write(c, t, k), Settled(k.run), Crowd, k.step # "idle"
        PROVE  Moves(c)
    <2>1. /\ DOMAIN client' = Clients /\ \A d \in Clients \ {c} : client'[d] = client[d]
          /\ x = [k EXCEPT !.step = "write", !.type = t]
      BY <1>1, <1>3 DEF Write
    <2>2. SameRun(k, x) /\ x.step = "write"
      BY <1>1, <2>1 DEF Client, SameRun
    <2>. QED
      BY <1>1, <1>3, <2>1, <2>2 DEF Moves, Kind, Closes
  <1>4. CASE FinishAgentInvocation(c)
    BY <1>2, <1>3, <1>4 DEF FinishAgentInvocation
  <1>5. CASE FinishRun(c)
    BY <1>2, <1>3, <1>5 DEF FinishRun
  <1>6. CASE Crash(c)
    BY <1>2, <1>6 DEF Crash
  <1>7. CASE StoreFault(c)
    BY <1>1, <1>7, FailedMoves DEF StoreFault
  <1>. QED
    BY <1>4, <1>5, <1>6, <1>7

\* Every step is of one of the kinds, for one command.
LEMMA NextMoves ==
    ASSUME JInv, Next
    PROVE  \E c \in Clients : Moves(c)
  BY OpenMoves, GateMoves, RecordMoves, CallMoves, InsertMoves, EndMoves DEF Next

----------------------------------------------------------------------------
(* One command at a time                                                   *)

\* A crowd is remembered, and a run gets a second command only in one.
LEMMA SoleStep ==
    ASSUME JInv, SoleOK, NEW c \in Clients, Moves(c)
    PROVE  SoleOK' /\ crowded \subseteq crowded'
  <1>. DEFINE k == client[c]
              x == client'[c]
  <1>1. CASE Crowd
    BY <1>1 DEF Crowd, SoleOK
  <1>2. CASE UNCHANGED crowded /\ (x = IdleClient \/ (x.run = k.run /\ x.fresh = k.fresh))
    BY <1>2, IdleOK, JournalAssumption DEF Moves, SoleOK
  <1>. QED
    BY <1>1, <1>2 DEF Moves, Kind, Opens, Stores, Records, Ends, Gates, Closes, Goes, SameRun

\* What is settled stays settled while nothing is written for the run.
LEMMA SettledKept ==
    \A r : Settled(r) /\ (\A e \in events' : e \in events \/ e.run # r) /\ events \subseteq events'
               => Settled(r)'
  <1>. SUFFICES ASSUME NEW r, Settled(r), events \subseteq events',
                       \A e \in events' : e \in events \/ e.run # r
                PROVE  Settled(r)'
    OBVIOUS
  <1>1. Of(r)' = Of(r)
    BY DEF Of
  <1>. QED
    BY <1>1 DEF Settled

\* What a lone command found settled when it decided to write is settled when it writes.
LEMMA SettledStep ==
    ASSUME JInv, SoleOK, SettledOK, NEW c \in Clients, Moves(c)
    PROVE  SettledOK'
  <1>. DEFINE k == client[c]
              x == client'[c]
  <1>1. crowded \subseteq crowded'
    BY SoleStep
  <1>2. /\ events \subseteq events'
        /\ \A e \in events' : e \in events \/ (e.run = k.run /\ k.step # "idle")
    BY DEF Moves, Kind, Opens, Stores, Records, Ends, Gates, Closes, Goes
  <1>. SUFFICES ASSUME NEW d \in Clients,
                       client'[d].step \in {"write", "insert"}, client'[d].type # "terminal",
                       client'[d].run \notin crowded'
                PROVE  Settled(client[d].run)'
    BY DEF SettledOK
  <1>3. CASE d # c
    <2>1. client'[d] = client[d] /\ Settled(client[d].run) /\ client[d].run \in Runs
      BY <1>1, <1>3 DEF Moves, SettledOK, JInv, ClientOK, StepOK
    <2>2. \A e \in events' : e \in events \/ e.run # client[d].run
      BY <1>1, <1>2, <1>3, <2>1 DEF SoleOK
    <2>3. client'[d].run = client[d].run
      BY <2>1
    <2>. QED
      BY <1>2, <2>1, <2>2, <2>3, SettledKept
  <1>4. CASE d = c
    <2>1. UNCHANGED events /\ Settled(x.run)
      <3>1. CASE Opens(k, x)
        <4>1. CASE Of(x.run) = {}
          BY <3>1, <4>1 DEF Opens, Settled, Intents
        <4>2. CASE Resumable(x.run)
          BY <3>1, <4>2 DEF Opens, Resumable
        <4>. QED
          BY <3>1, <4>1, <4>2 DEF Opens
      <3>2. CASE Closes(k, x)
        BY <3>2 DEF Closes, SameRun
      <3>3. CASE Goes(k, x)
        <4>1. k.step = "write" /\ x.type = k.type /\ x.run = k.run /\ UNCHANGED events
          BY <1>4, <3>3 DEF Goes, SameRun
        <4>. QED
          BY <1>1, <1>4, <4>1 DEF SettledOK
      <3>4. CASE Ends(x) \/ Gates(k, x) \/ \E n \in events' : Stores(k, x, n) \/ Records(k, x, n)
        BY <1>4, <3>4, IdleOK DEF Ends, Gates, Stores, Records
      <3>. QED
        BY <3>1, <3>2, <3>3, <3>4 DEF Moves, Kind
    <2>. QED
      BY <1>4, <2>1 DEF Settled, Of, Intents, Terminals
  <1>. QED
    BY <1>3, <1>4

\* A client that does nothing starts nothing, and one past its start has its run's start in
\* the journal.
LEMMA BusyOK ==
    ASSUME JInv
    PROVE  /\ \A c \in Clients : client[c].fresh \/ client[c].step = "gate" => Busy(c)
           /\ \A c \in Clients : Busy(c) /\ ~client[c].fresh =>
                  \E s \in events : s.type = "agent_started" /\ s.run = client[c].run
           /\ FirstAttempt => events = {}
           /\ \A c \in Clients : client[c].step = "gate" => ~client[c].fresh
  BY DEF JInv, ClientOK, StepOK, Busy, FirstAttempt, EventsOK

\* The Worker's flag is for one call.
LEMMA WorkerIsSingle == "worker" \in Labels => Op("worker").single
  <1>1. \A o \in Operations : o.label = "worker" => o.single
    BY DEF Operations, Propose, JournaledModelChannel, LocalModelPreflight,
         SnapshotPinDecision, ExecutionAuthorization, ControlledStep, SnapshotSource,
         StageOperation, VerifierCall, SandboxRun, SandboxLifecycle, MockPublication,
         PublicationDispatch
  <1>. QED
    BY <1>1, OpOfLabel

\* The mock publication has an id that its run fixes.
LEMMA MockIsOnce == "mock" \in Labels => Op("mock").once
  <1>1. \A o \in Operations : o.label = "mock" => o.once
    BY DEF Operations, Propose, JournaledModelChannel, LocalModelPreflight,
         SnapshotPinDecision, ExecutionAuthorization, ControlledStep, SnapshotSource,
         StageOperation, VerifierCall, SandboxRun, SandboxLifecycle, MockPublication,
         PublicationDispatch
  <1>. QED
    BY <1>1, OpOfLabel

\* A start or a resumption that crowds nothing finds no other command.
LEMMA AttemptOpens ==
    ASSUME JInv, JInv', AttemptOK, NEW c \in Clients, Moves(c), Opens(client[c], client'[c]),
           crowded' = {}
    PROVE  AttemptOK'
  <1>. DEFINE k == client[c]
              x == client'[c]
  <1>1. UNCHANGED events /\ Crowd /\ x.step = "write" /\ x.run \in Runs
    BY DEF Opens
  <1>2. \A d \in Clients \ {c} : client'[d] = client[d]
    BY DEF Moves
  <1>3. \A d \in Clients \ {c} : ~(client'[d].run = x.run) /\ ~(client'[d].fresh /\ x.fresh)
    BY <1>1 DEF Crowd
  <1>4. \A d \in Clients \ {c} : ~Busy(d)
    <2>. SUFFICES ASSUME NEW d \in Clients \ {c}, Busy(d) PROVE FALSE
      OBVIOUS
    <2>1. CASE FirstAttempt /\ x.fresh
      BY <1>2, <1>3, <2>1, BusyOK
    <2>2. CASE Resumable(x.run)
      <3>1. \E e \in events : e.run = x.run
        BY <2>2 DEF Resumable, Of
      <3>2. ~client[d].fresh
        BY <3>1 DEF AttemptOK
      <3>3. client[d].run = x.run
        BY <3>1, <3>2, BusyOK DEF AttemptOK
      <3>. QED
        BY <1>2, <1>3, <3>3
    <2>. QED
      BY <2>1, <2>2 DEF Opens
  <1>5. \A d \in Clients \ {c} : ~Busy(d)' /\ ~client'[d].fresh /\ client'[d].step # "gate"
    BY <1>2, <1>4, BusyOK DEF Busy
  <1>6. x.fresh => events = {}
    <2>1. x.fresh => FirstAttempt
      BY DEF Opens
    <2>. QED
      BY <2>1, BusyOK
  <1>7. WorkerStarted => "worker" \in x.used
    <2>. SUFFICES ASSUME WorkerStarted PROVE "worker" \in x.used
      OBVIOUS
    <2>1. PICK e \in events : e.label = "worker"
      BY DEF WorkerStarted
    <2>2. "worker" \in Labels
      BY <2>1 DEF JInv, EventsOK, Event
    <2>3. ~x.fresh
      BY <1>6, <2>1
    <2>4. Resumable(x.run) /\ x.used = Restored(x.run)
      BY <2>3 DEF Opens
    <2>5. e \in Of(x.run)
      <3>1. \E f \in events : f.run = x.run
        BY <2>4 DEF Resumable, Of
      <3>. QED
        BY <3>1 DEF AttemptOK, Of
    <2>. QED
      BY <2>1, <2>2, <2>4, <2>5, WorkerIsSingle DEF Restored
  <1>. QED
    BY <1>1, <1>5, <1>6, <1>7 DEF AttemptOK, Busy, WorkerStarted, Intents

\* The one command goes on.
LEMMA AttemptGoes ==
    ASSUME JInv, JInv', AttemptOK, NEW c \in Clients, Moves(c), client[c].step # "idle"
    PROVE  AttemptOK'
  <1>. DEFINE k == client[c]
              x == client'[c]
  <1>1. Busy(c) /\ \A d \in Clients \ {c} : client'[d] = client[d] /\ ~Busy(d)
    BY DEF Moves, AttemptOK, Busy
  <1>2. \A d \in Clients \ {c} : ~Busy(d)' /\ ~client'[d].fresh /\ client'[d].step # "gate"
    BY <1>1, BusyOK DEF Busy
  <1>3. ASSUME \A d, e \in events' : d.run = e.run, x.fresh => events' = {},
               x.step # "idle" /\ WorkerStarted' => "worker" \in x.used,
               x.step = "gate" /\ x.label = "worker" => ~WorkerStarted' /\ "worker" \in x.used,
               \A d, e \in Intents(events') : d.label = "worker" /\ e.label = "worker" => d = e
        PROVE  AttemptOK'
    BY <1>2, <1>3 DEF AttemptOK, Busy, Intents
  <1>4. ASSUME NEW n, events' = events \cup {n}, n.run = k.run
        PROVE  \A d, e \in events' : d.run = e.run
    <2>1. \A e \in events : e.run = k.run
      BY <1>1, BusyOK DEF AttemptOK
    <2>. QED
      BY <1>4, <2>1
  <1>5. CASE \E n \in events' : Stores(k, x, n)
    <2>1. PICK n \in events' : Stores(k, x, n)
      BY <1>5
    <2>2. \A d, e \in events' : d.run = e.run
      BY <1>4, <2>1 DEF Stores
    <2>3. ~x.fresh /\ x.step # "gate"
      BY <2>1, IdleOK DEF Stores
    <2>4. WorkerStarted' => WorkerStarted
      BY <2>1 DEF Stores, WorkerStarted, Intents
    <2>5. x.step # "idle" => x.used = k.used
      BY <2>1, IdleOK DEF Stores
    <2>6. n.type # "intent"
      BY <2>1 DEF Stores, JInv, ClientOK, StepOK, Client
    <2>7. Intents(events') = Intents(events)
      BY <2>1, <2>6 DEF Stores, Intents
    <2>8. \A d, e \in Intents(events') : d.label = "worker" /\ e.label = "worker" => d = e
      BY <2>7 DEF AttemptOK
    <2>. QED
      BY <1>1, <1>3, <2>2, <2>3, <2>4, <2>5, <2>8 DEF AttemptOK
  <1>6. CASE \E n \in events' : Records(k, x, n)
    <2>1. PICK n \in events' : Records(k, x, n)
      BY <1>6
    <2>2. \A d, e \in events' : d.run = e.run
      BY <1>4, <2>1 DEF Records
    <2>3. ~x.fresh /\ x.step = "dispatch"
      BY <2>1, BusyOK DEF Records, SameRun
    <2>4. k.step = "gate" /\ x.used = k.used /\ n.label = k.label
      BY <2>1 DEF Records, SameRun
    <2>5. WorkerStarted' => "worker" \in x.used
      <3>1. CASE k.label = "worker"
        BY <2>4, <3>1 DEF AttemptOK
      <3>2. CASE k.label # "worker"
        BY <1>1, <2>1, <2>4, <3>2 DEF AttemptOK, Records, WorkerStarted
      <3>. QED
        BY <3>1, <3>2
    <2>6. \A d, e \in Intents(events') : d.label = "worker" /\ e.label = "worker" => d = e
      <3>1. n.label = "worker" => \A d \in events : d.label # "worker"
        BY <2>4 DEF AttemptOK, WorkerStarted
      <3>2. \A d \in Intents(events') : d \in Intents(events) \/ d = n
        BY <2>1 DEF Records, Intents
      <3>. QED
        BY <3>1, <3>2 DEF AttemptOK, Intents
    <2>. QED
      BY <1>3, <2>2, <2>3, <2>5, <2>6
  <1>7. CASE Gates(k, x)
    <2>1. /\ UNCHANGED events /\ x.step = "gate" /\ x.label \in Labels /\ x.label \notin k.used
          /\ x.fresh = k.fresh
          /\ x.used = IF Op(x.label).single THEN k.used \cup {x.label} ELSE k.used
      BY <1>7 DEF Gates
    <2>2. WorkerStarted' <=> WorkerStarted
      BY <2>1 DEF WorkerStarted
    <2>3. x.label = "worker" => ~WorkerStarted /\ "worker" \in x.used
      BY <1>1, <2>1, WorkerIsSingle DEF AttemptOK
    <2>4. WorkerStarted => "worker" \in x.used
      BY <1>1, <2>1 DEF AttemptOK
    <2>. QED
      BY <1>3, <2>1, <2>2, <2>3, <2>4 DEF AttemptOK, Intents
  <1>8. CASE Ends(x)
    BY <1>3, <1>8, IdleOK DEF Ends, AttemptOK, Intents
  <1>9. CASE Closes(k, x) \/ Goes(k, x)
    <2>1. UNCHANGED events /\ x.step # "gate" /\ x.fresh = k.fresh /\ x.used = k.used
      BY <1>9 DEF Closes, Goes, SameRun
    <2>2. WorkerStarted' <=> WorkerStarted
      BY <2>1 DEF WorkerStarted
    <2>. QED
      BY <1>1, <1>3, <2>1, <2>2 DEF AttemptOK, Intents
  <1>. QED
    BY <1>5, <1>6, <1>7, <1>8, <1>9 DEF Moves, Kind, Opens

\* A step of whatever command keeps the one attempt one.
LEMMA AttemptStep ==
    ASSUME JInv, JInv', SoleOK, crowded = {} => AttemptOK, NEW c \in Clients, Moves(c)
    PROVE  crowded' = {} => AttemptOK'
  <1>. SUFFICES ASSUME crowded' = {} PROVE AttemptOK'
    OBVIOUS
  <1>1. AttemptOK
    BY SoleStep
  <1>2. CASE client[c].step # "idle"
    BY <1>1, <1>2, AttemptGoes
  <1>3. CASE Opens(client[c], client'[c])
    BY <1>1, <1>3, AttemptOpens
  <1>4. CASE Ends(client'[c]) /\ client[c].step = "idle"
    <2>1. UNCHANGED events /\ client'[c].step = "idle" /\ ~client'[c].fresh
      BY <1>4, IdleOK DEF Ends
    <2>2. \A d \in Clients \ {c} : client'[d] = client[d]
      BY DEF Moves
    <2>. QED
      BY <1>1, <2>1, <2>2 DEF AttemptOK, Busy, WorkerStarted, Intents
  <1>. QED
    BY <1>2, <1>3, <1>4 DEF Moves, Kind, Gates, Closes, Goes, Stores, Records

\* No command holds a run when the journal is empty.
LEMMA HoldersInit == Init => HInv
  <1>. SUFFICES ASSUME Init PROVE HInv
    OBVIOUS
  <1>1. \A c \in Clients : client[c] = IdleClient
    BY DEF Init
  <1>. QED
    BY <1>1, IdleOK, JournalAssumption
       DEF Init, HInv, SoleOK, SettledOK, AttemptOK, Busy, WorkerStarted, Intents

\* A step is one command's, and keeps what holds of the runs.
LEMMA HoldersStep == JInv /\ JInv' /\ HInv /\ [Next]_vars => HInv'
  <1>. SUFFICES ASSUME JInv, JInv', HInv, [Next]_vars PROVE HInv'
    OBVIOUS
  <1>1. CASE UNCHANGED vars
    <2>1. SoleOK' /\ SettledOK'
      BY <1>1 DEF vars, HInv, SoleOK, SettledOK, Settled, Of, Intents, Terminals
    <2>2. crowded' = {} => AttemptOK'
      BY <1>1 DEF vars, HInv, AttemptOK, Busy, WorkerStarted, Intents
    <2>. QED
      BY <2>1, <2>2 DEF HInv
  <1>2. CASE Next
    <2>1. PICK c \in Clients : Moves(c)
      BY <1>2, NextMoves
    <2>. QED
      BY <2>1, SoleStep, SettledStep, AttemptStep DEF HInv
  <1>. QED
    BY <1>1, <1>2

\* Two commands with one run crowd it, a lone command's write is about what is settled, and
\* without a crowd the task has one attempt.
THEOREM HolderInvariance == Spec => []HInv
  BY JournalInvariance, HoldersInit, HoldersStep, PTL DEF Spec

\* A set whose members are equal has at most one.
LEMMA AtMostOne ==
    ASSUME NEW S, \A x, y \in S : x = y
    PROVE  Cardinality(S) <= 1
  <1>1. CASE S = {}
    BY <1>1, FS_EmptySet
  <1>2. ASSUME NEW x \in S PROVE Cardinality(S) <= 1
    <2>1. S = {x}
      BY <1>2
    <2>. QED
      BY <2>1, FS_Singleton
  <1>. QED
    BY <1>1, <1>2

\* Calls with one intent are one call.
LEMMA CallsOfIntents ==
    ASSUME JInv, NEW j \in called, NEW k \in called, j.label = k.label,
           \A d, e \in Intents(events) :
               d.run = j.run /\ e.run = k.run /\ d.label = j.label /\ e.label = j.label => d = e
    PROVE  j = k
  <1>1. PICK d \in Intents(events) : d.run = j.run /\ d.label = j.label /\ d.inv = j.inv
    BY DEF JInv, EffectsAreJournaled
  <1>2. PICK e \in Intents(events) : e.run = k.run /\ e.label = k.label /\ e.inv = k.inv
    BY DEF JInv, EffectsAreJournaled
  <1>3. d = e
    BY <1>1, <1>2
  <1>4. j.run = k.run /\ j.label = k.label /\ j.inv = k.inv
    BY <1>1, <1>2, <1>3
  <1>5. {j, k} \subseteq [run : Runs, label : Labels, inv : Nat]
    BY DEF JInv
  <1>. QED
    BY <1>4, <1>5

\* A run publishes to the local mock at most once, whoever resumes it, and the Worker is called
\* at most once for the task unless commands start or resume at one moment
\* (RunJournal.CalledAtMostOnce).
THEOREM CalledAtMostOnceHolds == Spec => []CalledAtMostOnce
  <1>1. JInv /\ HInv => CalledAtMostOnce
    <2>. SUFFICES ASSUME JInv, HInv PROVE CalledAtMostOnce
      OBVIOUS
    <2>1. ASSUME NEW r \in Runs
          PROVE  Cardinality({k \in called : k.run = r /\ k.label = "mock"}) <= 1
      <3>1. ASSUME NEW j \in called, NEW k \in called, j.run = r, k.run = r,
                   j.label = "mock", k.label = "mock"
            PROVE  j = k
        <4>1. "mock" \in Labels
          BY <3>1 DEF JInv
        <4>. QED
          BY <3>1, <4>1, CallsOfIntents, MockIsOnce DEF JInv, OnceOK
      <3>. QED
        BY <3>1, AtMostOne
    <2>2. ASSUME crowded = {}
          PROVE  Cardinality({k \in called : k.label = "worker"}) <= 1
      <3>1. ASSUME NEW j \in called, NEW k \in called, j.label = "worker", k.label = "worker"
            PROVE  j = k
        BY <2>2, <3>1, CallsOfIntents DEF HInv, AttemptOK
      <3>. QED
        BY <3>1, AtMostOne
    <2>. QED
      BY <2>1, <2>2 DEF CalledAtMostOnce
  <1>. QED
    BY <1>1, JournalInvariance, HolderInvariance, PTL

\* resume_existing, finish_agent_invocation and finish_run (RunJournal.UncertaintyIsFinal): what
\* a lone command stores of a start or an end is stored for a run whose calls all have one
\* terminal and no unknown outcome.
THEOREM UncertaintyIsFinalHolds == Spec => UncertaintyIsFinal
  <1>. DEFINE Judged == \A e \in events' \ events :
                (e.type \in {"agent_started", "agent_finished", "run_finished"} /\ e.run \notin crowded)
                    => Settled(e.run)
  <1>1. JInv /\ HInv /\ [Next]_vars => [Judged]_vars
    <2>. SUFFICES ASSUME JInv, HInv, Next, NEW e \in events' \ events, e.run \notin crowded,
                         e.type \in {"agent_started", "agent_finished", "run_finished"}
                  PROVE  Settled(e.run)
      OBVIOUS
    <2>1. PICK c \in Clients : Moves(c)
      BY NextMoves
    <2>2. PICK n \in events' : \/ Stores(client[c], client'[c], n)
                               \/ Records(client[c], client'[c], n)
      BY <2>1 DEF Moves, Kind, Opens, Ends, Gates, Closes, Goes
    <2>3. e = n
      BY <2>2 DEF Stores, Records
    <2>4. client[c].step = "insert" /\ e.run = client[c].run /\ client[c].type = e.type
      BY <2>2, <2>3 DEF Stores, Records
    <2>. QED
      BY <2>4 DEF HInv, SettledOK
  <1>. QED
    BY <1>1, JournalInvariance, HolderInvariance, PTL DEF Spec, UncertaintyIsFinal

=============================================================================
