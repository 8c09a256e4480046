------------------------- MODULE OrchestratorProofs -------------------------
(***************************************************************************)
(* Proofs about Orchestrator, for all tasks, agents and dispatchers, any   *)
(* chart of agent types and every bound: where tasks are, how often they   *)
(* are tried, what the status table says and who is woken.                 *)
(***************************************************************************)
EXTENDS Orchestrator, Facts

-----------------------------------------------------------------------------
(* What a queue holds.                                                     *)

\* The recursion that Keep describes has a solution.
Kept(q, S, g) ==
    g = [i \in 0..Len(q) |->
            IF i = 0 THEN <<>>
            ELSE IF q[i] \in S THEN Append(g[i - 1], q[i]) ELSE g[i - 1]]

LEMMA KeptExists ==
    ASSUME NEW X, NEW q \in Seq(X), NEW S
    PROVE  \E g : Kept(q, S, g)
<1> DEFINE NextKept(g, i) ==
        IF i = 0 THEN <<>>
        ELSE IF q[i] \in S THEN Append(g[i - 1], q[i]) ELSE g[i - 1]
<1> DEFINE N == {n \in Nat : \E g : g = [i \in 0..n |-> NextKept(g, i)]}
<1>1. 0 \in N
    <2> DEFINE g == [i \in 0..0 |-> <<>>]
    <2>1. g = [i \in 0..0 |-> NextKept(g, i)]
        OBVIOUS
    <2> QED
        BY <2>1
<1>2. ASSUME NEW n \in Nat, n \in N
      PROVE  n + 1 \in N
    <2>1. PICK g : g = [i \in 0..n |-> NextKept(g, i)]
        BY <1>2
    <2> DEFINE h == [i \in 0..n + 1 |-> IF i <= n THEN g[i] ELSE NextKept(g, n + 1)]
    <2>2. ASSUME NEW i \in 0..n + 1
          PROVE  h[i] = NextKept(h, i)
        <3>1. CASE i = 0
            BY <2>1, <3>1
        <3>2. CASE i # 0 /\ i <= n
            <4>1. i - 1 \in 0..n + 1 /\ i - 1 <= n /\ i \in 0..n
                BY <3>2
            <4>2. h[i] = g[i] /\ h[i - 1] = g[i - 1]
                BY <3>2, <4>1
            <4>3. g[i] = NextKept(g, i)
                BY <2>1, <4>1
            <4> QED
                BY <4>2, <4>3
        <3>3. CASE i = n + 1
            <4>1. n \in 0..n + 1 /\ i - 1 = n
                BY <3>3
            <4>2. h[i] = NextKept(g, i) /\ h[i - 1] = g[i - 1]
                BY <3>3, <4>1
            <4> QED
                BY <4>2
        <3> QED
            BY <3>1, <3>2, <3>3
    <2>3. h = [i \in 0..n + 1 |-> NextKept(h, i)]
        BY <2>2
    <2> HIDE DEF h
    <2> QED
        BY <2>3, SMTT(30)
<1> HIDE DEF N
<1>3. Len(q) \in N
    BY <1>1, <1>2, Induct
<1> QED
    BY <1>3 DEF N, Kept

LEMMA KeepIs ==
    ASSUME NEW X, NEW q \in Seq(X), NEW S
    PROVE  \E g : Kept(q, S, g) /\ Keep(q, S) = g[Len(q)]
<1> DEFINE kept == CHOOSE g : Kept(q, S, g)
<1>1. Kept(q, S, kept)
    BY KeptExists
<1>2. Keep(q, S) = kept[Len(q)]
    BY DEF Keep, Kept
<1> QED
    BY <1>1, <1>2

\* Keep, by the last element.
LEMMA KeepAppend ==
    ASSUME NEW X, NEW q \in Seq(X), NEW x \in X, NEW S
    PROVE  Keep(Append(q, x), S) =
                IF x \in S THEN Append(Keep(q, S), x) ELSE Keep(q, S)
<1> DEFINE r == Append(q, x)
<1>1. /\ r \in Seq(X) /\ Len(r) = Len(q) + 1 /\ r[Len(q) + 1] = x
      /\ \A i \in 1..Len(q) : r[i] = q[i]
    BY AppendProperties
<1>2. PICK g : Kept(q, S, g) /\ Keep(q, S) = g[Len(q)]
    BY KeepIs
<1> HIDE DEF r
<1>3. PICK h : Kept(r, S, h) /\ Keep(r, S) = h[Len(r)]
    BY <1>1, KeepIs
<1> DEFINE N == {n \in Nat : n <= Len(q) => g[n] = h[n]}
<1>4. Len(q) \in Nat
    OBVIOUS
<1>5. 0 \in N
    BY <1>1, <1>2, <1>3, <1>4 DEF Kept
<1>6. ASSUME NEW n \in Nat, n \in N
      PROVE  n + 1 \in N
    <2>1. SUFFICES ASSUME n + 1 <= Len(q)
                   PROVE  g[n + 1] = h[n + 1]
        OBVIOUS
    <2>2. g[n] = h[n] /\ q[n + 1] = r[n + 1]
        BY <1>1, <1>4, <1>6, <2>1
    <2>3. n + 1 \in 0..Len(q) /\ n + 1 \in 0..Len(r) /\ n + 1 # 0 /\ (n + 1) - 1 = n
        BY <1>1, <1>4, <2>1
    <2>4. g[n + 1] = IF q[n + 1] \in S THEN Append(g[n], q[n + 1]) ELSE g[n]
        BY <1>2, <2>3 DEF Kept
    <2>5. h[n + 1] = IF r[n + 1] \in S THEN Append(h[n], r[n + 1]) ELSE h[n]
        BY <1>3, <2>3 DEF Kept
    <2> QED
        BY <2>2, <2>4, <2>5
<1>7. g[Len(q)] = h[Len(q)]
    <2> HIDE DEF N
    <2>1. Len(q) \in N
        BY <1>4, <1>5, <1>6, Induct
    <2> QED
        BY <1>4, <2>1 DEF N
<1>8. Len(r) \in 0..Len(r) /\ Len(r) # 0 /\ Len(r) - 1 = Len(q)
    BY <1>1, <1>4
<1>9. h[Len(r)] = IF r[Len(r)] \in S THEN Append(h[Len(q)], r[Len(r)]) ELSE h[Len(q)]
    BY <1>3, <1>8 DEF Kept
<1>10. Keep(r, S) = IF x \in S THEN Append(Keep(q, S), x) ELSE Keep(q, S)
    BY <1>1, <1>2, <1>3, <1>7, <1>9
<1> QED
    BY <1>10 DEF r

LEMMA KeepEmpty == \A S : Keep(<<>>, S) = <<>>
<1> SUFFICES ASSUME NEW S
             PROVE  Keep(<<>>, S) = <<>>
    OBVIOUS
<1>1. <<>> \in Seq({}) /\ Len(<<>>) = 0
    BY EmptySeq
<1>2. PICK g : Kept(<<>>, S, g) /\ Keep(<<>>, S) = g[Len(<<>>)]
    BY <1>1, KeepIs
<1> QED
    BY <1>1, <1>2 DEF Kept

\* It is a sequence of elements of q that are in S.
LEMMA KeepType ==
    ASSUME NEW X, NEW S
    PROVE  \A q \in Seq(X) : Keep(q, S) \in Seq(X \cap S)
<1> DEFINE F == {q \in Seq(X) : Keep(q, S) \in Seq(X \cap S)}
<1>1. <<>> \in F
    BY KeepEmpty, EmptySeq
<1>2. ASSUME NEW q \in Seq(X), NEW x \in X, q \in F
      PROVE  Append(q, x) \in F
    <2>1. Keep(Append(q, x), S) = IF x \in S THEN Append(Keep(q, S), x) ELSE Keep(q, S)
        BY KeepAppend
    <2>2. Keep(q, S) \in Seq(X \cap S)
        BY <1>2
    <2>3. x \in S => Append(Keep(q, S), x) \in Seq(X \cap S)
        BY <2>2, AppendProperties
    <2> QED
        BY <2>1, <2>2, <2>3, AppendProperties
<1> HIDE DEF F
<1>3. Seq(X) \subseteq F
    BY <1>1, <1>2, SeqInduct
<1> QED
    BY <1>3 DEF F

\* How often t occurs.
LEMMA OccurrencesEmpty == \A t : Occurrences(<<>>, t) = 0
<1> SUFFICES ASSUME NEW t
             PROVE  Occurrences(<<>>, t) = 0
    OBVIOUS
<1>1. {i \in DOMAIN <<>> : <<>>[i] = t} = {}
    OBVIOUS
<1> QED
    BY <1>1, FS_EmptySet DEF Occurrences

LEMMA OccurrencesAppend ==
    ASSUME NEW X, NEW q \in Seq(X), NEW x \in X, NEW t
    PROVE  /\ Occurrences(q, t) \in Nat
           /\ Occurrences(Append(q, x), t) = Occurrences(q, t) + (IF x = t THEN 1 ELSE 0)
<1> DEFINE r == Append(q, x)
           I == {i \in DOMAIN q : q[i] = t}
           J == {i \in DOMAIN r : r[i] = t}
<1>1. /\ r \in Seq(X) /\ DOMAIN q = 1..Len(q) /\ DOMAIN r = 1..Len(q) + 1
      /\ r[Len(q) + 1] = x /\ \A i \in 1..Len(q) : r[i] = q[i]
      /\ Len(q) \in Nat
    BY AppendProperties
<1>2. IsFiniteSet(1..Len(q))
    BY FS_Interval
<1>3. IsFiniteSet(I) /\ Cardinality(I) \in Nat
    BY <1>1, <1>2, FS_Subset, FS_CardinalityType
<1> HIDE DEF r
<1>4. CASE x = t
    <2>1. J = I \cup {Len(q) + 1} /\ Len(q) + 1 \notin I
        BY <1>1, <1>4
    <2>2. Cardinality(J) = Cardinality(I) + 1
        BY <1>3, <2>1, FS_AddElement
    <2> QED
        BY <1>3, <1>4, <2>2 DEF Occurrences, r
<1>5. CASE x # t
    <2>1. J = I
        BY <1>1, <1>5
    <2> HIDE DEF I, J
    <2>2. Cardinality(J) = Cardinality(I) + 0
        BY <1>3, <2>1
    <2> QED
        BY <1>3, <1>5, <2>2 DEF Occurrences, r, I, J
<1> QED
    BY <1>4, <1>5

LEMMA OccurrencesType ==
    ASSUME NEW X, NEW q \in Seq(X), NEW t
    PROVE  Occurrences(q, t) \in Nat
<1>1. CASE q = <<>>
    BY <1>1, OccurrencesEmpty
<1>2. CASE q # <<>>
    BY <1>2, OccurrencesAppend, SequenceEmptyOrAppend
<1> QED
    BY <1>1, <1>2

LEMMA OccurrencesConcat ==
    ASSUME NEW X, NEW q \in Seq(X), NEW t
    PROVE  \A r \in Seq(X) : Occurrences(q \o r, t) = Occurrences(q, t) + Occurrences(r, t)
<1> DEFINE F == {r \in Seq(X) : Occurrences(q \o r, t) = Occurrences(q, t) + Occurrences(r, t)}
<1>1. <<>> \in F
    <2>1. q \o <<>> = q /\ Occurrences(q, t) \in Nat
        BY ConcatEmptySeq, OccurrencesType
    <2> QED
        BY <2>1, OccurrencesEmpty, EmptySeq
<1>2. ASSUME NEW r \in Seq(X), NEW x \in X, r \in F
      PROVE  Append(r, x) \in F
    <2>1. q \o Append(r, x) = Append(q \o r, x)
        BY AppendIsConcat, ConcatAssociative, ConcatProperties, IsASeq
    <2>2. q \o r \in Seq(X)
        BY ConcatProperties
    <2> DEFINE one == IF x = t THEN 1 ELSE 0
    <2>3. Occurrences(q \o Append(r, x), t) = Occurrences(q \o r, t) + one
        <3> DEFINE s == q \o r
        <3>1. s \in Seq(X)
            BY <2>2
        <3> HIDE DEF s
        <3>2. Occurrences(Append(s, x), t) = Occurrences(s, t) + one
            BY <3>1, OccurrencesAppend
        <3> QED
            BY <2>1, <3>2 DEF s
    <2>4. Occurrences(Append(r, x), t) = Occurrences(r, t) + one
        BY OccurrencesAppend
    <2>5. Occurrences(q, t) \in Nat /\ Occurrences(r, t) \in Nat /\ one \in Nat
        BY OccurrencesType
    <2>6. Occurrences(q \o r, t) = Occurrences(q, t) + Occurrences(r, t)
        BY <1>2
    <2> HIDE DEF one
    <2>7. Occurrences(q \o Append(r, x), t) = Occurrences(q, t) + Occurrences(Append(r, x), t)
        BY <2>3, <2>4, <2>5, <2>6
    <2> QED
        BY <2>7, AppendProperties
<1> HIDE DEF F
<1>3. Seq(X) \subseteq F
    BY <1>1, <1>2, SeqInduct
<1> QED
    BY <1>3 DEF F

LEMMA OccurrencesOne ==
    ASSUME NEW x, NEW t
    PROVE  Occurrences(<<x>>, t) = IF x = t THEN 1 ELSE 0
<1>1. {i \in DOMAIN <<x>> : <<x>>[i] = t} = IF x = t THEN {1} ELSE {}
    OBVIOUS
<1> QED
    BY <1>1, FS_EmptySet, FS_Singleton DEF Occurrences

LEMMA OccurrencesFront ==
    ASSUME NEW X, NEW q \in Seq(X), NEW x \in X, NEW t
    PROVE  /\ <<x>> \o q \in Seq(X)
           /\ Occurrences(<<x>> \o q, t) = (IF x = t THEN 1 ELSE 0) + Occurrences(q, t)
<1> DEFINE s == <<x>>
<1>1. s \in Seq(X)
    OBVIOUS
<1>2. Occurrences(s, t) = IF x = t THEN 1 ELSE 0
    BY OccurrencesOne
<1> HIDE DEF s
<1>3. s \o q \in Seq(X) /\ Occurrences(s \o q, t) = Occurrences(s, t) + Occurrences(q, t)
    BY <1>1, OccurrencesConcat, ConcatProperties
<1> QED
    BY <1>2, <1>3 DEF s

LEMMA OccurrencesTail ==
    ASSUME NEW X, NEW q \in Seq(X), q # <<>>, NEW t
    PROVE  /\ Head(q) \in X /\ Tail(q) \in Seq(X)
           /\ Occurrences(q, t) =
                (IF Head(q) = t THEN 1 ELSE 0) + Occurrences(Tail(q), t)
<1>1. Head(q) \in X /\ Tail(q) \in Seq(X) /\ q = <<Head(q)>> \o Tail(q)
    BY HeadTailProperties, ConcatProperties
<1>2. ASSUME NEW x \in X, NEW r \in Seq(X)
      PROVE  Occurrences(<<x>> \o r, t) = (IF x = t THEN 1 ELSE 0) + Occurrences(r, t)
    BY OccurrencesFront
<1> QED
    BY <1>1, <1>2

LEMMA OccurrencesKeep ==
    ASSUME NEW X, NEW S, NEW t
    PROVE  \A q \in Seq(X) :
                Occurrences(Keep(q, S), t) = IF t \in S THEN Occurrences(q, t) ELSE 0
<1> DEFINE F == {q \in Seq(X) :
                Occurrences(Keep(q, S), t) = IF t \in S THEN Occurrences(q, t) ELSE 0}
<1>1. <<>> \in F
    BY KeepEmpty, EmptySeq, OccurrencesEmpty
<1>2. ASSUME NEW q \in Seq(X), NEW x \in X, q \in F
      PROVE  Append(q, x) \in F
    <2>1. Keep(Append(q, x), S) = IF x \in S THEN Append(Keep(q, S), x) ELSE Keep(q, S)
        BY KeepAppend
    <2>2. Keep(q, S) \in Seq(X)
        <3>1. Keep(q, S) \in Seq(X \cap S)
            BY KeepType
        <3> QED
            BY <3>1, SeqMonotonic
    <2> DEFINE one == IF x = t THEN 1 ELSE 0
    <2>3. Occurrences(Append(Keep(q, S), x), t) = Occurrences(Keep(q, S), t) + one
        BY <2>2, OccurrencesAppend
    <2>4. Occurrences(Append(q, x), t) = Occurrences(q, t) + one
        BY OccurrencesAppend
    <2>5. Occurrences(q, t) \in Nat
        BY OccurrencesType
    <2>6. Occurrences(Keep(q, S), t) = IF t \in S THEN Occurrences(q, t) ELSE 0
        BY <1>2
    <2>7. Append(q, x) \in Seq(X)
        BY AppendProperties
    <2>8. Occurrences(Keep(Append(q, x), S), t) =
                IF t \in S THEN Occurrences(Append(q, x), t) ELSE 0
        BY <2>1, <2>3, <2>4, <2>5, <2>6
    <2> QED
        BY <2>7, <2>8
<1> HIDE DEF F
<1>3. Seq(X) \subseteq F
    BY <1>1, <1>2, SeqInduct
<1> QED
    BY <1>3 DEF F

-----------------------------------------------------------------------------
(* The inductive invariants.                                               *)

WithJob == {"prefer", "fallback", "scan", "put_back", "assign", "lookup", "process"}
WithAgent == {"assign", "lookup", "process", "persist", "report"}

\* A dispatcher has a task, and an agent, exactly at these positions.
Positions ==
    \A d \in Dispatchers :
        /\ job[d] \in Tasks <=> pc[d] \in WithJob
        /\ at[d] \in Agents <=> pc[d] \in WithAgent

\* A change of the registry is about an agent.
AdminNamed == admin.op # "none" => admin.agent \in Agents

Typed == TypeOK /\ Positions /\ AdminNamed

\* Tasks are queued, and whoever has not ended is about to wait or waits.
AllAsleep ==
    /\ faults = 0 /\ isRunning /\ queue # <<>>
    /\ \A d \in Dispatchers : pc[d] \in {"wait", "stopped", "notified"}
    /\ \E d \in Dispatchers : pc[d] # "stopped"

\* Then there is a permit, or a notification is on its way.
WakeupDue == AllAsleep => permit \/ pushing # {}

\* An agent that leaves the registry is remembered as removed, and one that
\* is being added is new.
Identities ==
    /\ Registered \subseteq agents \cup removed
    /\ \A d \in Dispatchers : at[d] \in Agents => at[d] \in agents \cup removed
    /\ admin.op \in {"adding", "added"} => admin.agent \notin Registered

\* The mutex of an agent lets one dispatcher in.
OneWorker ==
    \A d, e \in Dispatchers :
        pc[d] \in Working /\ pc[e] \in Working /\ at[d] = at[e] => d = e

\* A task in hand is in progress from the assignment to the outcome.
InProgress ==
    \A d \in Dispatchers : job[d] \in Tasks =>
        (job[d] \in inProgress <=> pc[d] \in {"lookup", "process"})

FinitelyHeld == \A t \in Tasks : IsFiniteSet(Holders(t))

Processing(t) == \E d \in Dispatchers : job[d] = t /\ pc[d] = "process"

\* An attempt at t has begun that has not led to a retry.
Spent(t) == Processing(t) \/ Occurrences(completed, t) > 0 \/ Occurrences(failed, t) > 0

AttemptsAt(t) ==
    /\ attempts[t] = retries[t] + (IF Spent(t) THEN 1 ELSE 0)
    /\ Occurrences(failed, t) > 0 => retries[t] = MAX_RETRIES

Attempts == \A t \in Tasks : AttemptsAt(t)

-----------------------------------------------------------------------------
(* Types.                                                                  *)

LEMMA KeepIn ==
    ASSUME NEW X, NEW q \in Seq(X), NEW S
    PROVE  Keep(q, S) \in Seq(X) /\ Keep(q, S) \in Seq(S)
<1>1. Keep(q, S) \in Seq(X \cap S)
    BY KeepType
<1> QED
    BY <1>1, SeqMonotonic

LEMMA SortType ==
    ASSUME NEW q \in Seq(Tasks)
    PROVE  ByPriority(q) \in Seq(Tasks)
<1>1. \A p : OfPrio(q, p) \in Seq(Tasks)
    BY KeepIn DEF OfPrio
<1> QED
    BY <1>1, ConcatProperties DEF ByPriority

\* The agent a dispatcher prefers is a registered one.
LEMMA PreferredIs ==
    ASSUME AgentsTyped, NEW t \in Tasks, Preferred(t) # <<>>
    PROVE  Head(Preferred(t)) \in agents /\ Head(Preferred(t)) \in Agents
<1>1. Wants[t] \in Types /\ byType[Wants[t]] \in Seq(Agents)
    BY OrchestratorAssumption DEF Preferred, AgentsTyped
<1>2. Preferred(t) \in Seq(Available)
    BY <1>1, KeepIn, OrchestratorAssumption DEF Preferred
<1>3. Head(Preferred(t)) \in Available
    BY <1>2, HeadTailProperties
<1> QED
    BY <1>3 DEF Available, AgentsTyped

LEMMA InitialTypes ==
    Registered \subseteq Agents /\ InitialByType \in [Types -> Seq(Agents)]
<1>1. Initial \in Seq(Agents)
    BY OrchestratorAssumption
<1>2. Registered \subseteq Agents
    BY <1>1, ElementOfSeq DEF Registered
<1>3. \A S : Keep(Initial, S) \in Seq(Agents)
    BY <1>1, KeepIn
<1> QED
    BY <1>2, <1>3 DEF InitialByType

LEMMA InitTyped == Init => Typed
<1>1. SUFFICES ASSUME Init
               PROVE  Typed
    OBVIOUS
<1>2. None \notin Tasks /\ None \notin Agents /\ MAX_RETRIES \in Nat /\ MaxFaults \in Nat
    BY OrchestratorAssumption
<1>3. TasksTyped
    BY <1>1, <1>2, EmptySeq DEF Init, TasksTyped
<1>4. AgentsTyped
    BY <1>1, InitialTypes DEF Init, AgentsTyped
<1>5. DispatchersTyped
    <2>1. isRunning \in BOOLEAN /\ permit \in BOOLEAN
        BY <1>1, Zenon DEF Init
    <2>2. faults \in 0..MaxFaults
        BY <1>1, <1>2 DEF Init
    <2>3. pc \in [Dispatchers -> Pcs]
        BY <1>1 DEF Init, Pcs
    <2>4. /\ job \in [Dispatchers -> Tasks \cup {None}]
          /\ at \in [Dispatchers -> Agents \cup {None}]
        BY <1>1 DEF Init
    <2> QED
        BY <2>1, <2>2, <2>3, <2>4 DEF DispatchersTyped
<1>6. Positions /\ AdminNamed
    BY <1>1, <1>2 DEF Init, Positions, AdminNamed, WithJob, WithAgent
<1> QED
    BY <1>3, <1>4, <1>5, <1>6 DEF Typed, TypeOK

\* What a dispatcher has at hand where it is.
LEMMA AtHand ==
    ASSUME Typed, NEW d \in Dispatchers
    PROVE  /\ job[d] \in Tasks \cup {None} /\ at[d] \in Agents \cup {None}
           /\ pc[d] \in WithJob => job[d] \in Tasks
           /\ pc[d] \notin WithJob => job[d] = None
           /\ pc[d] \in WithAgent => at[d] \in Agents
           /\ pc[d] \notin WithAgent => at[d] = None
           /\ pc[d] \in Pcs /\ pc = [pc EXCEPT ![d] = pc[d]]
           /\ job = [job EXCEPT ![d] = job[d]] /\ at = [at EXCEPT ![d] = at[d]]
           /\ None \notin Tasks /\ None \notin Agents
           /\ isRunning \in BOOLEAN /\ permit \in BOOLEAN /\ faults \in 0..MaxFaults
    BY OrchestratorAssumption DEF Typed, TypeOK, DispatchersTyped, Positions

\* Dispatcher d moves to a position, with the task and the agent it has there.
Moves(d, to, t, a) ==
    /\ pc' = [pc EXCEPT ![d] = to]
    /\ job' = [job EXCEPT ![d] = t] /\ at' = [at EXCEPT ![d] = a]

LEMMA MoveTyped ==
    ASSUME Typed, NEW d \in Dispatchers,
           NEW to \in Pcs, NEW t \in Tasks \cup {None}, NEW a \in Agents \cup {None},
           Moves(d, to, t, a),
           t \in Tasks <=> to \in WithJob, a \in Agents <=> to \in WithAgent,
           isRunning' \in BOOLEAN, permit' \in BOOLEAN, faults' \in 0..MaxFaults
    PROVE  DispatchersTyped' /\ Positions'
<1>1. DispatchersTyped'
    BY DEF Typed, TypeOK, DispatchersTyped, Moves
<1>2. ASSUME NEW e \in Dispatchers
      PROVE  /\ job'[e] \in Tasks <=> pc'[e] \in WithJob
             /\ at'[e] \in Agents <=> pc'[e] \in WithAgent
    <2>1. CASE e = d
        BY <2>1 DEF Typed, TypeOK, DispatchersTyped, Moves
    <2>2. CASE e # d
        BY <2>2 DEF Typed, TypeOK, DispatchersTyped, Positions, Moves
    <2> QED
        BY <2>1, <2>2
<1> QED
    BY <1>1, <1>2 DEF Positions

\* Where each step of a dispatcher starts and ends.
LEMMA StepMoves ==
    ASSUME Typed, NEW d \in Dispatchers
    PROVE  /\ Start(d) => pc[d] = "stopped" /\ Moves(d, "loop", None, None)
           /\ Loop(d) =>
                  /\ pc[d] = "loop"
                  /\ Moves(d, IF isRunning THEN "drain" ELSE "stopped", None, None)
           /\ Drain(d) =>
                  /\ pc[d] = "drain"
                  /\ Moves(d, IF queue = <<>> THEN "notified" ELSE "sort", None, None)
           /\ Notified(d) =>
                  /\ pc[d] = "notified"
                  /\ Moves(d, IF permit THEN "loop" ELSE "wait", None, None)
           /\ Sort(d) => pc[d] = "sort" /\ Moves(d, "pop", None, None)
           /\ Pop(d) => pc[d] = "pop" /\
                  \/ queue # <<>> /\ Moves(d, "prefer", Head(queue), None)
                  \/ queue = <<>> /\ Moves(d, "drain", None, None)
           /\ Prefer(d) => pc[d] = "prefer" /\
                  \/ \E a \in agents : a \in Agents /\ Free(a) /\ Moves(d, "assign", job[d], a)
                  \/ Moves(d, "fallback", job[d], None)
           /\ Fallback(d) => pc[d] = "fallback" /\ Moves(d, "scan", job[d], None)
           /\ Scan(d) => pc[d] = "scan" /\
                  \/ \E a \in agents : a \in Agents /\ Free(a) /\ Moves(d, "assign", job[d], a)
                  \/ Moves(d, "put_back", job[d], None)
           /\ PutBack(d) => pc[d] = "put_back" /\ Moves(d, "drain", None, None)
           /\ Assign(d) => pc[d] = "assign" /\ Moves(d, "lookup", job[d], at[d])
           /\ Lookup(d) => pc[d] = "lookup" /\ Moves(d, "process", job[d], at[d])
           /\ LookupFails(d) => pc[d] = "lookup" /\ Moves(d, "drain", None, None)
           /\ Complete(d) => pc[d] = "process" /\ Moves(d, "report", None, at[d])
           /\ Fail(d) =>
                  /\ pc[d] = "process"
                  /\ Moves(d, IF DeadLetters THEN "persist" ELSE "report", None, at[d])
           /\ Persist(d) => pc[d] = "persist" /\ Moves(d, "report", None, at[d])
           /\ PersistFails(d) => pc[d] = "persist" /\ Moves(d, "stopped", None, None)
           /\ Report(d) => pc[d] = "report" /\ Moves(d, "drain", None, None)
<1>1. Start(d) => pc[d] = "stopped" /\ Moves(d, "loop", None, None)
    BY AtHand DEF Start, Goto, Moves, WithJob, WithAgent
<1>2. Loop(d) =>
          /\ pc[d] = "loop"
          /\ Moves(d, IF isRunning THEN "drain" ELSE "stopped", None, None)
    BY AtHand DEF Loop, Goto, Moves, WithJob, WithAgent
<1>3. Drain(d) =>
          /\ pc[d] = "drain"
          /\ Moves(d, IF queue = <<>> THEN "notified" ELSE "sort", None, None)
    BY AtHand DEF Drain, Goto, Moves, WithJob, WithAgent
<1>4. Notified(d) =>
          pc[d] = "notified" /\ Moves(d, IF permit THEN "loop" ELSE "wait", None, None)
    BY AtHand DEF Notified, Goto, Moves, WithJob, WithAgent
<1>5. Sort(d) => pc[d] = "sort" /\ Moves(d, "pop", None, None)
    BY AtHand DEF Sort, Goto, Moves, WithJob, WithAgent
<1>6. Pop(d) => pc[d] = "pop" /\
          \/ queue # <<>> /\ Moves(d, "prefer", Head(queue), None)
          \/ queue = <<>> /\ Moves(d, "drain", None, None)
    BY AtHand DEF Pop, Goto, Moves, WithJob, WithAgent
<1>7. Prefer(d) => pc[d] = "prefer" /\
          \/ \E a \in agents : a \in Agents /\ Free(a) /\ Moves(d, "assign", job[d], a)
          \/ Moves(d, "fallback", job[d], None)
    BY AtHand, PreferredIs
    DEF Prefer, Choose, Goto, Moves, WithJob, WithAgent, Typed, TypeOK
<1>8. Fallback(d) => pc[d] = "fallback" /\ Moves(d, "scan", job[d], None)
    BY AtHand DEF Fallback, Goto, Moves, WithJob, WithAgent
<1>9. Scan(d) => pc[d] = "scan" /\
          \/ \E a \in agents : a \in Agents /\ Free(a) /\ Moves(d, "assign", job[d], a)
          \/ Moves(d, "put_back", job[d], None)
    BY AtHand
    DEF Scan, Choose, Available, Goto, Moves, WithJob, WithAgent, Typed, TypeOK,
        AgentsTyped
<1>10. PutBack(d) => pc[d] = "put_back" /\ Moves(d, "drain", None, None)
    BY AtHand DEF PutBack, Goto, Moves, WithJob, WithAgent
<1>11. Assign(d) => pc[d] = "assign" /\ Moves(d, "lookup", job[d], at[d])
    BY AtHand DEF Assign, Goto, Moves, WithJob, WithAgent
<1>12. Lookup(d) => pc[d] = "lookup" /\ Moves(d, "process", job[d], at[d])
    BY AtHand DEF Lookup, Goto, Moves, WithJob, WithAgent
<1>13. LookupFails(d) => pc[d] = "lookup" /\ Moves(d, "drain", None, None)
    BY AtHand DEF LookupFails, Goto, Moves, WithJob, WithAgent
<1>14. Complete(d) => pc[d] = "process" /\ Moves(d, "report", None, at[d])
    BY AtHand DEF Complete, Goto, Moves, WithJob, WithAgent
<1>15. Fail(d) =>
          /\ pc[d] = "process"
          /\ Moves(d, IF DeadLetters THEN "persist" ELSE "report", None, at[d])
    BY AtHand DEF Fail, Goto, Moves, WithJob, WithAgent
<1>16. Persist(d) => pc[d] = "persist" /\ Moves(d, "report", None, at[d])
    BY AtHand DEF Persist, Goto, Moves, WithJob, WithAgent
<1>17. PersistFails(d) => pc[d] = "persist" /\ Moves(d, "stopped", None, None)
    BY AtHand DEF PersistFails, Goto, Moves, WithJob, WithAgent
<1>18. Report(d) => pc[d] = "report" /\ Moves(d, "drain", None, None)
    BY AtHand DEF Report, Goto, Moves, WithJob, WithAgent
<1> QED
    BY <1>1, <1>2, <1>3, <1>4, <1>5, <1>6, <1>7, <1>8, <1>9, <1>10, <1>11, <1>12,
       <1>13, <1>14, <1>15, <1>16, <1>17, <1>18

LEMMA SubmitTyped ==
    ASSUME Typed, NEW t \in Tasks, Submit(t) \/ Notify(t)
    PROVE  Typed'
<1>1. CASE Submit(t)
    BY <1>1, AppendProperties
    DEF Submit, Typed, TypeOK, TasksTyped, AgentsTyped, DispatchersTyped, Positions,
        AdminNamed, agentVars, loopVars
<1>2. CASE Notify(t)
    <2>1. TasksTyped' /\ AgentsTyped' /\ AdminNamed'
        BY <1>2
        DEF Notify, Typed, TypeOK, TasksTyped, AgentsTyped, AdminNamed, agentVars
    <2>2. DispatchersTyped' /\ Positions'
        <3>1. ASSUME NEW d \in Dispatchers, Goto(d, "wait", "loop"), UNCHANGED permit
              PROVE  DispatchersTyped' /\ Positions'
            <4>1. Moves(d, "loop", None, None)
                BY <1>2, <3>1, AtHand DEF Notify, Goto, Moves, WithJob, WithAgent
            <4>2. isRunning' \in BOOLEAN /\ permit' \in BOOLEAN /\ faults' \in 0..MaxFaults
                BY <1>2, <3>1, AtHand DEF Notify
            <4> QED
                BY <4>1, <4>2, AtHand, MoveTyped DEF Pcs, WithJob, WithAgent
        <3>2. ASSUME UNCHANGED pc, permit' = TRUE
              PROVE  DispatchersTyped' /\ Positions'
            BY <1>2, <3>2
            DEF Notify, Typed, TypeOK, DispatchersTyped, Positions
        <3> QED
            BY <1>2, <3>1, <3>2 DEF Notify, NotifyOne
    <2> QED
        BY <2>1, <2>2 DEF Typed, TypeOK
<1> QED
    BY <1>1, <1>2

\* The steps of the loop keep the types ...
LEMMA LoopTyped ==
    ASSUME Typed, NEW d \in Dispatchers,
           Start(d) \/ Loop(d) \/ Drain(d) \/ Notified(d) \/ Sort(d) \/ Pop(d)
    PROVE  Typed'
<1>1. CASE Start(d)
    <2>1. TasksTyped'
        BY <1>1
        DEF Start, Typed, TypeOK, TasksTyped, taskVars
    <2>2. AgentsTyped' /\ AdminNamed'
        BY <1>1
        DEF Start, Typed, TypeOK, AgentsTyped, AdminNamed, agentVars
    <2>3. isRunning' \in BOOLEAN /\ permit' \in BOOLEAN /\ faults' \in 0..MaxFaults
        BY <1>1, AtHand DEF Start, loopVars
    <2>4. Moves(d, "loop", None, None)
        BY <1>1, AtHand, StepMoves
    <2>5. DispatchersTyped' /\ Positions'
        BY <2>3, <2>4, AtHand, MoveTyped DEF Pcs, WithJob, WithAgent
    <2> QED
        BY <2>1, <2>2, <2>5 DEF Typed, TypeOK
<1>2. CASE Loop(d)
    <2>1. TasksTyped'
        BY <1>2
        DEF Loop, Typed, TypeOK, TasksTyped, taskVars
    <2>2. AgentsTyped' /\ AdminNamed'
        BY <1>2
        DEF Loop, Typed, TypeOK, AgentsTyped, AdminNamed, agentVars
    <2>3. isRunning' \in BOOLEAN /\ permit' \in BOOLEAN /\ faults' \in 0..MaxFaults
        BY <1>2, AtHand DEF Loop, loopVars
    <2>4. Moves(d, IF isRunning THEN "drain" ELSE "stopped", None, None)
        BY <1>2, AtHand, StepMoves
    <2>5. DispatchersTyped' /\ Positions'
        BY <2>3, <2>4, AtHand, MoveTyped DEF Pcs, WithJob, WithAgent
    <2> QED
        BY <2>1, <2>2, <2>5 DEF Typed, TypeOK
<1>3. CASE Drain(d)
    <2>1. TasksTyped'
        BY <1>3
        DEF Drain, Typed, TypeOK, TasksTyped, taskVars
    <2>2. AgentsTyped' /\ AdminNamed'
        BY <1>3
        DEF Drain, Typed, TypeOK, AgentsTyped, AdminNamed, agentVars
    <2>3. isRunning' \in BOOLEAN /\ permit' \in BOOLEAN /\ faults' \in 0..MaxFaults
        BY <1>3, AtHand DEF Drain, loopVars
    <2>4. Moves(d, IF queue = <<>> THEN "notified" ELSE "sort", None, None)
        BY <1>3, AtHand, StepMoves
    <2>5. DispatchersTyped' /\ Positions'
        BY <2>3, <2>4, AtHand, MoveTyped DEF Pcs, WithJob, WithAgent
    <2> QED
        BY <2>1, <2>2, <2>5 DEF Typed, TypeOK
<1>4. CASE Notified(d)
    <2>1. TasksTyped'
        BY <1>4
        DEF Notified, Typed, TypeOK, TasksTyped, taskVars
    <2>2. AgentsTyped' /\ AdminNamed'
        BY <1>4
        DEF Notified, Typed, TypeOK, AgentsTyped, AdminNamed, agentVars
    <2>3. isRunning' \in BOOLEAN /\ permit' \in BOOLEAN /\ faults' \in 0..MaxFaults
        BY <1>4, AtHand DEF Notified, loopVars
    <2>4. Moves(d, IF permit THEN "loop" ELSE "wait", None, None)
        BY <1>4, AtHand, StepMoves
    <2>5. DispatchersTyped' /\ Positions'
        BY <2>3, <2>4, AtHand, MoveTyped DEF Pcs, WithJob, WithAgent
    <2> QED
        BY <2>1, <2>2, <2>5 DEF Typed, TypeOK
<1>5. CASE Sort(d)
    <2>1. TasksTyped'
        BY <1>5, SortType
        DEF Sort, Typed, TypeOK, TasksTyped, taskVars
    <2>2. AgentsTyped' /\ AdminNamed'
        BY <1>5
        DEF Sort, Typed, TypeOK, AgentsTyped, AdminNamed, agentVars
    <2>3. isRunning' \in BOOLEAN /\ permit' \in BOOLEAN /\ faults' \in 0..MaxFaults
        BY <1>5, AtHand DEF Sort, loopVars
    <2>4. Moves(d, "pop", None, None)
        BY <1>5, AtHand, StepMoves
    <2>5. DispatchersTyped' /\ Positions'
        BY <2>3, <2>4, AtHand, MoveTyped DEF Pcs, WithJob, WithAgent
    <2> QED
        BY <2>1, <2>2, <2>5 DEF Typed, TypeOK
<1>6. CASE Pop(d)
    <2>1. TasksTyped'
        <3>1. queue \in Seq(Tasks)
            BY DEF Typed, TypeOK, TasksTyped
        <3>2. queue # <<>> => Tail(queue) \in Seq(Tasks)
            BY <3>1, HeadTailProperties
        <3>3. queue' \in Seq(Tasks)
            BY <1>6, <3>1, <3>2 DEF Pop
        <3> QED
            BY <1>6, <3>3 DEF Pop, Typed, TypeOK, TasksTyped
    <2>2. AgentsTyped' /\ AdminNamed'
        BY <1>6
        DEF Pop, Typed, TypeOK, AgentsTyped, AdminNamed, agentVars
    <2>3. isRunning' \in BOOLEAN /\ permit' \in BOOLEAN /\ faults' \in 0..MaxFaults
        BY <1>6, AtHand DEF Pop, loopVars
    <2>4. ASSUME queue # <<>>, Moves(d, "prefer", Head(queue), None)
          PROVE  DispatchersTyped' /\ Positions'
        <3>1. Head(queue) \in Tasks
            BY <1>6, <2>4, AtHand, StepMoves, HeadTailProperties
            DEF WithJob, WithAgent, Typed, TypeOK, TasksTyped
        <3> QED
            BY <2>3, <2>4, <3>1, AtHand, MoveTyped DEF Pcs, WithJob, WithAgent
    <2>5. ASSUME queue = <<>>, Moves(d, "drain", None, None)
          PROVE  DispatchersTyped' /\ Positions'
        BY <2>3, <2>5, AtHand, MoveTyped DEF Pcs, WithJob, WithAgent
    <2>6. DispatchersTyped' /\ Positions'
        BY <1>6, <2>4, <2>5, StepMoves
    <2> QED
        BY <2>1, <2>2, <2>6 DEF Typed, TypeOK
<1> QED
    BY <1>1, <1>2, <1>3, <1>4, <1>5, <1>6

\* ... those that look for an agent ...
LEMMA ChooseTyped ==
    ASSUME Typed, NEW d \in Dispatchers,
           Prefer(d) \/ Fallback(d) \/ Scan(d) \/ PutBack(d)
    PROVE  Typed'
<1>1. CASE Prefer(d)
    <2>1. TasksTyped'
        BY <1>1
        DEF Prefer, Typed, TypeOK, TasksTyped, taskVars
    <2>2. AgentsTyped' /\ AdminNamed'
        BY <1>1
        DEF Prefer, Typed, TypeOK, AgentsTyped, AdminNamed, agentVars
    <2>3. isRunning' \in BOOLEAN /\ permit' \in BOOLEAN /\ faults' \in 0..MaxFaults
        BY <1>1, AtHand DEF Prefer, loopVars
    <2>4. ASSUME NEW a \in Agents, Moves(d, "assign", job[d], a)
          PROVE  DispatchersTyped' /\ Positions'
        <3>1. job[d] \in Tasks
            BY <1>1, <2>4, AtHand, StepMoves
            DEF WithJob, WithAgent
        <3> QED
            BY <2>3, <2>4, <3>1, AtHand, MoveTyped DEF Pcs, WithJob, WithAgent
    <2>5. ASSUME Moves(d, "fallback", job[d], None)
          PROVE  DispatchersTyped' /\ Positions'
        <3>1. job[d] \in Tasks
            BY <1>1, <2>5, AtHand, StepMoves
            DEF WithJob, WithAgent
        <3> QED
            BY <2>3, <2>5, <3>1, AtHand, MoveTyped DEF Pcs, WithJob, WithAgent
    <2>6. DispatchersTyped' /\ Positions'
        BY <1>1, <2>4, <2>5, StepMoves
    <2> QED
        BY <2>1, <2>2, <2>6 DEF Typed, TypeOK
<1>2. CASE Fallback(d)
    <2>1. TasksTyped'
        BY <1>2
        DEF Fallback, Typed, TypeOK, TasksTyped, taskVars
    <2>2. AgentsTyped' /\ AdminNamed'
        BY <1>2
        DEF Fallback, Typed, TypeOK, AgentsTyped, AdminNamed, agentVars
    <2>3. isRunning' \in BOOLEAN /\ permit' \in BOOLEAN /\ faults' \in 0..MaxFaults
        BY <1>2, AtHand DEF Fallback, loopVars
    <2>4. /\ Moves(d, "scan", job[d], None)
          /\ job[d] \in Tasks
        BY <1>2, AtHand, StepMoves DEF WithJob, WithAgent
    <2>5. DispatchersTyped' /\ Positions'
        BY <2>3, <2>4, AtHand, MoveTyped DEF Pcs, WithJob, WithAgent
    <2> QED
        BY <2>1, <2>2, <2>5 DEF Typed, TypeOK
<1>3. CASE Scan(d)
    <2>1. TasksTyped'
        BY <1>3
        DEF Scan, Typed, TypeOK, TasksTyped, taskVars
    <2>2. AgentsTyped' /\ AdminNamed'
        BY <1>3
        DEF Scan, Typed, TypeOK, AgentsTyped, AdminNamed, agentVars
    <2>3. isRunning' \in BOOLEAN /\ permit' \in BOOLEAN /\ faults' \in 0..MaxFaults
        BY <1>3, AtHand DEF Scan, loopVars
    <2>4. ASSUME NEW a \in Agents, Moves(d, "assign", job[d], a)
          PROVE  DispatchersTyped' /\ Positions'
        <3>1. job[d] \in Tasks
            BY <1>3, <2>4, AtHand, StepMoves
            DEF WithJob, WithAgent
        <3> QED
            BY <2>3, <2>4, <3>1, AtHand, MoveTyped DEF Pcs, WithJob, WithAgent
    <2>5. ASSUME Moves(d, "put_back", job[d], None)
          PROVE  DispatchersTyped' /\ Positions'
        <3>1. job[d] \in Tasks
            BY <1>3, <2>5, AtHand, StepMoves
            DEF WithJob, WithAgent
        <3> QED
            BY <2>3, <2>5, <3>1, AtHand, MoveTyped DEF Pcs, WithJob, WithAgent
    <2>6. DispatchersTyped' /\ Positions'
        BY <1>3, <2>4, <2>5, StepMoves
    <2> QED
        BY <2>1, <2>2, <2>6 DEF Typed, TypeOK
<1>4. CASE PutBack(d)
    <2>1. TasksTyped'
        BY <1>4, AtHand, OccurrencesFront
        DEF PutBack, Typed, TypeOK, TasksTyped, taskVars, Goto, WithJob
    <2>2. AgentsTyped' /\ AdminNamed'
        BY <1>4
        DEF PutBack, Typed, TypeOK, AgentsTyped, AdminNamed, agentVars
    <2>3. isRunning' \in BOOLEAN /\ permit' \in BOOLEAN /\ faults' \in 0..MaxFaults
        BY <1>4, AtHand DEF PutBack, loopVars
    <2>4. Moves(d, "drain", None, None)
        BY <1>4, AtHand, StepMoves
    <2>5. DispatchersTyped' /\ Positions'
        BY <2>3, <2>4, AtHand, MoveTyped DEF Pcs, WithJob, WithAgent
    <2> QED
        BY <2>1, <2>2, <2>5 DEF Typed, TypeOK
<1> QED
    BY <1>1, <1>2, <1>3, <1>4

\* ... and those that give it the task.
LEMMA AssignTyped ==
    ASSUME Typed, NEW d \in Dispatchers,
           \/ Assign(d) \/ Lookup(d) \/ LookupFails(d) \/ Complete(d) \/ Fail(d) \/ Persist(d)
           \/ PersistFails(d) \/ Report(d)
    PROVE  Typed'
<1>1. CASE Assign(d)
    <2>1. TasksTyped'
        BY <1>1, AtHand
        DEF Assign, Typed, TypeOK, TasksTyped, taskVars, Goto, WithJob
    <2>2. AgentsTyped' /\ AdminNamed'
        BY <1>1
        DEF Assign, Typed, TypeOK, AgentsTyped, AdminNamed, agentVars
    <2>3. isRunning' \in BOOLEAN /\ permit' \in BOOLEAN /\ faults' \in 0..MaxFaults
        BY <1>1, AtHand DEF Assign, loopVars
    <2>4. /\ Moves(d, "lookup", job[d], at[d])
          /\ job[d] \in Tasks /\ at[d] \in Agents
        BY <1>1, AtHand, StepMoves DEF WithJob, WithAgent
    <2>5. DispatchersTyped' /\ Positions'
        BY <2>3, <2>4, AtHand, MoveTyped DEF Pcs, WithJob, WithAgent
    <2> QED
        BY <2>1, <2>2, <2>5 DEF Typed, TypeOK
<1>2. CASE Lookup(d)
    <2>1. TasksTyped'
        BY <1>2, AtHand
        DEF Lookup, Typed, TypeOK, TasksTyped, taskVars, Goto, WithJob
    <2>2. AgentsTyped' /\ AdminNamed'
        <3>1. at[d] \in Agents
            BY <1>2, AtHand DEF Lookup, Goto, WithAgent
        <3>2. /\ status \in [Agents -> {"absent", "Idle", "Busy"}]
              /\ load \in [Agents -> Nat]
            BY DEF Typed, TypeOK, AgentsTyped
        <3>3. /\ status' \in [Agents -> {"absent", "Idle", "Busy"}]
              /\ load' \in [Agents -> Nat]
            BY <1>2, <3>1, <3>2 DEF Lookup
        <3> QED
            BY <1>2, <3>3 DEF Lookup, Typed, TypeOK, AgentsTyped, AdminNamed
    <2>3. isRunning' \in BOOLEAN /\ permit' \in BOOLEAN /\ faults' \in 0..MaxFaults
        BY <1>2, AtHand DEF Lookup, loopVars
    <2>4. /\ Moves(d, "process", job[d], at[d])
          /\ job[d] \in Tasks /\ at[d] \in Agents
        BY <1>2, AtHand, StepMoves DEF WithJob, WithAgent
    <2>5. DispatchersTyped' /\ Positions'
        BY <2>3, <2>4, AtHand, MoveTyped DEF Pcs, WithJob, WithAgent
    <2> QED
        BY <2>1, <2>2, <2>5 DEF Typed, TypeOK
<1>3. CASE LookupFails(d)
    <2>1. TasksTyped'
        BY <1>3
        DEF LookupFails, Typed, TypeOK, TasksTyped, taskVars
    <2>2. AgentsTyped' /\ AdminNamed'
        BY <1>3
        DEF LookupFails, Typed, TypeOK, AgentsTyped, AdminNamed, agentVars
    <2>3. isRunning' \in BOOLEAN /\ permit' \in BOOLEAN /\ faults' \in 0..MaxFaults
        BY <1>3, AtHand DEF LookupFails, loopVars
    <2>4. Moves(d, "drain", None, None)
        BY <1>3, AtHand, StepMoves
    <2>5. DispatchersTyped' /\ Positions'
        BY <2>3, <2>4, AtHand, MoveTyped DEF Pcs, WithJob, WithAgent
    <2> QED
        BY <2>1, <2>2, <2>5 DEF Typed, TypeOK
<1>4. CASE Complete(d)
    <2>1. TasksTyped'
        BY <1>4, AtHand, AppendProperties
        DEF Complete, Typed, TypeOK, TasksTyped, taskVars, Goto, WithJob
    <2>2. AgentsTyped' /\ AdminNamed'
        BY <1>4
        DEF Complete, Typed, TypeOK, AgentsTyped, AdminNamed, agentVars
    <2>3. isRunning' \in BOOLEAN /\ permit' \in BOOLEAN /\ faults' \in 0..MaxFaults
        BY <1>4, AtHand DEF Complete, loopVars
    <2>4. /\ Moves(d, "report", None, at[d])
          /\ at[d] \in Agents
        BY <1>4, AtHand, StepMoves DEF WithJob, WithAgent
    <2>5. DispatchersTyped' /\ Positions'
        BY <2>3, <2>4, AtHand, MoveTyped DEF Pcs, WithJob, WithAgent
    <2> QED
        BY <2>1, <2>2, <2>5 DEF Typed, TypeOK
<1>5. CASE Fail(d)
    <2>1. TasksTyped'
        <3>1. job[d] \in Tasks
            BY <1>5, AtHand DEF Fail, Goto, WithJob
        <3>2. /\ queue \in Seq(Tasks) /\ failed \in Seq(Tasks)
              /\ retries \in [Tasks -> 0..MAX_RETRIES] /\ MAX_RETRIES \in Nat
            BY OrchestratorAssumption DEF Typed, TypeOK, TasksTyped
        <3>3. <<job[d]>> \o queue \in Seq(Tasks) /\ Append(failed, job[d]) \in Seq(Tasks)
            BY <3>1, <3>2, AppendProperties, OccurrencesFront
        <3>4. CanRetry(job[d]) =>
                [retries EXCEPT ![job[d]] = @ + 1] \in [Tasks -> 0..MAX_RETRIES]
            BY <3>1, <3>2 DEF CanRetry
        <3>5. /\ queue' \in Seq(Tasks) /\ failed' \in Seq(Tasks)
              /\ retries' \in [Tasks -> 0..MAX_RETRIES]
            BY <1>5, <3>2, <3>3, <3>4 DEF Fail
        <3> QED
            BY <1>5, <3>5 DEF Fail, Typed, TypeOK, TasksTyped
    <2>2. AgentsTyped' /\ AdminNamed'
        BY <1>5
        DEF Fail, Typed, TypeOK, AgentsTyped, AdminNamed, agentVars
    <2>3. isRunning' \in BOOLEAN /\ permit' \in BOOLEAN /\ faults' \in 0..MaxFaults
        BY <1>5, AtHand DEF Fail, loopVars
    <2>4. /\ Moves(d, IF DeadLetters THEN "persist" ELSE "report", None, at[d])
          /\ at[d] \in Agents
        BY <1>5, AtHand, StepMoves DEF WithJob, WithAgent
    <2>5. DispatchersTyped' /\ Positions'
        BY <2>3, <2>4, AtHand, MoveTyped DEF Pcs, WithJob, WithAgent
    <2> QED
        BY <2>1, <2>2, <2>5 DEF Typed, TypeOK
<1>6. CASE Persist(d)
    <2>1. TasksTyped'
        BY <1>6
        DEF Persist, Typed, TypeOK, TasksTyped, taskVars
    <2>2. AgentsTyped' /\ AdminNamed'
        BY <1>6
        DEF Persist, Typed, TypeOK, AgentsTyped, AdminNamed, agentVars
    <2>3. isRunning' \in BOOLEAN /\ permit' \in BOOLEAN /\ faults' \in 0..MaxFaults
        BY <1>6, AtHand DEF Persist, loopVars
    <2>4. /\ Moves(d, "report", None, at[d])
          /\ at[d] \in Agents
        BY <1>6, AtHand, StepMoves DEF WithJob, WithAgent
    <2>5. DispatchersTyped' /\ Positions'
        BY <2>3, <2>4, AtHand, MoveTyped DEF Pcs, WithJob, WithAgent
    <2> QED
        BY <2>1, <2>2, <2>5 DEF Typed, TypeOK
<1>7. CASE PersistFails(d)
    <2>1. TasksTyped'
        BY <1>7
        DEF PersistFails, Typed, TypeOK, TasksTyped, taskVars
    <2>2. AgentsTyped' /\ AdminNamed'
        BY <1>7
        DEF PersistFails, Typed, TypeOK, AgentsTyped, AdminNamed, agentVars
    <2>3. isRunning' \in BOOLEAN /\ permit' \in BOOLEAN /\ faults' \in 0..MaxFaults
        BY <1>7, AtHand, OrchestratorAssumption DEF PersistFails, loopVars, Fault
    <2>4. Moves(d, "stopped", None, None)
        BY <1>7, AtHand, StepMoves
    <2>5. DispatchersTyped' /\ Positions'
        BY <2>3, <2>4, AtHand, MoveTyped DEF Pcs, WithJob, WithAgent
    <2> QED
        BY <2>1, <2>2, <2>5 DEF Typed, TypeOK
<1>8. CASE Report(d)
    <2>1. TasksTyped'
        BY <1>8
        DEF Report, Typed, TypeOK, TasksTyped, taskVars
    <2>2. AgentsTyped' /\ AdminNamed'
        BY <1>8, AtHand
        DEF Report, Typed, TypeOK, AgentsTyped, AdminNamed, agentVars, Goto,
            WithAgent
    <2>3. isRunning' \in BOOLEAN /\ permit' \in BOOLEAN /\ faults' \in 0..MaxFaults
        BY <1>8, AtHand DEF Report, loopVars
    <2>4. Moves(d, "drain", None, None)
        BY <1>8, AtHand, StepMoves
    <2>5. DispatchersTyped' /\ Positions'
        BY <2>3, <2>4, AtHand, MoveTyped DEF Pcs, WithJob, WithAgent
    <2> QED
        BY <2>1, <2>2, <2>5 DEF Typed, TypeOK
<1> QED
    BY <1>1, <1>2, <1>3, <1>4, <1>5, <1>6, <1>7, <1>8

LEMMA AdminTyped ==
    ASSUME Typed, Admin \/ Stop \/ Crash
    PROVE  Typed'
<1>1. ASSUME Administrating
      PROVE  TasksTyped' /\ DispatchersTyped' /\ Positions'
    BY <1>1
    DEF Administrating, Typed, TypeOK, TasksTyped, DispatchersTyped, Positions,
        taskVars, loopVars
<1>2. ASSUME NEW op \in {"adding", "removing"}, NEW a \in Agents, Request(op, a)
      PROVE  Typed'
    <2>1. AgentsTyped' /\ AdminNamed'
        BY <1>2 DEF Request, Typed, TypeOK, AgentsTyped, AdminNamed, agentVars
    <2> QED
        BY <1>1, <1>2, <2>1 DEF Request, Typed, TypeOK
<1>3. CASE Write
    <2>1. AgentsTyped' /\ AdminNamed'
        BY <1>3 DEF Write, Typed, TypeOK, AgentsTyped, AdminNamed
    <2> QED
        BY <1>1, <1>3, <2>1 DEF Write, Typed, TypeOK
<1>4. CASE Register
    <2>1. admin.agent \in Agents /\ TypeOf[admin.agent] \in Types
        BY <1>4, OrchestratorAssumption DEF Register, Typed, AdminNamed
    <2>2. byType' \in [Types -> Seq(Agents)]
        <3>1. byType \in [Types -> Seq(Agents)]
            BY DEF Typed, TypeOK, AgentsTyped
        <3>2. CASE admin.op = "added"
            <4>1. Append(byType[TypeOf[admin.agent]], admin.agent) \in Seq(Agents)
                BY <2>1, <3>1, AppendProperties
            <4> QED
                BY <1>4, <2>1, <3>1, <3>2, <4>1 DEF Register
        <3>3. CASE admin.op = "removed"
            <4>1. \A y \in Types : Keep(byType[y], Agents \ {admin.agent}) \in Seq(Agents)
                BY <3>1, KeepIn
            <4> QED
                BY <1>4, <3>3, <4>1 DEF Register
        <3> QED
            BY <1>4, <3>2, <3>3 DEF Register
    <2>3. /\ status' \in [Agents -> {"absent", "Idle", "Busy"}]
          /\ load' \in [Agents -> Nat]
        <3>1. /\ status \in [Agents -> {"absent", "Idle", "Busy"}]
              /\ load \in [Agents -> Nat]
            BY DEF Typed, TypeOK, AgentsTyped
        <3>2. \/ /\ status' = [status EXCEPT ![admin.agent] = "Idle"]
                 /\ load' = [load EXCEPT ![admin.agent] = 0]
              \/ /\ status' = [status EXCEPT ![admin.agent] = "absent"]
                 /\ load' = [load EXCEPT ![admin.agent] = 0]
            BY <1>4 DEF Register
        <3> QED
            BY <2>1, <3>1, <3>2
    <2>4. AgentsTyped' /\ AdminNamed'
        BY <1>4, <2>2, <2>3 DEF Register, Typed, TypeOK, AgentsTyped, AdminNamed
    <2> QED
        BY <1>1, <1>4, <2>4 DEF Register, Typed, TypeOK
<1>5. CASE Stop
    BY <1>5
    DEF Stop, Typed, TypeOK, TasksTyped, AgentsTyped, DispatchersTyped, Positions,
        AdminNamed, taskVars, agentVars
<1>6. CASE Crash
    <2>1. None \notin Tasks /\ None \notin Agents /\ MAX_RETRIES \in Nat /\ MaxFaults \in Nat
        BY OrchestratorAssumption
    <2>2. TasksTyped'
        <3>1. deadLetters' \in Seq(Tasks)
            BY <1>6, EmptySeq DEF Crash, Typed, TypeOK, TasksTyped
        <3>2. /\ queue' \in Seq(Tasks) /\ completed' \in Seq(Tasks)
              /\ failed' \in Seq(Tasks)
            BY <1>6, EmptySeq DEF Crash
        <3>3. /\ retries' \in [Tasks -> 0..MAX_RETRIES] /\ attempts' \in [Tasks -> Nat]
              /\ submitted' = {} /\ pushing' = {} /\ inProgress' = {}
            BY <1>6, <2>1 DEF Crash
        <3> QED
            BY <3>1, <3>2, <3>3 DEF TasksTyped
    <2>3. AgentsTyped'
        BY <1>6, InitialTypes DEF Crash, AgentsTyped
    <2>4. DispatchersTyped'
        <3>1. isRunning' \in BOOLEAN /\ permit' \in BOOLEAN
            BY <1>6, Zenon DEF Crash
        <3>2. faults' \in 0..MaxFaults
            BY <1>6, <2>1 DEF Crash, Fault, Typed, TypeOK, DispatchersTyped
        <3>3. /\ pc' \in [Dispatchers -> Pcs]
              /\ job' \in [Dispatchers -> Tasks \cup {None}]
              /\ at' \in [Dispatchers -> Agents \cup {None}]
            BY <1>6 DEF Crash, Pcs
        <3> QED
            BY <3>1, <3>2, <3>3 DEF DispatchersTyped
    <2>5. Positions' /\ AdminNamed'
        BY <1>6, <2>1 DEF Crash, Positions, AdminNamed, WithJob, WithAgent
    <2> QED
        BY <2>2, <2>3, <2>4, <2>5 DEF Typed, TypeOK
<1> QED
    BY <1>2, <1>3, <1>4, <1>5, <1>6 DEF Admin

LEMMA NextTyped == Typed /\ [Next]_vars => Typed'
<1> SUFFICES ASSUME Typed, [Next]_vars
             PROVE  Typed'
    OBVIOUS
<1>1. CASE UNCHANGED vars
    BY <1>1
    DEF vars, taskVars, agentVars, loopVars, Typed, TypeOK, TasksTyped, AgentsTyped,
        DispatchersTyped, Positions, AdminNamed
<1>2. CASE Next
    BY <1>2, SubmitTyped, LoopTyped, ChooseTyped, AssignTyped, AdminTyped
    DEF Next, Dispatch
<1> QED
    BY <1>1, <1>2

\* In every reachable state the variables have their types, and a dispatcher
\* has a task and an agent exactly where start() and what it calls have them.
THEOREM AlwaysTyped == Spec => [](TypeOK /\ Positions)
<1>1. Typed => TypeOK /\ Positions
    BY DEF Typed
<1> QED
    BY <1>1, InitTyped, NextTyped, PTL DEF Spec

-----------------------------------------------------------------------------
(* Wake-ups and dead letters.                                              *)

\* A moved dispatcher is where it has moved to, and the others stay.
LEMMA MovedTo ==
    ASSUME Typed, NEW d \in Dispatchers, NEW to, NEW t, NEW a, Moves(d, to, t, a)
    PROVE  /\ pc'[d] = to /\ job'[d] = t /\ at'[d] = a
           /\ \A e \in Dispatchers \ {d} :
                pc'[e] = pc[e] /\ job'[e] = job[e] /\ at'[e] = at[e]
    BY DEF Typed, TypeOK, DispatchersTyped, Moves

LEMMA InitWakeup == Init => WakeupDue
    BY DEF Init, WakeupDue, AllAsleep

LEMMA SubmitWakeup ==
    ASSUME Typed, WakeupDue, NEW t \in Tasks, Submit(t) \/ Notify(t)
    PROVE  WakeupDue'
<1>1. CASE Submit(t)
    BY <1>1 DEF Submit, WakeupDue
<1>2. CASE Notify(t)
    <2>1. CASE permit'
        BY <2>1 DEF WakeupDue
    <2>2. ASSUME NEW d \in Dispatchers, Goto(d, "wait", "loop")
          PROVE  ~AllAsleep'
        <3>1. pc'[d] = "loop"
            BY <2>2 DEF Goto, Typed, TypeOK, DispatchersTyped
        <3> QED
            BY <3>1 DEF AllAsleep
    <2> QED
        BY <1>2, <2>1, <2>2 DEF Notify, NotifyOne, WakeupDue
<1> QED
    BY <1>1, <1>2

LEMMA DispatchWakeup ==
    ASSUME Typed, WakeupDue, NEW d \in Dispatchers, Start(d) \/ Dispatch(d)
    PROVE  WakeupDue'
<1>1. SUFFICES ASSUME AllAsleep'
               PROVE  permit' \/ pushing' # {}
    BY DEF WakeupDue
<1>2. pc'[d] \in {"wait", "stopped", "notified"} /\ faults' = 0 /\ isRunning' /\ queue' # <<>>
    BY <1>1 DEF AllAsleep
<1>3. ASSUME Start(d) \/ Sort(d) \/ Pop(d) \/ Prefer(d) \/ Fallback(d) \/ Scan(d)
             \/ PutBack(d) \/ Assign(d)
      PROVE  FALSE
    BY <1>2, <1>3, StepMoves, MovedTo
<1>4. ASSUME Lookup(d) \/ LookupFails(d) \/ Complete(d) \/ Fail(d) \/ Persist(d)
             \/ Report(d)
      PROVE  FALSE
    BY <1>2, <1>4, StepMoves, MovedTo
<1>5. CASE Loop(d)
    <2>1. isRunning /\ pc'[d] = "drain"
        BY <1>2, <1>5, StepMoves, MovedTo DEF Loop, loopVars
    <2> QED
        BY <1>2, <2>1
<1>6. CASE Drain(d)
    <2>1. queue # <<>> /\ pc'[d] = "sort"
        BY <1>2, <1>6, StepMoves, MovedTo DEF Drain, taskVars
    <2> QED
        BY <1>2, <2>1
<1>7. CASE Notified(d)
    <2>1. ~permit /\ pc[d] = "notified" /\ pc'[d] = "wait"
        BY <1>2, <1>7, StepMoves, MovedTo
    <2>2. \A e \in Dispatchers \ {d} : pc[e] = pc'[e]
        BY <1>7, StepMoves, MovedTo
    <2>3. faults = faults' /\ isRunning = isRunning' /\ queue = queue' /\ pushing = pushing'
        BY <1>7 DEF Notified, taskVars
    <2>4. AllAsleep
        BY <1>1, <2>1, <2>2, <2>3 DEF AllAsleep
    <2> QED
        BY <2>1, <2>3, <2>4 DEF WakeupDue
<1>8. ASSUME PersistFails(d)
      PROVE  FALSE
    BY <1>2, <1>8, AtHand DEF PersistFails, Fault
<1> QED
    BY <1>3, <1>4, <1>5, <1>6, <1>7, <1>8 DEF Dispatch

LEMMA AdminWakeup ==
    ASSUME Typed, WakeupDue, Admin \/ Stop \/ Crash
    PROVE  WakeupDue'
<1>1. ASSUME Administrating
      PROVE  WakeupDue'
    BY <1>1 DEF Administrating, WakeupDue, AllAsleep, taskVars, loopVars
<1>2. CASE Admin
    BY <1>1, <1>2 DEF Admin, Request, Write, Register
<1>3. CASE Stop
    BY <1>3 DEF Stop, WakeupDue, AllAsleep
<1>4. CASE Crash
    BY <1>4 DEF Crash, WakeupDue, AllAsleep
<1> QED
    BY <1>2, <1>3, <1>4

\* No wake-up is lost: see NoLostWakeup.  Whatever order notifications,
\* looks at the queue and waits come in, and however many dispatchers there
\* are, the permit of task_notify bridges the gap between the last look at
\* the queue and the wait.
THEOREM WakeupsKept == Spec => []NoLostWakeup
<1>1. ASSUME Typed, WakeupDue, [Next]_vars
      PROVE  WakeupDue'
    <2>1. CASE UNCHANGED vars
        BY <1>1, <2>1
        DEF vars, taskVars, loopVars, WakeupDue, AllAsleep
    <2>2. CASE Next
        BY <1>1, <2>2, SubmitWakeup, DispatchWakeup, AdminWakeup DEF Next
    <2> QED
        BY <1>1, <2>1, <2>2
<1>2. WakeupDue => NoLostWakeup
    <2>1. SUFFICES ASSUME WakeupDue, ~NoLostWakeup
                   PROVE  FALSE
        OBVIOUS
    <2>2. AllAsleep /\ ~permit /\ pushing = {}
        BY <2>1 DEF NoLostWakeup, AllAsleep
    <2> QED
        BY <2>1, <2>2 DEF WakeupDue
<1> QED
    BY <1>1, <1>2, InitTyped, NextTyped, InitWakeup, PTL DEF Spec

\* Faults are counted.
LEMMA FaultsGrow ==
    ASSUME Typed, [Next]_vars, faults' = 0
    PROVE  /\ faults = 0 /\ ~Crash
           /\ \A d \in Dispatchers : ~PersistFails(d)
<1>1. faults \in Nat
    BY OrchestratorAssumption DEF Typed, TypeOK, DispatchersTyped
<1>2. Fault => faults' # 0
    BY <1>1 DEF Fault
<1>3. ~Crash /\ \A d \in Dispatchers : ~PersistFails(d)
    BY <1>2 DEF Crash, PersistFails
<1>4. ASSUME Admin \/ Stop \/ UNCHANGED vars \/ \E t \in Tasks : Submit(t) \/ Notify(t)
      PROVE  faults = 0
    BY <1>4
    DEF Admin, Request, Write, Register, Administrating, Stop, vars, Submit, Notify
<1>5. ASSUME NEW d \in Dispatchers, Start(d) \/ Dispatch(d)
      PROVE  faults = 0
    BY <1>3, <1>5
    DEF Start, Dispatch, Loop, Drain, Notified, Sort, Pop, Prefer, Fallback, Scan, PutBack,
        Assign, Lookup, LookupFails, Complete, Fail, Persist, Report
<1> QED
    BY <1>3, <1>4, <1>5 DEF Next

\* Between two writes the dead letter file holds every failed task, whoever
\* else is handling a failure at the moment.
THEOREM DeadLettersKept == Spec => []DeadLettersComplete
<1>1. Init => DeadLettersComplete
    BY DEF Init, DeadLettersComplete
<1>2. ASSUME Typed, DeadLettersComplete, [Next]_vars
      PROVE  DeadLettersComplete'
    <2>1. SUFFICES ASSUME faults' = 0, DeadLetters,
                          \A d \in Dispatchers : pc'[d] # "persist"
                   PROVE  deadLetters' = failed'
        BY DEF DeadLettersComplete
    <2>2. /\ faults = 0 /\ ~Crash
          /\ \A d \in Dispatchers : ~PersistFails(d)
        BY <1>2, <2>1, FaultsGrow
    <2>3. ASSUME NEW d \in Dispatchers, Persist(d)
          PROVE  deadLetters' = failed'
        BY <2>3 DEF Persist
    <2>4. ASSUME NEW d \in Dispatchers, Fail(d)
          PROVE  FALSE
        BY <1>2, <2>1, <2>4, StepMoves, MovedTo
    <2>5. ASSUME deadLetters' = deadLetters, failed' = failed,
                 \A d \in Dispatchers : pc'[d] # "persist" => pc[d] # "persist"
          PROVE  deadLetters' = failed'
        BY <1>2, <2>1, <2>2, <2>5 DEF DeadLettersComplete
    <2>6. ASSUME NEW t \in Tasks, Submit(t) \/ Notify(t)
          PROVE  deadLetters' = failed'
        BY <1>2, <2>5, <2>6
        DEF Submit, Notify, NotifyOne, Goto, Typed, TypeOK, DispatchersTyped
    <2>7. ASSUME NEW d \in Dispatchers,
                 Start(d) \/ Loop(d) \/ Drain(d) \/ Notified(d) \/ Sort(d) \/ Pop(d)
                 \/ Prefer(d) \/ Fallback(d)
          PROVE  deadLetters' = failed'
        <3>1. pc[d] # "persist" /\ \A e \in Dispatchers \ {d} : pc'[e] = pc[e]
            BY <1>2, <2>7, StepMoves, MovedTo
        <3>2. deadLetters' = deadLetters /\ failed' = failed
            BY <2>7
            DEF Start, Loop, Drain, Notified, Sort, Pop, Prefer, Fallback, taskVars
        <3> QED
            BY <2>5, <3>1, <3>2
    <2>8. ASSUME NEW d \in Dispatchers,
                  Scan(d) \/ PutBack(d) \/ Assign(d) \/ Lookup(d) \/ LookupFails(d)
                  \/ Complete(d) \/ Report(d)
           PROVE  deadLetters' = failed'
        <3>1. pc[d] # "persist" /\ \A e \in Dispatchers \ {d} : pc'[e] = pc[e]
            BY <1>2, <2>8, StepMoves, MovedTo
        <3>2. deadLetters' = deadLetters /\ failed' = failed
            BY <2>8
            DEF Scan, PutBack, Assign, Lookup, LookupFails, Complete, Report, taskVars
        <3> QED
            BY <2>5, <3>1, <3>2
    <2>9. CASE Admin \/ Stop \/ UNCHANGED vars
        BY <2>5, <2>9
        DEF Admin, Request, Write, Register, Administrating, Stop, taskVars, vars
    <2> QED
        BY <1>2, <2>2, <2>3, <2>4, <2>6, <2>7, <2>8, <2>9 DEF Next, Dispatch
<1> QED
    BY <1>1, <1>2, InitTyped, NextTyped, PTL DEF Spec

-----------------------------------------------------------------------------
(* The status table.                                                       *)

\* Who leaves an agent alone, or keeps it, does not change what is free.
LEMMA FreeSame ==
    ASSUME Typed, NEW d \in Dispatchers, NEW to, NEW t, NEW b, Moves(d, to, t, b),
           pc[d] \in Working <=> to \in Working, to \in Working => b = at[d]
    PROVE  \A a : Free(a)' <=> Free(a)
<1>1. SUFFICES ASSUME NEW a
               PROVE  Free(a)' <=> Free(a)
    OBVIOUS
<1>2. ASSUME NEW e \in Dispatchers
      PROVE  (pc'[e] \in Working => at'[e] # a) <=> (pc[e] \in Working => at[e] # a)
    BY MovedTo
<1> QED
    BY <1>2 DEF Free

\* The steps that keep Working as it is.
LEMMA WorkSame ==
    ASSUME Typed, NEW d \in Dispatchers,
           Start(d) \/ Dispatch(d), ~Lookup(d), ~Report(d), ~PersistFails(d)
    PROVE  /\ \A a : Free(a)' <=> Free(a)
           /\ OneWorker => OneWorker'
           /\ UNCHANGED <<status, load>>
<1>1. /\ \A a : Free(a)' <=> Free(a)
      /\ pc[d] \in Working <=> pc'[d] \in Working
      /\ pc'[d] \in Working => at'[d] = at[d]
      /\ \A e \in Dispatchers \ {d} : pc'[e] = pc[e] /\ at'[e] = at[e]
    <2>1. CASE Start(d) \/ Loop(d) \/ Drain(d) \/ Notified(d) \/ Sort(d)
        BY <2>1, StepMoves, MovedTo, FreeSame DEF Working
    <2>2. CASE Pop(d)
        BY <2>2, StepMoves, MovedTo, FreeSame DEF Working
    <2>3. CASE Prefer(d) \/ Fallback(d) \/ Scan(d)
        BY <2>3, StepMoves, MovedTo, FreeSame DEF Working
    <2>4. CASE PutBack(d) \/ Assign(d) \/ LookupFails(d)
        BY <2>4, StepMoves, MovedTo, FreeSame DEF Working
    <2>5. CASE Complete(d) \/ Fail(d) \/ Persist(d)
        BY <2>5, StepMoves, MovedTo, FreeSame DEF Working
    <2> QED
        BY <2>1, <2>2, <2>3, <2>4, <2>5 DEF Dispatch
<1>2. OneWorker => OneWorker'
    <2>1. SUFFICES ASSUME OneWorker, NEW e \in Dispatchers, NEW f \in Dispatchers,
                          pc'[e] \in Working, pc'[f] \in Working, at'[e] = at'[f]
                   PROVE  e = f
        BY DEF OneWorker
    <2>2. /\ pc[e] \in Working /\ at[e] = at'[e]
          /\ pc[f] \in Working /\ at[f] = at'[f]
        BY <1>1, <2>1
    <2> QED
        BY <2>1, <2>2 DEF OneWorker
<1>3. UNCHANGED <<status, load>>
    BY DEF Start, Dispatch, Loop, Drain, Notified, Sort, Pop, Prefer, Fallback, Scan,
           PutBack,
           Assign, LookupFails, Complete, Fail, Persist, agentVars
<1> QED
    BY <1>1, <1>2, <1>3

StatusInv == Typed /\ Identities /\ OneWorker /\ StatusTruthful

LEMMA InitStatus == Init => StatusInv
<1>1. SUFFICES ASSUME Init
               PROVE  Identities /\ OneWorker /\ StatusTruthful
    BY InitTyped DEF StatusInv
<1>2. Identities
    BY <1>1, OrchestratorAssumption DEF Init, Identities
<1>3. OneWorker /\ \A a : Free(a)
    BY <1>1 DEF Init, OneWorker, Free, Working
<1>4. StatusTruthful
    BY <1>1, <1>3, InitialTypes DEF Init, StatusTruthful
<1> QED
    BY <1>2, <1>3, <1>4

\* Agents are chosen from the registry.
LEMMA DispatchIdentities ==
    ASSUME Typed, Identities, NEW d \in Dispatchers, Start(d) \/ Dispatch(d)
    PROVE  Identities'
<1>1. UNCHANGED <<agents, removed, admin>>
    BY DEF Start, Dispatch, Loop, Drain, Notified, Sort, Pop, Prefer, Fallback, Scan,
           PutBack,
           Assign, Lookup, LookupFails, Complete, Fail, Persist, PersistFails, Report,
           agentVars
<1>2. /\ at'[d] \in agents \/ at'[d] = at[d] \/ at'[d] = None
      /\ \A e \in Dispatchers \ {d} : at'[e] = at[e]
    <2>1. CASE Start(d) \/ Loop(d) \/ Drain(d) \/ Notified(d) \/ Sort(d)
        BY <2>1, StepMoves, MovedTo
    <2>2. CASE Pop(d)
        BY <2>2, StepMoves, MovedTo
    <2>3. CASE Prefer(d) \/ Fallback(d) \/ Scan(d)
        BY <2>3, StepMoves, MovedTo
    <2>4. CASE PutBack(d) \/ Assign(d) \/ Lookup(d) \/ LookupFails(d)
        BY <2>4, StepMoves, MovedTo
    <2>5. CASE Complete(d) \/ Fail(d) \/ Persist(d) \/ PersistFails(d) \/ Report(d)
        BY <2>5, StepMoves, MovedTo
    <2> QED
        BY <2>1, <2>2, <2>3, <2>4, <2>5 DEF Dispatch
<1> QED
    BY <1>1, <1>2, OrchestratorAssumption DEF Identities

LEMMA DispatchStatus ==
    ASSUME StatusInv, NEW d \in Dispatchers, Start(d) \/ Dispatch(d)
    PROVE  OneWorker' /\ (~PersistFails(d) => StatusTruthful')
<1> USE DEF StatusInv
<1>1. CASE ~Lookup(d) /\ ~Report(d) /\ ~PersistFails(d)
    <2>1. faults' = faults
        BY <1>1
        DEF Start, Dispatch, Loop, Drain, Notified, Sort, Pop, Prefer, Fallback, Scan,
            PutBack, Assign, LookupFails, Complete, Fail, Persist
    <2> QED
        BY <1>1, <2>1, WorkSame DEF StatusTruthful
<1>2. CASE Lookup(d)
    <2>1. /\ pc[d] = "lookup" /\ pc'[d] = "process" /\ at'[d] = at[d]
          /\ \A e \in Dispatchers \ {d} : pc'[e] = pc[e] /\ at'[e] = at[e]
        BY <1>2, StepMoves, MovedTo
    <2>2. at[d] \in Agents /\ Free(at[d]) /\ faults' = faults
        BY <1>2, <2>1, AtHand DEF Lookup, WithAgent
    <2>3. OneWorker'
        <3>1. \A e \in Dispatchers \ {d} : pc'[e] \in Working => at'[e] # at'[d]
            BY <2>1, <2>2 DEF Free
        <3> QED
            BY <2>1, <3>1 DEF OneWorker
    <2>4. ASSUME faults' = 0, NEW a \in Registered, status'[a] # "absent"
          PROVE  IF Free(a)' THEN status'[a] = "Idle" /\ load'[a] = 0
                             ELSE status'[a] = "Busy" /\ load'[a] = 1
        <3>1. /\ status \in [Agents -> {"absent", "Idle", "Busy"}]
              /\ load \in [Agents -> Nat] /\ a \in Agents
            BY InitialTypes DEF Typed, TypeOK, AgentsTyped
        <3>2. CASE a = at[d]
            <4>1. ~Free(a)'
                BY <2>1, <3>2 DEF Free, Working
            <4>2. status[a] # "absent"
                BY <1>2, <2>4, <3>2 DEF Lookup
            <4>3. load[a] = 0
                BY <2>2, <2>4, <3>2, <4>2 DEF StatusTruthful
            <4>4. /\ status' = [status EXCEPT ![a] = "Busy"]
                  /\ load' = [load EXCEPT ![a] = @ + 1]
                BY <1>2, <3>2, <4>2 DEF Lookup
            <4> QED
                BY <3>1, <4>1, <4>3, <4>4
        <3>3. CASE a # at[d]
            <4>1. status'[a] = status[a] /\ load'[a] = load[a]
                BY <1>2, <3>1, <3>3 DEF Lookup
            <4>2. Free(a)' <=> Free(a)
                BY <2>1, <3>3 DEF Free
            <4> QED
                BY <2>2, <2>4, <4>1, <4>2 DEF StatusTruthful
        <3> QED
            BY <3>2, <3>3
    <2> QED
        BY <2>3, <2>4 DEF StatusTruthful
<1>3. CASE Report(d)
    <2>1. /\ pc[d] = "report" /\ pc'[d] = "drain" /\ at'[d] = None
          /\ \A e \in Dispatchers \ {d} : pc'[e] = pc[e] /\ at'[e] = at[e]
        BY <1>3, StepMoves, MovedTo
    <2>2. at[d] \in Agents /\ faults' = faults
        BY <1>3, <2>1, AtHand DEF Report, WithAgent
    <2>3. OneWorker'
        BY <2>1 DEF OneWorker, Working
    <2>4. ASSUME faults' = 0, NEW a \in Registered, status'[a] # "absent"
          PROVE  IF Free(a)' THEN status'[a] = "Idle" /\ load'[a] = 0
                             ELSE status'[a] = "Busy" /\ load'[a] = 1
        <3>1. /\ status \in [Agents -> {"absent", "Idle", "Busy"}]
              /\ load \in [Agents -> Nat] /\ a \in Agents
            BY InitialTypes DEF Typed, TypeOK, AgentsTyped
        <3>2. CASE a = at[d]
            <4>1. Free(a)' /\ ~Free(a)
                BY <2>1, <3>2 DEF Free, Working, OneWorker
            <4>2. status[a] # "absent"
                BY <1>3, <2>4, <3>2 DEF Report
            <4>3. load[a] = 1
                BY <2>2, <2>4, <3>2, <4>1, <4>2 DEF StatusTruthful
            <4>4. /\ status' = [status EXCEPT ![a] = "Idle"]
                  /\ load' = [load EXCEPT ![a] = IF @ > 0 THEN @ - 1 ELSE 0]
                BY <1>3, <3>2, <4>2 DEF Report
            <4> QED
                BY <3>1, <4>1, <4>3, <4>4
        <3>3. CASE a # at[d]
            <4>1. status'[a] = status[a] /\ load'[a] = load[a]
                BY <1>3, <3>1, <3>3 DEF Report
            <4>2. Free(a)' <=> Free(a)
                BY <2>1, <3>3 DEF Free, Working
            <4> QED
                BY <2>2, <2>4, <4>1, <4>2 DEF StatusTruthful
        <3> QED
            BY <3>2, <3>3
    <2> QED
        BY <2>3, <2>4 DEF StatusTruthful
<1>4. CASE PersistFails(d)
    <2>1. /\ pc'[d] = "stopped"
          /\ \A e \in Dispatchers \ {d} : pc'[e] = pc[e] /\ at'[e] = at[e]
        BY <1>4, StepMoves, MovedTo
    <2>2. OneWorker'
        BY <2>1 DEF OneWorker, Working
    <2> QED
        BY <1>4, <2>2
<1> QED
    BY <1>1, <1>2, <1>3, <1>4

LEMMA AdminStatus ==
    ASSUME StatusInv, Admin \/ Stop
    PROVE  Identities' /\ OneWorker' /\ StatusTruthful'
<1> USE DEF StatusInv
<1>1. pc' = pc /\ at' = at /\ faults' = faults
    BY DEF Admin, Request, Write, Register, Stop, Administrating
<1>2. OneWorker' /\ \A a : Free(a)' <=> Free(a)
    BY <1>1 DEF OneWorker, Free
<1>3. ASSUME NEW op \in {"adding", "removing"}, NEW a \in Agents, Request(op, a)
      PROVE  Identities' /\ StatusTruthful'
    BY <1>1, <1>2, <1>3 DEF Request, Identities, StatusTruthful, agentVars
<1>4. CASE Write
    <2>1. Identities'
        BY <1>1, <1>4 DEF Write, Identities, Typed, TypeOK, AgentsTyped
    <2>2. StatusTruthful'
        BY <1>1, <1>2, <1>4 DEF Write, StatusTruthful
    <2> QED
        BY <1>2, <2>1, <2>2
<1>5. CASE Register
    <2>1. Identities'
        BY <1>1, <1>5 DEF Register, Identities
    <2>2. ASSUME faults' = 0, NEW a \in Registered, status'[a] # "absent"
          PROVE  IF Free(a)' THEN status'[a] = "Idle" /\ load'[a] = 0
                             ELSE status'[a] = "Busy" /\ load'[a] = 1
        <3>1. /\ status \in [Agents -> {"absent", "Idle", "Busy"}]
              /\ load \in [Agents -> Nat] /\ a \in Agents /\ admin.agent \in Agents
            BY <1>5, InitialTypes
            DEF Register, Typed, TypeOK, AgentsTyped, AdminNamed
        <3>2. a # admin.agent
            BY <1>5, <2>2, <3>1 DEF Register, Identities
        <3>3. status'[a] = status[a] /\ load'[a] = load[a]
            BY <1>5, <3>1, <3>2 DEF Register
        <3> QED
            BY <1>1, <1>2, <2>2, <3>3 DEF StatusTruthful
    <2> QED
        BY <1>2, <2>1, <2>2 DEF StatusTruthful
<1>6. CASE Stop
    BY <1>1, <1>2, <1>6 DEF Stop, Identities, StatusTruthful, agentVars
<1> QED
    BY <1>2, <1>3, <1>4, <1>5, <1>6 DEF Admin

LEMMA OtherStatus ==
    ASSUME StatusInv,
           Crash \/ UNCHANGED vars \/ \E t \in Tasks : Submit(t) \/ Notify(t)
    PROVE  Identities' /\ OneWorker' /\ (~Crash => StatusTruthful')
<1> USE DEF StatusInv
<1>1. CASE Crash
    BY <1>1, OrchestratorAssumption DEF Crash, Identities, OneWorker, Working
<1>2. ASSUME UNCHANGED <<agentVars, admin, at, faults>>,
             \A d \in Dispatchers : pc'[d] \in Working <=> pc[d] \in Working
      PROVE  Identities' /\ OneWorker' /\ StatusTruthful'
    <2>1. OneWorker' /\ \A a : Free(a)' <=> Free(a)
        BY <1>2 DEF OneWorker, Free
    <2> QED
        BY <1>2, <2>1 DEF Identities, StatusTruthful, agentVars
<1>3. CASE UNCHANGED vars
    BY <1>2, <1>3 DEF vars
<1>4. ASSUME NEW t \in Tasks, Submit(t) \/ Notify(t)
      PROVE  Identities' /\ OneWorker' /\ StatusTruthful'
    <2>1. \A d \in Dispatchers : pc'[d] \in Working <=> pc[d] \in Working
        BY <1>4
        DEF Submit, Notify, NotifyOne, Goto, Working, Typed, TypeOK, DispatchersTyped
    <2> QED
        BY <1>2, <1>4, <2>1 DEF Submit, Notify
<1> QED
    BY <1>1, <1>3, <1>4

LEMMA NextStatus == StatusInv /\ [Next]_vars => StatusInv'
<1>1. SUFFICES ASSUME StatusInv, [Next]_vars
               PROVE  StatusInv'
    OBVIOUS
<1>2. Typed'
    BY <1>1, NextTyped DEF StatusInv
<1>3. Identities' /\ OneWorker'
    BY <1>1, DispatchIdentities, DispatchStatus, AdminStatus, OtherStatus
    DEF Next, StatusInv
<1>4. StatusTruthful'
    <2>1. CASE faults' = 0
        <3>1. ~Crash /\ \A d \in Dispatchers : ~PersistFails(d)
            BY <1>1, <2>1, FaultsGrow DEF StatusInv
        <3> QED
            BY <1>1, <3>1, DispatchStatus, AdminStatus, OtherStatus DEF Next
    <2>2. CASE faults' # 0
        BY <2>2 DEF StatusTruthful
    <2> QED
        BY <2>1, <2>2
<1> QED
    BY <1>2, <1>3, <1>4 DEF StatusInv

\* The status table tells the truth of the agents that initialize() creates:
\* the mutex of an agent lets one dispatcher at a time mark it Busy and Idle
\* again, and identities of agents are not reused.
THEOREM StatusAlwaysTruthful == Spec => [](OneWorker /\ StatusTruthful)
<1>1. StatusInv => OneWorker /\ StatusTruthful
    BY DEF StatusInv
<1> QED
    BY <1>1, InitStatus, NextStatus, PTL DEF Spec

-----------------------------------------------------------------------------
(* Where tasks are.                                                        *)

\* A set with one or two elements has a positive or a larger cardinality.
LEMMA FewElements ==
    ASSUME NEW S, IsFiniteSet(S)
    PROVE  /\ Cardinality(S) \in Nat /\ (Cardinality(S) = 0 <=> S = {})
           /\ Cardinality(S) <= 1 => \A x, y \in S : x = y
<1>1. Cardinality(S) \in Nat /\ (Cardinality(S) = 0 <=> S = {})
    BY FS_CardinalityType, FS_EmptySet
<1>2. ASSUME Cardinality(S) <= 1, NEW x \in S, NEW y \in S
      PROVE  x = y
    <2>1. Cardinality(S) = 1
        BY <1>1, <1>2
    <2>2. PICK z : S = {z}
        BY <2>1, FS_Singleton
    <2> QED
        BY <2>2
<1> QED
    BY <1>1, <1>2

\* A move takes a task out of a dispatcher's hands, or puts one there.
LEMMA HoldersMove ==
    ASSUME Typed, FinitelyHeld, NEW d \in Dispatchers, NEW to, NEW j, NEW a,
           Moves(d, to, j, a), NEW t \in Tasks
    PROVE  /\ IsFiniteSet(Holders(t)')
           /\ j = t => Holders(t)' = Holders(t) \cup {d}
           /\ j # t => Holders(t)' = Holders(t) \ {d}
           /\ (j = t <=> job[d] = t) => Holders(t)' = Holders(t)
<1>1. /\ j = t => Holders(t)' = Holders(t) \cup {d}
      /\ j # t => Holders(t)' = Holders(t) \ {d}
      /\ job[d] = t <=> d \in Holders(t)
    BY MovedTo DEF Holders
<1>2. IsFiniteSet(Holders(t))
    BY DEF FinitelyHeld
<1> QED
    BY <1>1, <1>2, FS_AddElement, FS_RemoveElement

Places == StatusInv /\ InProgress /\ FinitelyHeld /\ Accounted

\* The numbers that Accounted adds up, and what follows from their sum.
LEMMA PlacesOf ==
    ASSUME Places, NEW t \in Tasks
    PROVE  /\ Occurrences(queue, t) \in Nat /\ Occurrences(completed, t) \in Nat
           /\ Occurrences(failed, t) \in Nat /\ Cardinality(Holders(t)) \in Nat
           /\ Cardinality(Holders(t)) = 0 <=> Holders(t) = {}
           /\ Occurrences(queue, t) > 0 => Holders(t) = {} /\ t \notin inProgress
           /\ Holders(t) # {} => /\ t \in submitted /\ Occurrences(queue, t) = 0
                                 /\ Occurrences(completed, t) = 0
                                 /\ Occurrences(failed, t) = 0
                                 /\ Cardinality(Holders(t)) = 1
           /\ t \notin submitted => /\ Holders(t) = {} /\ t \notin inProgress
                                    /\ Occurrences(queue, t) = 0
                                    /\ Occurrences(completed, t) = 0
                                    /\ Occurrences(failed, t) = 0
<1>1. /\ Occurrences(queue, t) \in Nat /\ Occurrences(completed, t) \in Nat
      /\ Occurrences(failed, t) \in Nat
    BY OccurrencesType DEF Places, StatusInv, Typed, TypeOK, TasksTyped
<1>2. /\ Cardinality(Holders(t)) \in Nat
      /\ Cardinality(Holders(t)) = 0 <=> Holders(t) = {}
    BY FewElements DEF Places, FinitelyHeld
<1>3. Occurrences(queue, t) + Occurrences(completed, t) + Occurrences(failed, t)
          + Cardinality(Holders(t)) + (IF Stranded(t) THEN 1 ELSE 0)
              = IF t \in submitted THEN 1 ELSE 0
    BY DEF Places, Accounted, AccountedFor
<1>4. Stranded(t) <=> t \in inProgress /\ Holders(t) = {}
    BY DEF Stranded
<1> QED
    BY <1>1, <1>2, <1>3, <1>4

\* One dispatcher holds a task.
LEMMA OneHolder ==
    ASSUME Places, NEW t \in Tasks, NEW d \in Dispatchers, job[d] = t
    PROVE  /\ Holders(t) = {d}
           /\ \A e \in Dispatchers : job[e] = t => e = d
<1>1. d \in Holders(t) /\ IsFiniteSet(Holders(t))
    BY DEF Holders, Places, FinitelyHeld
<1>2. Cardinality(Holders(t)) <= 1
    BY <1>1, PlacesOf
<1>3. \A e \in Holders(t) : e = d
    BY <1>1, <1>2, FewElements
<1> QED
    BY <1>1, <1>3 DEF Holders

\* Sorting keeps what is in the queue.
LEMMA SortKeeps ==
    ASSUME NEW q \in Seq(Tasks), NEW t \in Tasks
    PROVE  Occurrences(ByPriority(q), t) = Occurrences(q, t)
<1>1. ASSUME NEW p
      PROVE  /\ OfPrio(q, p) \in Seq(Tasks)
             /\ Occurrences(OfPrio(q, p), t) = IF Prio[t] = p THEN Occurrences(q, t) ELSE 0
    BY KeepIn, OccurrencesKeep DEF OfPrio
<1> DEFINE a == OfPrio(q, Critical)
           b == OfPrio(q, High)
           c == OfPrio(q, Normal)
           e == OfPrio(q, Low)
<1>2. a \in Seq(Tasks) /\ b \in Seq(Tasks) /\ c \in Seq(Tasks) /\ e \in Seq(Tasks)
    BY <1>1
<1>3. /\ Occurrences(a, t) = IF Prio[t] = Critical THEN Occurrences(q, t) ELSE 0
      /\ Occurrences(b, t) = IF Prio[t] = High THEN Occurrences(q, t) ELSE 0
      /\ Occurrences(c, t) = IF Prio[t] = Normal THEN Occurrences(q, t) ELSE 0
      /\ Occurrences(e, t) = IF Prio[t] = Low THEN Occurrences(q, t) ELSE 0
    BY <1>1
<1>4. ByPriority(q) = a \o b \o c \o e
    BY DEF ByPriority
<1> HIDE DEF a, b, c, e
<1>5. a \o b \in Seq(Tasks) /\ Occurrences(a \o b, t) = Occurrences(a, t) + Occurrences(b, t)
    BY <1>2, ConcatProperties, OccurrencesConcat
<1> DEFINE ab == a \o b
<1>6. ab \in Seq(Tasks) /\ Occurrences(ab, t) = Occurrences(a, t) + Occurrences(b, t)
    BY <1>5
<1> HIDE DEF ab
<1>7. /\ ab \o c \in Seq(Tasks)
      /\ Occurrences(ab \o c, t) = Occurrences(ab, t) + Occurrences(c, t)
    BY <1>2, <1>6, ConcatProperties, OccurrencesConcat
<1> DEFINE abc == ab \o c
<1>8. abc \in Seq(Tasks) /\ Occurrences(abc, t) = Occurrences(ab, t) + Occurrences(c, t)
    BY <1>7
<1> HIDE DEF abc
<1>9. Occurrences(abc \o e, t) = Occurrences(abc, t) + Occurrences(e, t)
    BY <1>2, <1>8, OccurrencesConcat
<1>10. Occurrences(q, t) \in Nat
    BY OccurrencesType
<1>11. Prio[t] \in {Critical, High, Normal, Low}
    BY OrchestratorAssumption
<1>12. Critical = 10 /\ High = 8 /\ Normal = 5 /\ Low = 1
    BY DEF Critical, High, Normal, Low
<1>13. Occurrences(a, t) + Occurrences(b, t) + Occurrences(c, t) + Occurrences(e, t)
           = Occurrences(q, t)
    BY <1>3, <1>10, <1>11, <1>12
<1>14. ByPriority(q) = abc \o e
    BY <1>4 DEF ab, abc
<1> QED
    BY <1>6, <1>8, <1>9, <1>13, <1>14

\* A step that leaves t where it is.
LEMMA Untouched ==
    ASSUME Places, NEW t \in Tasks,
           Occurrences(queue, t)' = Occurrences(queue, t),
           Occurrences(completed, t)' = Occurrences(completed, t),
           Occurrences(failed, t)' = Occurrences(failed, t),
           Holders(t)' = Holders(t), t \in inProgress' <=> t \in inProgress,
           t \in submitted' <=> t \in submitted, removed # {} => removed' # {}
    PROVE  AccountedFor(t)'
<1>1. AccountedFor(t)
    BY DEF Places, Accounted
<1>2. Stranded(t)' <=> Stranded(t)
    BY DEF Stranded
<1>3. Cardinality(Holders(t))' = Cardinality(Holders(t))
    OBVIOUS
<1> QED
    BY <1>1, <1>2, <1>3 DEF AccountedFor

\* A step of d that takes no task up and hands none on.
LEMMA HandsKept ==
    ASSUME Places, NEW d \in Dispatchers, NEW to, NEW a, Moves(d, to, job[d], a),
           \A t \in Tasks : Occurrences(queue, t)' = Occurrences(queue, t),
           UNCHANGED <<completed, failed, inProgress, submitted, removed>>,
           job[d] \in Tasks =>
                (pc[d] \in {"lookup", "process"} <=> to \in {"lookup", "process"})
    PROVE  InProgress' /\ FinitelyHeld' /\ Accounted'
<1>1. ASSUME NEW t \in Tasks
      PROVE  IsFiniteSet(Holders(t)') /\ AccountedFor(t)'
    <2>1. IsFiniteSet(Holders(t)') /\ Holders(t)' = Holders(t)
        BY HoldersMove DEF Places, StatusInv
    <2> QED
        BY <2>1, Untouched
<1>2. ASSUME NEW e \in Dispatchers, job'[e] \in Tasks
      PROVE  job'[e] \in inProgress' <=> pc'[e] \in {"lookup", "process"}
    <2>1. /\ job'[e] = job[e]
          /\ e # d => pc'[e] = pc[e]
          /\ e = d => pc'[e] = to
        BY MovedTo DEF Places, StatusInv
    <2>2. job[e] \in inProgress <=> pc[e] \in {"lookup", "process"}
        BY <1>2, <2>1 DEF Places, InProgress
    <2> QED
        BY <1>2, <2>1, <2>2
<1> QED
    BY <1>1, <1>2 DEF InProgress, FinitelyHeld, Accounted

\* The steps of that kind.
LEMMA QuietPlaces ==
    ASSUME Places, NEW d \in Dispatchers,
           Start(d) \/ Dispatch(d), ~Pop(d), ~PutBack(d), ~Assign(d), ~LookupFails(d),
           ~Complete(d), ~Fail(d)
    PROVE  InProgress' /\ FinitelyHeld' /\ Accounted'
<1>1. Typed /\ queue \in Seq(Tasks)
    BY DEF Places, StatusInv, Typed, TypeOK, TasksTyped
<1>2. UNCHANGED <<completed, failed, inProgress, submitted, removed>>
    BY DEF Start, Dispatch, Loop, Drain, Notified, Sort, Prefer, Fallback, Scan, Lookup,
           Persist, PersistFails, Report, taskVars, agentVars
<1>3. \A t \in Tasks : Occurrences(queue, t)' = Occurrences(queue, t)
    <2>1. CASE Sort(d)
        BY <1>1, <2>1, SortKeeps DEF Sort
    <2>2. CASE ~Sort(d)
        BY <2>2
        DEF Start, Dispatch, Loop, Drain, Notified, Prefer, Fallback, Scan, Lookup,
            Persist, PersistFails, Report, taskVars
    <2> QED
        BY <2>1, <2>2
<1>4. CASE Start(d) \/ Loop(d) \/ Drain(d) \/ Notified(d) \/ Sort(d)
    <2>1. job[d] = None /\ \E to : Moves(d, to, None, None)
        BY <1>1, <1>4, StepMoves, AtHand DEF WithJob
    <2> QED
        BY <1>1, <1>2, <1>3, <2>1, HandsKept, AtHand
<1>5. CASE Prefer(d) \/ Fallback(d) \/ Scan(d)
    <2>1. /\ pc[d] \notin {"lookup", "process"}
          /\ \E to, a : Moves(d, to, job[d], a) /\ to \notin {"lookup", "process"}
        BY <1>1, <1>5, StepMoves
    <2> QED
        BY <1>2, <1>3, <2>1, HandsKept
<1>6. CASE Lookup(d)
    <2>1. pc[d] = "lookup" /\ Moves(d, "process", job[d], at[d])
        BY <1>1, <1>6, StepMoves
    <2> QED
        BY <1>2, <1>3, <2>1, HandsKept
<1>7. CASE Persist(d) \/ PersistFails(d) \/ Report(d)
    <2>1. job[d] = None /\ \E to, a : Moves(d, to, None, a)
        BY <1>1, <1>7, StepMoves, AtHand DEF WithJob
    <2> QED
        BY <1>1, <1>2, <1>3, <2>1, HandsKept, AtHand
<1> QED
    BY <1>4, <1>5, <1>6, <1>7 DEF Dispatch

LEMMA PopPlaces ==
    ASSUME Places, NEW d \in Dispatchers, Pop(d)
    PROVE  InProgress' /\ FinitelyHeld' /\ Accounted'
<1>1. Typed /\ queue \in Seq(Tasks)
    BY DEF Places, StatusInv, Typed, TypeOK, TasksTyped
<1>2. pc[d] = "pop" /\ job[d] = None
    BY <1>1, StepMoves, AtHand DEF WithJob
<1>3. UNCHANGED <<completed, failed, inProgress, submitted, removed>>
    BY DEF Pop, agentVars
<1>4. CASE queue = <<>>
    <2>1. Moves(d, "drain", job[d], None)
        BY <1>1, <1>2, <1>4, StepMoves
    <2>2. \A t \in Tasks : Occurrences(queue, t)' = Occurrences(queue, t)
        BY <1>4 DEF Pop
    <2> QED
        BY <1>1, <1>2, <1>3, <2>1, <2>2, HandsKept, AtHand
<1>5. CASE queue # <<>>
    <2> DEFINE x == Head(queue)
    <2>1. /\ x \in Tasks /\ queue' = Tail(queue)
          /\ \A t : Occurrences(queue, t) =
                        (IF x = t THEN 1 ELSE 0) + Occurrences(Tail(queue), t)
        BY <1>1, <1>5, OccurrencesTail DEF Pop
    <2>2. Moves(d, "prefer", x, None)
        BY <1>1, <1>5, StepMoves
    <2>3. \A t : Occurrences(Tail(queue), t) \in Nat
        BY <1>1, <1>5, OccurrencesTail, OccurrencesType
    <2> HIDE DEF x
    <2>4. Holders(x) = {} /\ x \notin inProgress
        BY <2>1, <2>3, PlacesOf
    <2>5. ASSUME NEW t \in Tasks
          PROVE  IsFiniteSet(Holders(t)') /\ AccountedFor(t)'
        <3>1. /\ IsFiniteSet(Holders(t)')
              /\ t = x => Holders(t)' = Holders(t) \cup {d}
              /\ t # x => Holders(t)' = Holders(t)
            BY <1>1, <1>2, <2>2, HoldersMove, AtHand DEF Places
        <3>2. CASE t # x
            <4>1. Occurrences(queue, t)' = Occurrences(queue, t)
                BY <2>1, <2>3, <3>2
            <4> QED
                BY <1>3, <3>1, <3>2, <4>1, Untouched
        <3>3. CASE t = x
            <4>1. Holders(t)' = {d} /\ Cardinality(Holders(t))' = 1
                BY <2>4, <3>1, <3>3, FS_Singleton
            <4>2. ~Stranded(t)' /\ ~Stranded(t) /\ Cardinality(Holders(t)) = 0
                BY <1>3, <2>4, <3>3, <4>1, PlacesOf DEF Stranded
            <4>3. Occurrences(queue, t) = 1 + Occurrences(queue, t)'
                BY <2>1, <3>3
            <4>4. AccountedFor(t)
                BY DEF Places, Accounted
            <4>5. Occurrences(completed, t) \in Nat /\ Occurrences(failed, t) \in Nat
                  /\ Occurrences(queue, t)' \in Nat
                BY <2>1, <2>3, PlacesOf
            <4> QED
                BY <1>3, <3>1, <4>1, <4>2, <4>3, <4>4, <4>5 DEF AccountedFor
        <3> QED
            BY <3>1, <3>2, <3>3
    <2>6. ASSUME NEW e \in Dispatchers, job'[e] \in Tasks
          PROVE  job'[e] \in inProgress' <=> pc'[e] \in {"lookup", "process"}
        <3>1. CASE e = d
            BY <1>1, <1>3, <2>2, <2>4, <3>1, MovedTo
        <3>2. CASE e # d
            BY <1>1, <1>3, <2>2, <2>6, <3>2, MovedTo DEF Places, InProgress
        <3> QED
            BY <3>1, <3>2
    <2> QED
        BY <2>5, <2>6 DEF InProgress, FinitelyHeld, Accounted
<1> QED
    BY <1>4, <1>5

\* A dispatcher gives its task x away: to the queue, to the completed or the
\* failed tasks, or nowhere.
LEMMA HandsOver ==
    ASSUME Places, NEW d \in Dispatchers, NEW x \in Tasks, job[d] = x,
           NEW to, NEW a, Moves(d, to, None, a),
           \A t \in Tasks \ {x} : /\ Occurrences(queue, t)' = Occurrences(queue, t)
                                  /\ Occurrences(completed, t)' = Occurrences(completed, t)
                                  /\ Occurrences(failed, t)' = Occurrences(failed, t)
                                  /\ t \in inProgress' <=> t \in inProgress,
           UNCHANGED <<submitted, removed>>,
           Occurrences(queue, x)' + Occurrences(completed, x)' + Occurrences(failed, x)'
               + (IF x \in inProgress' THEN 1 ELSE 0) = 1,
           Occurrences(queue, x)' \in Nat, Occurrences(completed, x)' \in Nat,
           Occurrences(failed, x)' \in Nat,
           x \in inProgress' => removed # {}
    PROVE  InProgress' /\ FinitelyHeld' /\ Accounted'
<1>1. Typed /\ None \notin Tasks
    BY OrchestratorAssumption DEF Places, StatusInv
<1>2. Holders(x) = {d} /\ x \in submitted /\ \A e \in Dispatchers : job[e] = x => e = d
    BY OneHolder, PlacesOf
<1>3. ASSUME NEW t \in Tasks
      PROVE  IsFiniteSet(Holders(t)') /\ AccountedFor(t)'
    <2>1. /\ IsFiniteSet(Holders(t)') /\ Holders(t)' = Holders(t) \ {d}
          /\ t # x => Holders(t)' = Holders(t)
        BY <1>1, HoldersMove DEF Places
    <2>2. CASE t # x
        BY <2>1, <2>2, Untouched
    <2>3. CASE t = x
        <3>1. Holders(t)' = {} /\ Cardinality(Holders(t))' = 0
            BY <1>2, <2>1, <2>3, FS_EmptySet
        <3>2. Stranded(t)' <=> t \in inProgress'
            BY <3>1 DEF Stranded
        <3> QED
            BY <1>2, <2>1, <2>3, <3>1, <3>2 DEF AccountedFor
    <2> QED
        BY <2>1, <2>2, <2>3
<1>4. ASSUME NEW e \in Dispatchers, job'[e] \in Tasks
      PROVE  job'[e] \in inProgress' <=> pc'[e] \in {"lookup", "process"}
    <2>1. e # d /\ job'[e] = job[e] /\ pc'[e] = pc[e]
        BY <1>1, <1>4, MovedTo
    <2>2. job[e] \in Tasks \ {x}
        BY <1>2, <1>4, <2>1
    <2> QED
        BY <2>1, <2>2 DEF Places, InProgress
<1> QED
    BY <1>3, <1>4 DEF InProgress, FinitelyHeld, Accounted

\* Occurrences after a push at either end.
LEMMA Pushed ==
    ASSUME NEW q \in Seq(Tasks), NEW x \in Tasks
    PROVE  /\ \A t : Occurrences(<<x>> \o q, t) = (IF x = t THEN 1 ELSE 0) + Occurrences(q, t)
           /\ \A t : Occurrences(Append(q, x), t) = Occurrences(q, t) + (IF x = t THEN 1 ELSE 0)
           /\ \A t : Occurrences(q, t) \in Nat
    BY OccurrencesFront, OccurrencesAppend

LEMMA PutBackPlaces ==
    ASSUME Places, NEW d \in Dispatchers, PutBack(d)
    PROVE  InProgress' /\ FinitelyHeld' /\ Accounted'
<1>1. Typed /\ queue \in Seq(Tasks)
    BY DEF Places, StatusInv, Typed, TypeOK, TasksTyped
<1>2. pc[d] = "put_back" /\ job[d] \in Tasks /\ Moves(d, "drain", None, None)
    BY <1>1, StepMoves, AtHand DEF WithJob
<1>3. PICK x \in Tasks : job[d] = x
    BY <1>2
<1>4. /\ queue' = <<x>> \o queue
      /\ UNCHANGED <<completed, failed, inProgress, submitted, removed>>
    BY <1>3 DEF PutBack, agentVars
<1>5. x \notin inProgress
    BY <1>2, <1>3 DEF Places, InProgress
<1>6. /\ Occurrences(queue, x) = 0 /\ Occurrences(completed, x) = 0
      /\ Occurrences(failed, x) = 0
    BY <1>2, <1>3, OneHolder, PlacesOf
<1>7. /\ Occurrences(queue, x)' = 1 /\ Occurrences(completed, x)' = 0
      /\ Occurrences(failed, x)' = 0
      /\ \A t \in Tasks \ {x} : Occurrences(queue, t)' = Occurrences(queue, t)
    <2>1. \A t : Occurrences(<<x>> \o queue, t)
                    = (IF x = t THEN 1 ELSE 0) + Occurrences(queue, t)
                 /\ Occurrences(queue, t) \in Nat
        BY <1>1, <1>2, Pushed
    <2> QED
        BY <1>4, <1>6, <2>1
<1>8. ASSUME NEW t \in Tasks \ {x}
      PROVE  /\ Occurrences(queue, t)' = Occurrences(queue, t)
             /\ Occurrences(completed, t)' = Occurrences(completed, t)
             /\ Occurrences(failed, t)' = Occurrences(failed, t)
             /\ t \in inProgress' <=> t \in inProgress
    BY <1>4, <1>7
<1>9. x \notin inProgress'
    BY <1>4, <1>5
<1>10. Occurrences(queue, x)' + Occurrences(completed, x)' + Occurrences(failed, x)' = 1
    BY <1>7
<1>11. /\ Occurrences(queue, x)' \in Nat /\ Occurrences(completed, x)' \in Nat
       /\ Occurrences(failed, x)' \in Nat
    BY <1>7
<1> QED
    BY <1>2, <1>3, <1>4, <1>8, <1>9, <1>10, <1>11, HandsOver

LEMMA LookupFailsPlaces ==
    ASSUME Places, NEW d \in Dispatchers, LookupFails(d)
    PROVE  InProgress' /\ FinitelyHeld' /\ Accounted'
<1>1. Typed
    BY DEF Places, StatusInv
<1>2. /\ pc[d] = "lookup" /\ job[d] \in Tasks /\ at[d] \in Agents
      /\ Moves(d, "drain", None, None)
    BY <1>1, StepMoves, AtHand DEF WithJob, WithAgent
<1>3. PICK x \in Tasks : job[d] = x
    BY <1>2
<1>4. UNCHANGED <<queue, completed, failed, inProgress, submitted, removed>>
    BY DEF LookupFails, taskVars, agentVars
<1>5. x \in inProgress
    BY <1>2, <1>3 DEF Places, InProgress
<1>6. /\ Occurrences(queue, x) = 0 /\ Occurrences(completed, x) = 0
      /\ Occurrences(failed, x) = 0
    BY <1>2, <1>3, OneHolder, PlacesOf
<1>7. removed # {}
    BY <1>2 DEF LookupFails, Places, StatusInv, Identities
<1> QED
    BY <1>2, <1>3, <1>4, <1>5, <1>6, <1>7, HandsOver

LEMMA OutcomePlaces ==
    ASSUME Places, NEW d \in Dispatchers, Complete(d) \/ Fail(d)
    PROVE  InProgress' /\ FinitelyHeld' /\ Accounted'
<1>1. /\ Typed /\ queue \in Seq(Tasks) /\ completed \in Seq(Tasks) /\ failed \in Seq(Tasks)
    BY DEF Places, StatusInv, Typed, TypeOK, TasksTyped
<1>2. job[d] \in Tasks /\ \E to, a : Moves(d, to, None, a)
    BY <1>1, StepMoves, AtHand DEF WithJob
<1>3. PICK x \in Tasks : job[d] = x
    BY <1>2
<1>4. /\ inProgress' = inProgress \ {x} /\ UNCHANGED <<submitted, removed>>
      /\ \/ queue' = <<x>> \o queue /\ UNCHANGED <<completed, failed>>
         \/ completed' = Append(completed, x) /\ UNCHANGED <<queue, failed>>
         \/ failed' = Append(failed, x) /\ UNCHANGED <<queue, completed>>
    BY <1>3 DEF Complete, Fail, agentVars
<1>5. /\ Occurrences(queue, x) = 0 /\ Occurrences(completed, x) = 0
      /\ Occurrences(failed, x) = 0
    BY <1>2, <1>3, OneHolder, PlacesOf
<1>6. /\ \A t : Occurrences(<<x>> \o queue, t)
                    = (IF x = t THEN 1 ELSE 0) + Occurrences(queue, t)
      /\ \A t : Occurrences(Append(completed, x), t)
                    = Occurrences(completed, t) + (IF x = t THEN 1 ELSE 0)
      /\ \A t : Occurrences(Append(failed, x), t)
                    = Occurrences(failed, t) + (IF x = t THEN 1 ELSE 0)
      /\ \A t : /\ Occurrences(queue, t) \in Nat /\ Occurrences(completed, t) \in Nat
                /\ Occurrences(failed, t) \in Nat
    BY <1>1, <1>2, Pushed
<1>7. ASSUME NEW t \in Tasks \ {x}
      PROVE  /\ Occurrences(queue, t)' = Occurrences(queue, t)
             /\ Occurrences(completed, t)' = Occurrences(completed, t)
             /\ Occurrences(failed, t)' = Occurrences(failed, t)
             /\ t \in inProgress' <=> t \in inProgress
    <2>1. t \in inProgress' <=> t \in inProgress
        BY <1>4
    <2>2. CASE queue' = <<x>> \o queue /\ UNCHANGED <<completed, failed>>
        BY <1>6, <2>1, <2>2
    <2>3. CASE completed' = Append(completed, x) /\ UNCHANGED <<queue, failed>>
        BY <1>6, <2>1, <2>3
    <2>4. CASE failed' = Append(failed, x) /\ UNCHANGED <<queue, completed>>
        BY <1>6, <2>1, <2>4
    <2> QED
        BY <1>4, <2>2, <2>3, <2>4
<1>8. /\ Occurrences(queue, x)' \in Nat /\ Occurrences(completed, x)' \in Nat
      /\ Occurrences(failed, x)' \in Nat
      /\ Occurrences(queue, x)' + Occurrences(completed, x)' + Occurrences(failed, x)' = 1
    <2>1. CASE queue' = <<x>> \o queue /\ UNCHANGED <<completed, failed>>
        BY <1>5, <1>6, <2>1
    <2>2. CASE completed' = Append(completed, x) /\ UNCHANGED <<queue, failed>>
        BY <1>5, <1>6, <2>2
    <2>3. CASE failed' = Append(failed, x) /\ UNCHANGED <<queue, completed>>
        BY <1>5, <1>6, <2>3
    <2> QED
        BY <1>4, <2>1, <2>2, <2>3
<1>9. x \notin inProgress'
    BY <1>4
<1> QED
    BY <1>2, <1>3, <1>4, <1>7, <1>8, <1>9, HandsOver

LEMMA AssignPlaces ==
    ASSUME Places, NEW d \in Dispatchers, Assign(d)
    PROVE  InProgress' /\ FinitelyHeld' /\ Accounted'
<1>1. Typed
    BY DEF Places, StatusInv
<1>2. job[d] \in Tasks /\ Moves(d, "lookup", job[d], at[d])
    BY <1>1, StepMoves, AtHand DEF WithJob
<1>3. /\ inProgress' = inProgress \cup {job[d]}
      /\ UNCHANGED <<queue, completed, failed, submitted, removed>>
    BY DEF Assign, agentVars
<1>4. ASSUME NEW t \in Tasks
      PROVE  IsFiniteSet(Holders(t)') /\ AccountedFor(t)'
    <2>1. IsFiniteSet(Holders(t)') /\ Holders(t)' = Holders(t)
        BY <1>1, <1>2, HoldersMove DEF Places
    <2>2. CASE t # job[d]
        BY <1>3, <2>1, <2>2, Untouched
    <2>3. CASE t = job[d]
        <3>1. Holders(t) # {}
            BY <2>3 DEF Holders
        <3>2. ~Stranded(t)' /\ ~Stranded(t)
            BY <2>1, <3>1 DEF Stranded
        <3>3. AccountedFor(t)
            BY DEF Places, Accounted
        <3>4. Cardinality(Holders(t))' = Cardinality(Holders(t))
            BY <2>1
        <3> QED
            BY <1>3, <2>1, <3>2, <3>3, <3>4 DEF AccountedFor
    <2> QED
        BY <2>1, <2>2, <2>3
<1>5. ASSUME NEW e \in Dispatchers, job'[e] \in Tasks
      PROVE  job'[e] \in inProgress' <=> pc'[e] \in {"lookup", "process"}
    <2>1. CASE e = d
        BY <1>1, <1>2, <1>3, <2>1, MovedTo
    <2>2. CASE e # d
        <3>1. job'[e] = job[e] /\ pc'[e] = pc[e]
            BY <1>1, <1>2, <2>2, MovedTo
        <3>2. job[e] # job[d]
            BY <1>2, <2>2, OneHolder
        <3> QED
            BY <1>3, <1>5, <3>1, <3>2 DEF Places, InProgress
    <2> QED
        BY <2>1, <2>2
<1> QED
    BY <1>4, <1>5 DEF InProgress, FinitelyHeld, Accounted

LEMMA SubmitPlaces ==
    ASSUME Places, NEW x \in Tasks, Submit(x)
    PROVE  InProgress' /\ FinitelyHeld' /\ Accounted'
<1>1. queue \in Seq(Tasks)
    BY DEF Places, StatusInv, Typed, TypeOK, TasksTyped
<1>2. /\ x \notin submitted /\ submitted' = submitted \cup {x} /\ queue' = Append(queue, x)
      /\ UNCHANGED <<completed, failed, inProgress, job, pc, removed>>
    BY DEF Submit, agentVars
<1>3. InProgress' /\ FinitelyHeld' /\ \A t : Holders(t)' = Holders(t)
    BY <1>2 DEF Places, InProgress, FinitelyHeld, Holders
<1>4. \A t : Occurrences(Append(queue, x), t)
                = Occurrences(queue, t) + (IF x = t THEN 1 ELSE 0)
             /\ Occurrences(queue, t) \in Nat
    BY <1>1, Pushed, ZenonT(60)
<1>5. ASSUME NEW t \in Tasks
      PROVE  AccountedFor(t)'
    <2>1. CASE t # x
        <3>1. Occurrences(queue, t)' = Occurrences(queue, t)
            BY <1>2, <1>4, <2>1
        <3> QED
            BY <1>2, <1>3, <2>1, <3>1, Untouched
    <2>2. CASE t = x
        <3>1. /\ Occurrences(queue, t) = 0 /\ Occurrences(completed, t) = 0
              /\ Occurrences(failed, t) = 0 /\ Holders(t) = {} /\ t \notin inProgress
              /\ Cardinality(Holders(t)) = 0
            BY <1>2, <2>2, PlacesOf
        <3>2. Occurrences(queue, t)' = 1
            BY <1>2, <1>4, <2>2, <3>1
        <3>3. ~Stranded(t)'
            BY <1>2, <3>1 DEF Stranded
        <3>4. Cardinality(Holders(t))' = 0
            BY <1>3, <3>1
        <3> QED
            BY <1>2, <2>2, <3>1, <3>2, <3>3, <3>4 DEF AccountedFor
    <2> QED
        BY <2>1, <2>2
<1> QED
    BY <1>3, <1>5 DEF Accounted

LEMMA OtherPlaces ==
    ASSUME Places,
           Admin \/ Stop \/ Crash \/ UNCHANGED vars \/ \E t \in Tasks : Notify(t)
    PROVE  InProgress' /\ FinitelyHeld' /\ Accounted'
<1>1. Typed
    BY DEF Places, StatusInv
<1>2. CASE Crash
    <2>1. /\ queue' = <<>> /\ completed' = <<>> /\ failed' = <<>> /\ inProgress' = {}
          /\ submitted' = {} /\ job' = [d \in Dispatchers |-> None] /\ None \notin Tasks
        BY <1>2, OrchestratorAssumption DEF Crash
    <2>2. \A t \in Tasks : Holders(t)' = {}
        BY <2>1 DEF Holders
    <2>3. FinitelyHeld' /\ \A t \in Tasks : Cardinality(Holders(t))' = 0
        BY <2>2, FS_EmptySet DEF FinitelyHeld
    <2>4. ASSUME NEW t \in Tasks
          PROVE  AccountedFor(t)'
        BY <2>1, <2>3, OccurrencesEmpty DEF AccountedFor, Stranded
    <2> QED
        BY <2>1, <2>3, <2>4 DEF InProgress, Accounted
<1>3. ASSUME UNCHANGED <<queue, completed, failed, inProgress, submitted, job>>,
             removed # {} => removed' # {},
             \A d \in Dispatchers : pc'[d] \in {"lookup", "process"}
                                        <=> pc[d] \in {"lookup", "process"}
      PROVE  InProgress' /\ FinitelyHeld' /\ Accounted'
    <2>1. \A t : Holders(t)' = Holders(t)
        BY <1>3 DEF Holders
    <2>2. Accounted'
        BY <1>3, <2>1, Untouched DEF Accounted
    <2> QED
        BY <1>3, <2>1, <2>2 DEF Places, InProgress, FinitelyHeld
<1>4. CASE Admin \/ Stop \/ UNCHANGED vars
    <2>1. /\ UNCHANGED <<queue, completed, failed, inProgress, submitted, job, pc>>
          /\ removed # {} => removed' # {}
        BY <1>4
        DEF Admin, Request, Write, Register, Administrating, Stop, vars, taskVars, agentVars
    <2> QED
        BY <1>3, <2>1
<1>5. ASSUME NEW t \in Tasks, Notify(t)
      PROVE  InProgress' /\ FinitelyHeld' /\ Accounted'
    <2>1. UNCHANGED <<queue, completed, failed, inProgress, submitted, job, removed>>
        BY <1>5 DEF Notify, agentVars
    <2>2. \A d \in Dispatchers : pc'[d] \in {"lookup", "process"}
                                    <=> pc[d] \in {"lookup", "process"}
        BY <1>1, <1>5
        DEF Notify, NotifyOne, Goto, Typed, TypeOK, DispatchersTyped
    <2> QED
        BY <1>3, <2>1, <2>2
<1> QED
    BY <1>2, <1>4, <1>5

LEMMA InitPlaces == Init => Places
<1>1. SUFFICES ASSUME Init
               PROVE  InProgress /\ FinitelyHeld /\ Accounted
    BY InitStatus DEF Places
<1>2. /\ queue = <<>> /\ completed = <<>> /\ failed = <<>> /\ inProgress = {}
      /\ submitted = {} /\ job = [d \in Dispatchers |-> None] /\ None \notin Tasks
    BY <1>1, OrchestratorAssumption DEF Init
<1>3. FinitelyHeld /\ \A t \in Tasks : Cardinality(Holders(t)) = 0
    BY <1>2, FS_EmptySet DEF FinitelyHeld, Holders
<1>4. Accounted
    BY <1>2, <1>3, OccurrencesEmpty DEF Accounted, AccountedFor, Stranded
<1> QED
    BY <1>2, <1>3, <1>4 DEF InProgress

LEMMA NextPlaces == Places /\ [Next]_vars => Places'
<1>1. SUFFICES ASSUME Places, [Next]_vars
               PROVE  InProgress' /\ FinitelyHeld' /\ Accounted'
    BY NextStatus DEF Places
<1>2. ASSUME NEW d \in Dispatchers, Start(d) \/ Dispatch(d)
      PROVE  InProgress' /\ FinitelyHeld' /\ Accounted'
    BY <1>1, <1>2, QuietPlaces, PopPlaces, PutBackPlaces, AssignPlaces,
       LookupFailsPlaces,
       OutcomePlaces
<1> QED
    BY <1>1, <1>2, SubmitPlaces, OtherPlaces DEF Next

\* No task is lost or duplicated: see Accounted.  However many dispatchers
\* sort, pop, put back and retry at once, and whatever agents are removed.
THEOREM TasksAccounted == Spec => []Accounted
<1>1. Places => Accounted
    BY DEF Places
<1> QED
    BY <1>1, InitPlaces, NextPlaces, PTL DEF Spec

-----------------------------------------------------------------------------
(* Retries.                                                                *)

\* A step that leaves the attempts at t as they are.
LEMMA AttemptsKept ==
    ASSUME NEW t, AttemptsAt(t), attempts'[t] = attempts[t], retries'[t] = retries[t],
           Occurrences(completed, t)' = Occurrences(completed, t),
           Occurrences(failed, t)' = Occurrences(failed, t),
           Processing(t)' <=> Processing(t)
    PROVE  AttemptsAt(t)'
    BY DEF AttemptsAt, Spent, Processing

\* Whether t is being processed changes only with a dispatcher that goes to
\* an agent with it, or comes back.
LEMMA ProcessingMoves ==
    ASSUME Typed, NEW d \in Dispatchers, NEW to, NEW j, NEW a, Moves(d, to, j, a), NEW t
    PROVE  /\ j = t /\ to = "process" => Processing(t)'
           /\ ~(j = t /\ to = "process") =>
                /\ job[d] # t \/ pc[d] # "process" => (Processing(t)' <=> Processing(t))
                /\ (\A e \in Dispatchers : job[e] = t => e = d) => ~Processing(t)'
<1>1. /\ pc'[d] = to /\ job'[d] = j
      /\ \A e \in Dispatchers \ {d} : pc'[e] = pc[e] /\ job'[e] = job[e]
    BY MovedTo
<1>2. j = t /\ to = "process" => Processing(t)'
    BY <1>1 DEF Processing
<1>3. ASSUME ~(j = t /\ to = "process"), job[d] # t \/ pc[d] # "process"
      PROVE  Processing(t)' <=> Processing(t)
    BY <1>1, <1>3 DEF Processing
<1>4. ASSUME ~(j = t /\ to = "process"), \A e \in Dispatchers : job[e] = t => e = d
      PROVE  ~Processing(t)'
    BY <1>1, <1>4 DEF Processing
<1> QED
    BY <1>2, <1>3, <1>4

LEMMA DispatchAttempts ==
    ASSUME Places, Attempts, NEW d \in Dispatchers, Start(d) \/ Dispatch(d)
    PROVE  Attempts'
<1>1. /\ Typed /\ attempts \in [Tasks -> Nat] /\ retries \in [Tasks -> 0..MAX_RETRIES]
      /\ completed \in Seq(Tasks) /\ failed \in Seq(Tasks) /\ MAX_RETRIES \in Nat
    BY OrchestratorAssumption DEF Places, StatusInv, Typed, TypeOK, TasksTyped
<1>2. CASE ~Lookup(d) /\ ~Complete(d) /\ ~Fail(d)
    <2>1. UNCHANGED <<attempts, retries, completed, failed>>
        BY <1>2
        DEF Start, Dispatch, Loop, Drain, Notified, Sort, Pop, Prefer, Fallback, Scan,
            PutBack, Assign, LookupFails, Persist, PersistFails, Report, taskVars
    <2>2. pc[d] # "process" /\ \E to, j, a : Moves(d, to, j, a) /\ to # "process"
        <3>1. CASE Start(d) \/ Loop(d) \/ Drain(d) \/ Notified(d) \/ Sort(d) \/ Pop(d)
            BY <1>1, <3>1, StepMoves
        <3>2. CASE Prefer(d) \/ Fallback(d) \/ Scan(d) \/ PutBack(d) \/ Assign(d)
            BY <1>1, <3>2, StepMoves
        <3>3. CASE LookupFails(d) \/ Persist(d) \/ PersistFails(d) \/ Report(d)
            BY <1>1, <3>3, StepMoves
        <3> QED
            BY <1>2, <3>1, <3>2, <3>3 DEF Dispatch
    <2>3. \A t : Processing(t)' <=> Processing(t)
        BY <1>1, <2>2, ProcessingMoves
    <2> QED
        BY <2>1, <2>3, AttemptsKept DEF Attempts, AttemptsAt
<1>3. ASSUME pc[d] \in {"lookup", "process"}
      PROVE  \E x \in Tasks : /\ job[d] = x /\ Occurrences(completed, x) = 0
                              /\ Occurrences(failed, x) = 0
                              /\ \A e \in Dispatchers : job[e] = x => e = d
    BY <1>1, <1>3, AtHand, OneHolder, PlacesOf, ZenonT(60) DEF WithJob
<1>4. CASE Lookup(d)
    <2>1. pc[d] = "lookup" /\ Moves(d, "process", job[d], at[d])
        BY <1>1, <1>4, StepMoves
    <2>2. PICK x \in Tasks : /\ job[d] = x /\ Occurrences(completed, x) = 0
                             /\ Occurrences(failed, x) = 0
                             /\ \A e \in Dispatchers : job[e] = x => e = d
        BY <1>3, <2>1
    <2>3. /\ attempts' = [attempts EXCEPT ![x] = @ + 1]
          /\ UNCHANGED <<retries, completed, failed>>
        BY <1>4, <2>2 DEF Lookup
    <2>4. ASSUME NEW t \in Tasks
          PROVE  AttemptsAt(t)'
        <3>1. Processing(t)' <=> t = x \/ Processing(t)
            BY <1>1, <2>1, <2>2, ProcessingMoves
        <3>2. CASE t # x
            BY <1>1, <2>3, <3>1, <3>2, AttemptsKept DEF Attempts, AttemptsAt
        <3>3. CASE t = x
            <4>1. ~Spent(t) /\ Spent(t)'
                BY <2>1, <2>2, <3>1, <3>3 DEF Spent, Processing
            <4> QED
                BY <1>1, <2>3, <3>3, <4>1 DEF Attempts, AttemptsAt
        <3> QED
            BY <3>2, <3>3
    <2> QED
        BY <2>4 DEF Attempts, AttemptsAt
<1>5. CASE Complete(d) \/ Fail(d)
    <2>1. pc[d] = "process" /\ \E to, a : Moves(d, to, None, a) /\ to # "process"
        BY <1>1, <1>5, StepMoves
    <2>2. PICK x \in Tasks : /\ job[d] = x /\ Occurrences(completed, x) = 0
                             /\ Occurrences(failed, x) = 0
                             /\ \A e \in Dispatchers : job[e] = x => e = d
        BY <1>3, <2>1
    <2>3. /\ UNCHANGED attempts
          /\ \/ completed' = Append(completed, x) /\ UNCHANGED <<retries, failed>>
             \/ /\ retries[x] < MAX_RETRIES /\ retries' = [retries EXCEPT ![x] = @ + 1]
                /\ UNCHANGED <<completed, failed>>
             \/ /\ ~(retries[x] < MAX_RETRIES) /\ failed' = Append(failed, x)
                /\ UNCHANGED <<retries, completed>>
        BY <1>5, <2>2 DEF Complete, Fail, CanRetry
    <2>4. /\ \A t : Occurrences(Append(completed, x), t)
                        = Occurrences(completed, t) + (IF x = t THEN 1 ELSE 0)
          /\ \A t : Occurrences(Append(failed, x), t)
                        = Occurrences(failed, t) + (IF x = t THEN 1 ELSE 0)
          /\ \A t : Occurrences(completed, t) \in Nat /\ Occurrences(failed, t) \in Nat
        BY <1>1, Pushed
    <2>5. ASSUME NEW t \in Tasks
          PROVE  AttemptsAt(t)'
        <3>1. /\ t # x => (Processing(t)' <=> Processing(t))
              /\ t = x => ~Processing(t)'
            BY <1>1, <2>1, <2>2, ProcessingMoves
        <3>2. CASE t # x
            <4>1. /\ Occurrences(completed, t)' = Occurrences(completed, t)
                  /\ Occurrences(failed, t)' = Occurrences(failed, t)
                  /\ attempts'[t] = attempts[t] /\ retries'[t] = retries[t]
                <5>1. CASE completed' = Append(completed, x) /\ UNCHANGED <<retries, failed>>
                    BY <2>3, <2>4, <3>2, <5>1
                <5>2. CASE /\ retries[x] < MAX_RETRIES
                           /\ retries' = [retries EXCEPT ![x] = @ + 1]
                           /\ UNCHANGED <<completed, failed>>
                    BY <1>1, <2>3, <3>2, <5>2
                <5>3. CASE /\ ~(retries[x] < MAX_RETRIES) /\ failed' = Append(failed, x)
                           /\ UNCHANGED <<retries, completed>>
                    BY <2>3, <2>4, <3>2, <5>3
                <5> QED
                    BY <2>3, <5>1, <5>2, <5>3
            <4> QED
                BY <3>1, <3>2, <4>1, AttemptsKept DEF Attempts, AttemptsAt
        <3>3. CASE t = x
            <4>1. Spent(t) /\ attempts[t] = retries[t] + 1
                BY <2>1, <2>2, <3>3 DEF Spent, Processing, Attempts, AttemptsAt
            <4>2. CASE completed' = Append(completed, x) /\ UNCHANGED <<retries, failed>>
                <5>1. Occurrences(completed, t)' = 1 /\ Occurrences(failed, t)' = 0
                    BY <2>2, <2>4, <3>3, <4>2
                <5> QED
                    BY <2>3, <4>1, <4>2, <5>1 DEF AttemptsAt, Spent
            <4>3. CASE /\ retries[x] < MAX_RETRIES /\ retries' = [retries EXCEPT ![x] = @ + 1]
                       /\ UNCHANGED <<completed, failed>>
                <5>1. ~Spent(t)' /\ Occurrences(failed, t)' = 0
                    BY <2>2, <3>1, <3>3, <4>3 DEF Spent, Processing
                <5> QED
                    BY <1>1, <2>3, <3>3, <4>1, <4>3, <5>1 DEF AttemptsAt
            <4>4. CASE /\ ~(retries[x] < MAX_RETRIES) /\ failed' = Append(failed, x)
                       /\ UNCHANGED <<retries, completed>>
                <5>1. Occurrences(failed, t)' = 1
                    BY <2>2, <2>4, <3>3, <4>4
                <5>2. Spent(t)'
                    BY <5>1 DEF Spent
                <5>3. retries[t] = MAX_RETRIES
                    BY <1>1, <3>3, <4>4
                <5> QED
                    BY <2>3, <4>1, <4>4, <5>2, <5>3 DEF AttemptsAt
            <4> QED
                BY <2>3, <4>2, <4>3, <4>4
        <3> QED
            BY <3>2, <3>3
    <2> QED
        BY <2>5 DEF Attempts, AttemptsAt
<1> QED
    BY <1>2, <1>4, <1>5

LEMMA OtherAttempts ==
    ASSUME Places, Attempts,
           Admin \/ Stop \/ Crash \/ UNCHANGED vars \/ \E t \in Tasks : Submit(t) \/ Notify(t)
    PROVE  Attempts'
<1>1. Typed
    BY DEF Places, StatusInv
<1>2. CASE Crash
    <2>1. /\ completed' = <<>> /\ failed' = <<>> /\ pc' = [d \in Dispatchers |-> "loop"]
          /\ attempts' = [t \in Tasks |-> 0] /\ retries' = [t \in Tasks |-> 0]
        BY <1>2 DEF Crash
    <2>2. \A t \in Tasks : ~Spent(t)' /\ Occurrences(failed, t)' = 0
        BY <2>1, OccurrencesEmpty DEF Spent, Processing
    <2> QED
        BY <2>1, <2>2 DEF Attempts, AttemptsAt
<1>3. ASSUME UNCHANGED <<attempts, retries, completed, failed, job>>,
             \A d \in Dispatchers : pc'[d] = "process" <=> pc[d] = "process"
      PROVE  Attempts'
    <2>1. \A t : Processing(t)' <=> Processing(t)
        BY <1>3 DEF Processing
    <2> QED
        BY <1>3, <2>1, AttemptsKept DEF Attempts, AttemptsAt
<1>4. CASE Admin \/ Stop \/ UNCHANGED vars
    <2>1. UNCHANGED <<attempts, retries, completed, failed, job, pc>>
        BY <1>4
        DEF Admin, Request, Write, Register, Administrating, Stop, vars, taskVars
    <2> QED
        BY <1>3, <2>1
<1>5. ASSUME NEW t \in Tasks, Submit(t) \/ Notify(t)
      PROVE  Attempts'
    <2>1. UNCHANGED <<attempts, retries, completed, failed, job>>
        BY <1>5 DEF Submit, Notify
    <2>2. \A d \in Dispatchers : pc'[d] = "process" <=> pc[d] = "process"
        BY <1>1, <1>5
        DEF Submit, Notify, NotifyOne, Goto, Typed, TypeOK, DispatchersTyped
    <2> QED
        BY <1>3, <2>1, <2>2
<1> QED
    BY <1>2, <1>4, <1>5

LEMMA InitAttempts == Init => Attempts
<1>1. SUFFICES ASSUME Init
               PROVE  Attempts
    OBVIOUS
<1>2. /\ completed = <<>> /\ failed = <<>> /\ pc = [d \in Dispatchers |-> "loop"]
      /\ attempts = [t \in Tasks |-> 0] /\ retries = [t \in Tasks |-> 0]
    BY <1>1 DEF Init
<1>3. \A t \in Tasks : ~Spent(t) /\ Occurrences(failed, t) = 0
    BY <1>2, OccurrencesEmpty DEF Spent, Processing
<1> QED
    BY <1>2, <1>3 DEF Attempts, AttemptsAt

LEMMA NextAttempts == Places /\ Attempts /\ [Next]_vars => Attempts'
    BY DispatchAttempts, OtherAttempts DEF Next

\* Retries are bounded and used up, by however many dispatchers: see
\* RetriesUsedUp.  The attempts at a task are its retries, and one more from
\* the moment an agent has it until it is retried.
THEOREM RetriesAlwaysUsedUp == Spec => []RetriesUsedUp
<1>1. ASSUME Places, Attempts
      PROVE  RetriesUsedUp
    <2>1. /\ retries \in [Tasks -> 0..MAX_RETRIES] /\ MAX_RETRIES \in Nat
        BY <1>1, OrchestratorAssumption DEF Places, StatusInv, Typed, TypeOK, TasksTyped
    <2>2. ASSUME NEW t \in Tasks
          PROVE  /\ attempts[t] <= MAX_RETRIES + 1
                 /\ Occurrences(failed, t) > 0 => attempts[t] = MAX_RETRIES + 1
        <3>1. Occurrences(failed, t) > 0 => Spent(t)
            BY DEF Spent
        <3> QED
            BY <1>1, <2>1, <3>1 DEF Attempts, AttemptsAt
    <2> QED
        BY <2>2 DEF RetriesUsedUp
<1> QED
    BY <1>1, InitPlaces, InitAttempts, NextPlaces, NextAttempts, PTL DEF Spec
=============================================================================
