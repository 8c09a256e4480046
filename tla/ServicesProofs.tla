--------------------------- MODULE ServicesProofs ---------------------------
(***************************************************************************)
(* Theorems about Services, for any values of the constants: what is kept  *)
(* of what was logged, remembered and stored; what opens again of what was *)
(* encrypted; that matches, taxes and reports count everything once and    *)
(* agree; what is said of payments, texts and papers; and the dates.       *)
(* Each part has an invariant of its own, as no part reads another's state.*)
(***************************************************************************)
EXTENDS Services, Facts

-----------------------------------------------------------------------------
(* The entries of a sequence at some positions.                            *)

\* They are collected one after the other.
LEMMA ThoseUnfold ==
  ASSUME NEW X, NEW s \in Seq(X), NEW I
  PROVE  \E f : /\ Those(s, I) = f[Len(s)] /\ f[0] = << >>
                /\ \A n \in 1 .. Len(s) :
                     f[n] = IF n \in I THEN Append(f[n - 1], s[n]) ELSE f[n - 1]
<1> DEFINE N == Len(s)
           step == [n \in 1 .. N |-> [r \in Seq(X) |-> IF n \in I THEN Append(r, s[n]) ELSE r]]
           Unfolded(f) == f = [n \in 0 .. Len(s) |->
                     IF n = 0 THEN << >> ELSE IF n \in I THEN Append(f[n - 1], s[n]) ELSE f[n - 1]]
           upTo == CHOOSE f : Unfolded(f)
<1>1. N \in Nat /\ DOMAIN s = 1 .. N /\ \A n \in 1 .. N : s[n] \in X
  OBVIOUS
<1>2. \E f : Unfolded(f)
  <2> DEFINE Y == Seq(X)
             base == << >>
  <2>1. step \in [1 .. N -> [Y -> Y]]
    BY <1>1
  <2>2. base \in Y
    OBVIOUS
  <2> HIDE DEF step
  <2>3. StepsIn(step, N, Y)
    BY <2>1 DEF StepsIn
  <2>4. PICK f : Recurses(f, N, Y, base, step)
    <3> HIDE DEF N, Y, base, Unfolded
    <3> QED
      BY <1>1, <2>2, <2>3, Recursion
  <2>5. f \in [0 .. N -> Y] /\ f[0] = base
        /\ \A n \in 1 .. N : f[n] = step[n][f[n - 1]]
    BY <2>4 DEF Recurses
  <2>6. ASSUME NEW n \in 0 .. N
        PROVE  f[n] = IF n = 0 THEN << >>
                      ELSE IF n \in I THEN Append(f[n - 1], s[n]) ELSE f[n - 1]
    <3>1. CASE n = 0
      BY <2>5, <3>1
    <3>2. CASE n # 0
      <4>1. n \in 1 .. N /\ n - 1 \in 0 .. N
        BY <1>1, <3>2
      <4>2. f[n - 1] \in Seq(X)
        BY <2>5, <4>1
      <4>3. step[n] = [r \in Seq(X) |-> IF n \in I THEN Append(r, s[n]) ELSE r]
        BY <4>1 DEF step
      <4>4. step[n][f[n - 1]] = IF n \in I THEN Append(f[n - 1], s[n]) ELSE f[n - 1]
        BY <4>2, <4>3
      <4> QED
        BY <2>5, <3>2, <4>1, <4>4
    <3> QED
      BY <3>1, <3>2
  <2>7. f = [n \in 0 .. N |-> f[n]]
    BY <2>5
  <2>8. Unfolded(f)
    BY <2>6, <2>7
  <2> QED
    BY <2>8
<1>3. Unfolded(upTo)
  <2> HIDE DEF Unfolded
  <2> QED
    BY <1>2
<1>4. Those(s, I) = upTo[N]
  BY DEF Those
<1> HIDE DEF upTo
<1>5. upTo[0] = << >>
  BY <1>1, <1>3
<1>6. ASSUME NEW n \in 1 .. N
      PROVE  upTo[n] = IF n \in I THEN Append(upTo[n - 1], s[n]) ELSE upTo[n - 1]
  <2>1. n \in 0 .. Len(s) /\ n # 0
    BY <1>1
  <2> QED
    BY <1>3, <2>1
<1> QED
  BY <1>4, <1>5, <1>6

IsThose(s, I, r, g) ==
  /\ g \in [1 .. Len(r) -> I]
  /\ \A k \in 1 .. Len(r) : r[k] = s[g[k]]
  /\ \A j, k \in 1 .. Len(r) : j < k => g[j] < g[k]
  /\ \A i \in I : \E k \in 1 .. Len(r) : g[k] = i

\* They are these, in order.
LEMMA ThoseAre ==
  ASSUME NEW X, NEW s \in Seq(X), NEW I \in SUBSET DOMAIN s
  PROVE  Those(s, I) \in Seq(X) /\ \E g : IsThose(s, I, Those(s, I), g)
<1> DEFINE N == Len(s)
           J(n) == {i \in I : i <= n}
<1>1. N \in Nat /\ DOMAIN s = 1 .. N /\ \A n \in 1 .. N : s[n] \in X
  OBVIOUS
<1>2. PICK upTo : /\ Those(s, I) = upTo[N] /\ upTo[0] = << >>
                  /\ \A n \in 1 .. N :
                       upTo[n] = IF n \in I THEN Append(upTo[n - 1], s[n]) ELSE upTo[n - 1]
  BY ThoseUnfold
<1> DEFINE Good(n) == upTo[n] \in Seq(X) /\ \E g : IsThose(s, J(n), upTo[n], g)
           M == {n \in Nat : n <= N => Good(n)}
<1>4. Good(0)
  <2>1. upTo[0] = << >> /\ J(0) = {}
    BY <1>1, <1>2
  <2>2. IsThose(s, {}, << >>, << >>)
    BY DEF IsThose
  <2>3. upTo[0] \in Seq(X)
    BY <2>1
  <2>4. IsThose(s, J(0), upTo[0], << >>)
    BY <2>1, <2>2
  <2> HIDE DEF J
  <2> QED
    BY <2>3, <2>4
<1>5. ASSUME NEW n \in Nat, Good(n), n + 1 <= N
      PROVE  Good(n + 1)
  <2> DEFINE r == upTo[n]
  <2>2. PICK g : IsThose(s, J(n), r, g)
    BY <1>5
  <2>3. r \in Seq(X) /\ s[n + 1] \in X
    BY <1>1, <1>5
  <2>4. upTo[n + 1] = IF n + 1 \in I THEN Append(r, s[n + 1]) ELSE r
    <3>1. n + 1 \in 1 .. N /\ (n + 1) - 1 = n
      BY <1>1, <1>5
    <3> QED
      BY <1>2, <3>1
  <2>5. CASE n + 1 \notin I
    <3>1. J(n + 1) = J(n)
      BY <1>1, <2>5
    <3> QED
      BY <2>2, <2>3, <2>4, <2>5, <3>1
  <2>6. CASE n + 1 \in I
    <3> DEFINE L == Len(r)
               t == Append(r, s[n + 1])
               h == [k \in 1 .. L + 1 |-> IF k = L + 1 THEN n + 1 ELSE g[k]]
    <3>1. J(n + 1) = J(n) \cup {n + 1} /\ \A i \in J(n) : i < n + 1 /\ i \in Nat
      BY <1>1, <2>6
    <3>2. t \in Seq(X) /\ Len(t) = L + 1 /\ L \in Nat /\ t[L + 1] = s[n + 1]
          /\ \A k \in 1 .. L : t[k] = r[k]
      BY <2>3
    <3>3. g \in [1 .. L -> J(n)]
      BY <2>2 DEF IsThose
    <3>8. upTo[n + 1] = t
      BY <2>4, <2>6
    <3> HIDE DEF L, t, r, J
    <3>4. h \in [1 .. L + 1 -> J(n + 1)]
      BY <3>1, <3>2, <3>3
    <3>5. \A k \in 1 .. L + 1 : t[k] = s[h[k]]
      BY <2>2, <3>2 DEF IsThose, L, r
    <3>6. \A j, k \in 1 .. L + 1 : j < k => h[j] < h[k]
      <4>1. SUFFICES ASSUME NEW j \in 1 .. L + 1, NEW k \in 1 .. L + 1, j < k
                     PROVE  h[j] < h[k]
        OBVIOUS
      <4>2. j \in 1 .. L /\ g[j] \in J(n)
        BY <3>2, <3>3, <4>1
      <4>3. CASE k = L + 1
        BY <3>1, <3>2, <4>2, <4>3
      <4>4. CASE k # L + 1
        <5>1. k \in 1 .. L
          BY <3>2, <4>4
        <5> QED
          BY <2>2, <3>2, <4>1, <4>2, <5>1 DEF IsThose, L, r
      <4> QED
        BY <4>3, <4>4
    <3>7. \A i \in J(n + 1) : \E k \in 1 .. L + 1 : h[k] = i
      <4>1. SUFFICES ASSUME NEW i \in J(n + 1)
                     PROVE  \E k \in 1 .. L + 1 : h[k] = i
        OBVIOUS
      <4>2. CASE i = n + 1
        BY <3>2, <4>2
      <4>3. CASE i \in J(n)
        <5>1. PICK k \in 1 .. L : g[k] = i
          BY <2>2, <4>3 DEF IsThose, L, r
        <5> QED
          BY <3>2, <5>1
      <4> QED
        BY <3>1, <4>2, <4>3
    <3> HIDE DEF h
    <3>9. IsThose(s, J(n + 1), t, h)
      BY <3>2, <3>4, <3>5, <3>6, <3>7 DEF IsThose
    <3> QED
      BY <3>2, <3>8, <3>9
  <2> QED
    BY <2>5, <2>6
<1> HIDE DEF Good
<1>6. Good(N)
  <2>1. 0 \in M
    BY <1>4
  <2>2. \A n \in Nat : n \in M => n + 1 \in M
    BY <1>1, <1>5
  <2> HIDE DEF M
  <2>3. N \in M
    BY <1>1, <2>1, <2>2, Induct
  <2> QED
    BY <1>1, <2>3 DEF M
<1>7. J(N) = I
  BY <1>1
<1> QED
  BY <1>2, <1>6, <1>7 DEF Good

\* There are as many as positions.
LEMMA ThoseCounted ==
  ASSUME NEW X, NEW s \in Seq(X), NEW I \in SUBSET DOMAIN s
  PROVE  IsFiniteSet(I) /\ Cardinality(I) = Len(Those(s, I))
<1> DEFINE r == Those(s, I)
           L == Len(r)
<1>1. r \in Seq(X) /\ L \in Nat
  BY ThoseAre
<1>2. PICK g : IsThose(s, I, r, g)
  BY ThoseAre
<1> HIDE DEF r, L
<1>3. I \subseteq Nat /\ g \in [1 .. L -> I]
  BY <1>2 DEF IsThose, L
<1>4. \A j, k \in 1 .. L : g[j] = g[k] => j = k
  BY <1>1, <1>2, <1>3 DEF IsThose, L
<1>5. g \in Bijection(1 .. L, I)
  BY <1>2, <1>3, <1>4 DEF IsThose, L, Bijection, Injection, Surjection, IsInjective
<1>6. IsFiniteSet(1 .. L) /\ Cardinality(1 .. L) = L
  BY <1>1, FS_Interval
<1>7. IsFiniteSet(I) /\ Cardinality(I) = L
  BY <1>5, <1>6, FS_Bijection DEF ExistsBijection
<1> QED
  BY <1>7 DEF L, r

-----------------------------------------------------------------------------
(* The database connection.                                                *)

Phase == {"idle", "open", "stored", "migrate", "apply", "record"}
Schema == 1 .. Statements
DatabaseType == [applied : SUBSET Schema, failed : SUBSET Schema, versions : Nat]

ConnectionTypes ==
  /\ databases \in Seq(DatabaseType)
  /\ client \in 0 .. Len(databases)
  /\ connecting \in [Connector -> [phase : Phase, db : 0 .. Len(databases)]]
  /\ \A c \in Connector : ~At(c, "idle") => connecting[c].db # 0

Busy(c, db) == ~At(c, "idle") /\ connecting[c].db = db

(* What a pass over the statements leaves behind: each was applied or has   *)
(* failed.                                                                 *)
Passed(database) == database.applied \cup database.failed = Schema

(* No two calls work on a database; the first pass over the statements of   *)
(* the client's is done, or about to be done by the call that stored it;   *)
(* who is to record a version finds none.                                  *)
Alone ==
  /\ \A c, d \in Connector : Busy(c, connecting[d].db) /\ ~At(d, "idle") => c = d
  /\ \A c \in Connector : At(c, "open") => connecting[c].db # client
  /\ \A c \in Connector :
       At(c, "apply") \/ At(c, "record") => databases[connecting[c].db].versions = 0
  /\ \A db \in DOMAIN databases : databases[db].versions <= 1
  /\ client # 0 => Passed(databases[client]) \/ \E c \in Connector : At(c, "stored") /\ connecting[c].db = client
  /\ \A c \in Connector :
       At(c, "migrate") \/ At(c, "apply") \/ At(c, "record") => Passed(databases[connecting[c].db])

(* Nothing fails twice: after the second pass all is applied.               *)
Complete ==
  /\ \A c \in Connector : At(c, "record") => databases[connecting[c].db].applied = Schema
  /\ \A db \in DOMAIN databases :
       databases[db].versions > 0 => databases[db].applied = Schema

ConnectionInv ==
  /\ ConnectionTypes
  /\ Safe({"overlap"}) => Alone
  /\ Safe({"twice", "overlap"}) => Complete

LEMMA ConnectionAtFirst == ConnectionInit => ConnectionInv
<1> SUFFICES ASSUME ConnectionInit
             PROVE  ConnectionInv
  OBVIOUS
<1>1. databases = << >> /\ client = 0 /\ Len(databases) = 0 /\ DOMAIN databases = {}
  BY DEF ConnectionInit
<1>2. \A c \in Connector : connecting[c] = [phase |-> "idle", db |-> 0] /\ At(c, "idle")
  BY DEF ConnectionInit, NotConnecting, At
<1>3. ConnectionTypes
  BY <1>1, <1>2 DEF ConnectionTypes, ConnectionInit, NotConnecting, Phase
<1>4. Alone /\ Complete
  BY <1>1, <1>2 DEF Alone, Complete, At, Busy
<1> QED
  BY <1>3, <1>4 DEF ConnectionInv

(* A call goes from one phase to another and nothing else happens, or what  *)
(* happens to its database is a pass, or a record.                         *)
LEMMA PassKeeps ==
  ASSUME ConnectionInv, mix' = mix, NEW c \in Connector,
         \/ At(c, "stored") /\ Goes(c, "migrate")
         \/ At(c, "apply") /\ Goes(c, "record"),
         Pass(connecting[c].db), UNCHANGED client
  PROVE  ConnectionInv'
<1> DEFINE db == connecting[c].db
           phase == IF At(c, "stored") THEN "migrate" ELSE "record"
<1>1. /\ ConnectionTypes /\ db \in DOMAIN databases /\ db # 0 /\ ~At(c, "idle")
      /\ databases[db] \in DatabaseType
  BY DEF ConnectionInv, ConnectionTypes, At
<1>2. PICK fails \in SUBSET Schema :
        /\ fails \cap databases[db].failed # {} => Risk("twice")
        /\ databases' = [databases EXCEPT ![db] =
                           [applied |-> @.applied \cup Applied(fails),
                            failed |-> @.failed \cup fails,
                            versions |-> @.versions]]
  BY DEF Pass, Schema
<1>3. /\ databases' \in Seq(DatabaseType) /\ Len(databases') = Len(databases)
      /\ DOMAIN databases' = DOMAIN databases
      /\ \A e \in DOMAIN databases : e # db => databases'[e] = databases[e]
      /\ databases'[db].applied = databases[db].applied \cup (Schema \ fails)
      /\ databases'[db].failed = databases[db].failed \cup fails
      /\ databases'[db].versions = databases[db].versions
  <2>1. databases' = [databases EXCEPT ![db] =
          [applied |-> databases[db].applied \cup (Schema \ fails),
           failed |-> databases[db].failed \cup fails,
           versions |-> databases[db].versions]]
    BY <1>1, <1>2 DEF Applied, Schema, ConnectionTypes
  <2> QED
    BY <1>1, <1>2, <2>1 DEF DatabaseType, ConnectionTypes
<1>4. connecting' = [connecting EXCEPT ![c].phase = phase]
  BY DEF Goes, At
<1>5. /\ \A d \in Connector : connecting'[d].db = connecting[d].db
      /\ \A d \in Connector : d # c => connecting'[d].phase = connecting[d].phase
      /\ connecting'[c].phase = phase
      /\ connecting' \in [Connector -> [phase : Phase, db : 0 .. Len(databases)]]
  BY <1>1, <1>4 DEF ConnectionTypes, Phase
<1>6. ConnectionTypes'
  BY <1>1, <1>3, <1>5 DEF ConnectionTypes, At
<1>7. Passed(databases'[db])
  BY <1>1, <1>3, fails \in SUBSET Schema DEF Passed, DatabaseType
<1>8. \A e \in DOMAIN databases : Passed(databases[e]) => Passed(databases'[e])
  BY <1>3, <1>7 DEF Passed
<1>9. ASSUME Safe({"overlap"}), Alone
      PROVE  Alone'
  <2>1. \A d \in Connector : ~At(d, "idle") /\ connecting[d].db = db => d = c
    BY <1>1, <1>9 DEF Alone, Busy, At
  <2>2. \A d \in Connector : /\ At(d, "idle")' = At(d, "idle")
                             /\ connecting'[d].db \in 0 .. Len(databases)
                             /\ \A p \in Phase : d # c => At(d, p)' = At(d, p)
    BY <1>1, <1>4, <1>5 DEF At, Phase, ConnectionTypes
  <2>3. (\A d, e \in Connector : Busy(d, connecting[e].db) /\ ~At(e, "idle") => d = e)'
    BY <1>5, <1>9, <2>2 DEF Alone, Busy
  <2>4. (\A d \in Connector : At(d, "open") => connecting[d].db # client)'
    BY <1>5, <1>9, <2>2 DEF Alone, At, Phase
  <2>5. (\A d \in Connector :
           At(d, "apply") \/ At(d, "record") => databases[connecting[d].db].versions = 0)'
    <3>1. SUFFICES ASSUME NEW d \in Connector, connecting'[d].phase \in {"apply", "record"}
                   PROVE  databases'[connecting[d].db].versions = 0
      BY <1>5 DEF At
    <3>2. CASE d = c
      <4>1. At(c, "apply")
        BY <1>5, <3>1, <3>2
      <4>2. databases[db].versions = 0
        BY <1>9, <4>1 DEF Alone
      <4> QED
        BY <1>3, <3>2, <4>2
    <3>3. CASE d # c
      <4>1. At(d, "apply") \/ At(d, "record")
        BY <1>5, <3>1, <3>3 DEF At
      <4>2. connecting[d].db # db
        BY <2>1, <3>3, <4>1 DEF At
      <4>3. databases[connecting[d].db].versions = 0
        BY <1>9, <4>1 DEF Alone
      <4>4. connecting[d].db \in DOMAIN databases
        BY <1>1, <4>1 DEF ConnectionTypes, At
      <4> QED
        BY <1>3, <4>2, <4>3, <4>4
    <3> QED
      BY <3>2, <3>3
  <2>6. (\A e \in DOMAIN databases : databases[e].versions <= 1)'
    BY <1>3, <1>9 DEF Alone
  <2>7. (client # 0 => Passed(databases[client]) \/ \E d \in Connector : At(d, "stored") /\ connecting[d].db = client)'
    <3>1. CASE client = db
      BY <1>7, <3>1
    <3>2. CASE client # db /\ client # 0
      <4>1. client \in DOMAIN databases
        BY <1>1, <3>2 DEF ConnectionTypes
      <4>2. CASE Passed(databases[client])
        BY <1>8, <4>1, <4>2
      <4>3. CASE \E d \in Connector : At(d, "stored") /\ connecting[d].db = client
        BY <1>5, <2>2, <3>2, <4>3 DEF Phase
      <4> QED
        BY <1>9, <3>2, <4>2, <4>3 DEF Alone
    <3> QED
      BY <3>1, <3>2
  <2>8. (\A d \in Connector :
           At(d, "migrate") \/ At(d, "apply") \/ At(d, "record") => Passed(databases[connecting[d].db]))'
    <3>1. SUFFICES ASSUME NEW d \in Connector,
                          (At(d, "migrate") \/ At(d, "apply") \/ At(d, "record"))'
                   PROVE  Passed(databases[connecting[d].db])'
      OBVIOUS
    <3>2. CASE d = c
      BY <1>5, <1>7, <3>2
    <3>3. CASE d # c
      <4>1. Passed(databases[connecting[d].db]) /\ connecting[d].db \in DOMAIN databases
        BY <1>1, <1>9, <2>2, <3>1, <3>3 DEF Alone, Phase, ConnectionTypes, At
      <4> QED
        BY <1>5, <1>8, <4>1
    <3> QED
      BY <3>2, <3>3
  <2> QED
    BY <2>3, <2>4, <2>5, <2>6, <2>7, <2>8 DEF Alone
<1>10. ASSUME Safe({"twice", "overlap"}), Alone, Complete
       PROVE  Complete'
  <2>1. \A e \in DOMAIN databases : databases[e].applied = Schema => databases'[e].applied = Schema
    BY <1>1, <1>3 DEF DatabaseType
  <2>2. fails \cap databases[db].failed = {}
    BY <1>2, <1>10 DEF Safe, Risk
  <2>3. ASSUME NEW d \in Connector, At(d, "record")'
        PROVE  databases'[connecting'[d].db].applied = Schema
    <3>1. CASE d = c
      <4>1. At(c, "apply") /\ Passed(databases[db])
        BY <1>5, <1>10, <2>3, <3>1 DEF Alone, At
      <4> QED
        BY <1>1, <1>3, <1>5, <2>2, <3>1, <4>1 DEF Passed, DatabaseType
    <3>2. CASE d # c
      <4>1. databases[connecting[d].db].applied = Schema /\ connecting[d].db \in DOMAIN databases
        BY <1>1, <1>5, <1>10, <2>3, <3>2 DEF Complete, At, ConnectionTypes
      <4> QED
        BY <1>5, <2>1, <4>1
    <3> QED
      BY <3>1, <3>2
  <2>4. \A e \in DOMAIN databases' : databases'[e].versions > 0 => databases'[e].applied = Schema
    BY <1>1, <1>3, <1>10, <2>1 DEF Complete
  <2> QED
    BY <2>3, <2>4 DEF Complete
<1>11. Safe({"overlap"})' = Safe({"overlap"}) /\ Safe({"twice", "overlap"})' = Safe({"twice", "overlap"})
       /\ (Safe({"twice", "overlap"}) => Safe({"overlap"}))
  BY DEF Safe
<1> QED
  BY <1>6, <1>9, <1>10, <1>11 DEF ConnectionInv

LEMMA ConnectKeeps ==
  ASSUME ConnectionInv, mix' = mix, NEW c \in Connector, Connect(c)
  PROVE  ConnectionInv'
<1> DEFINE n == Len(databases) + 1
<1>1. /\ ConnectionTypes /\ At(c, "idle") /\ UNCHANGED client /\ n \in Nat
      /\ connecting' = [connecting EXCEPT ![c] = [phase |-> "open", db |-> n]]
  BY DEF Connect, ConnectionInv, ConnectionTypes
<1>2. NewDatabase \in DatabaseType /\ NewDatabase.versions = 0
  BY DEF NewDatabase, DatabaseType
<1>3. /\ databases' \in Seq(DatabaseType) /\ Len(databases') = n
      /\ \A e \in DOMAIN databases : e \in DOMAIN databases' /\ e # n /\ databases'[e] = databases[e]
      /\ DOMAIN databases' = DOMAIN databases \cup {n} /\ databases'[n].versions = 0
  BY <1>1, <1>2 DEF Connect, ConnectionTypes
<1>4. /\ connecting'[c] = [phase |-> "open", db |-> n]
      /\ \A d \in Connector : d # c => connecting'[d] = connecting[d]
      /\ \A d \in Connector : connecting[d].db \in 0 .. Len(databases) /\ connecting[d].db # n
  BY <1>1 DEF ConnectionTypes
<1>5. ConnectionTypes'
  <2>1. connecting' \in [Connector -> [phase : Phase, db : 0 .. n]]
    BY <1>1, <1>4 DEF ConnectionTypes, Phase
  <2> QED
    BY <1>1, <1>3, <1>4, <2>1 DEF ConnectionTypes, At
<1>6. ASSUME Alone
      PROVE  Alone'
  <2>1. \A d \in Connector, p \in Phase : d # c => At(d, p)' = At(d, p)
    BY <1>4 DEF At
  <2>2. At(c, "open")' /\ \A p \in Phase \ {"open"} : ~At(c, p)'
    BY <1>4 DEF At
  <2>3. (\A d, e \in Connector : Busy(d, connecting[e].db) /\ ~At(e, "idle") => d = e)'
    BY <1>4, <1>6, <2>1, <2>2 DEF Alone, Busy, Phase
  <2>4. (\A d \in Connector : At(d, "open") => connecting[d].db # client)'
    BY <1>1, <1>4, <1>6, <2>1, <2>2 DEF Alone, Phase, ConnectionTypes
  <2>5. (\A d \in Connector :
           At(d, "apply") \/ At(d, "record") => databases[connecting[d].db].versions = 0)'
    <3>1. ASSUME NEW d \in Connector, (At(d, "apply") \/ At(d, "record"))'
          PROVE  d # c /\ connecting[d].db \in DOMAIN databases /\ (At(d, "apply") \/ At(d, "record"))
      BY <1>1, <1>4, <2>1, <2>2, <3>1 DEF Phase, ConnectionTypes, At
    <3> QED
      BY <1>3, <1>4, <1>6, <3>1 DEF Alone
  <2>6. (\A e \in DOMAIN databases : databases[e].versions <= 1)'
    BY <1>3, <1>6 DEF Alone
  <2>7. (client # 0 => Passed(databases[client]) \/ \E d \in Connector : At(d, "stored") /\ connecting[d].db = client)'
    <3>1. SUFFICES ASSUME client # 0
                   PROVE  Passed(databases'[client])
                            \/ \E d \in Connector : At(d, "stored")' /\ connecting'[d].db = client
      BY <1>1
    <3>2. client \in DOMAIN databases
      BY <1>1, <3>1 DEF ConnectionTypes
    <3>3. \A d \in Connector : At(d, "stored") => d # c /\ At(d, "stored")'
      BY <1>1, <2>1 DEF At, Phase
    <3> QED
      BY <1>3, <1>4, <1>6, <3>1, <3>2, <3>3 DEF Alone
  <2>8. (\A d \in Connector :
           At(d, "migrate") \/ At(d, "apply") \/ At(d, "record") => Passed(databases[connecting[d].db]))'
    <3>1. ASSUME NEW d \in Connector, (At(d, "migrate") \/ At(d, "apply") \/ At(d, "record"))'
          PROVE  /\ d # c /\ connecting[d].db \in DOMAIN databases
                 /\ At(d, "migrate") \/ At(d, "apply") \/ At(d, "record")
      BY <1>1, <1>4, <2>1, <2>2, <3>1 DEF Phase, ConnectionTypes, At
    <3> QED
      BY <1>3, <1>4, <1>6, <3>1 DEF Alone
  <2> QED
    BY <2>3, <2>4, <2>5, <2>6, <2>7, <2>8 DEF Alone
<1>7. ASSUME Complete
      PROVE  Complete'
  <2>1. ASSUME NEW d \in Connector, At(d, "record")'
        PROVE  databases'[connecting'[d].db].applied = Schema
    <3>1. d # c /\ At(d, "record") /\ connecting[d].db \in DOMAIN databases
      BY <1>1, <1>4, <2>1 DEF At, ConnectionTypes
    <3> QED
      BY <1>3, <1>4, <1>7, <3>1 DEF Complete
  <2>2. \A e \in DOMAIN databases' : databases'[e].versions > 0 => databases'[e].applied = Schema
    BY <1>3, <1>7 DEF Complete
  <2> QED
    BY <2>1, <2>2 DEF Complete
<1> QED
  BY <1>5, <1>6, <1>7 DEF ConnectionInv, Safe

(* A call whose phase changes, while the databases stay.                    *)
LEMMA MoveKeeps ==
  ASSUME ConnectionInv, mix' = mix, UNCHANGED databases, NEW c \in Connector,
         \/ StoreClient(c)
         \/ RunMigrations(c)
         \/ ReadVersion(c)
         \/ ConnectFails(c)
  PROVE  ConnectionInv'
<1>1. ConnectionTypes
  BY DEF ConnectionInv
<1>2. \A d \in Connector : d # c => connecting'[d] = connecting[d]
  BY <1>1 DEF StoreClient, RunMigrations, ReadVersion, ConnectFails, Goes, Ends, ConnectionTypes
<1>3. \/ /\ StoreClient(c) /\ At(c, "open") /\ connecting'[c] = [phase |-> "stored", db |-> connecting[c].db]
         /\ client' = connecting[c].db /\ connecting[c].db # 0
      \/ /\ RunMigrations(c) /\ At(c, "idle") /\ connecting'[c] = [phase |-> "migrate", db |-> client]
         /\ client' = client /\ client # 0
      \/ /\ ReadVersion(c) /\ At(c, "migrate")
         /\ ~UpToDate(connecting[c].db) /\ connecting'[c] = [phase |-> "apply", db |-> connecting[c].db]
         /\ client' = client /\ connecting[c].db # 0
      \/ /\ ~At(c, "stored") /\ connecting'[c] = [phase |-> "idle", db |-> 0]
         /\ client' = client
  BY <1>1 DEF StoreClient, RunMigrations, ReadVersion, ConnectFails, Goes, Ends, ConnectionTypes,
              NotConnecting, At
<1>4. ConnectionTypes'
  <2>1. /\ connecting'[c] \in [phase : Phase, db : 0 .. Len(databases)] /\ client' \in 0 .. Len(databases)
        /\ connecting'[c].phase # "idle" => connecting'[c].db # 0
    BY <1>1, <1>3 DEF ConnectionTypes, Phase
  <2>2. DOMAIN connecting' = Connector /\ connecting' = [d \in Connector |-> connecting'[d]]
    BY <1>1 DEF StoreClient, RunMigrations, ReadVersion, ConnectFails, Goes, Ends, ConnectionTypes
  <2>3. connecting' \in [Connector -> [phase : Phase, db : 0 .. Len(databases)]]
    BY <1>1, <1>2, <2>1, <2>2 DEF ConnectionTypes
  <2> QED
    BY <1>1, <1>2, <2>1, <2>3 DEF ConnectionTypes, At
<1>5. ASSUME Alone, Safe({"overlap"})
      PROVE  Alone'
  <2>1. \A d \in Connector, p \in Phase : d # c => At(d, p)' = At(d, p)
    BY <1>2 DEF At
  <2>2. RunMigrations(c) => \A d \in Connector : At(d, "idle")
    BY <1>5 DEF RunMigrations, Quiet, Safe, Risk
  <2>3. UpToDate(connecting[c].db) \/ connecting[c].db = 0 \/ databases[connecting[c].db].versions = 0
    BY DEF UpToDate, CurrentVersion, CurrentSchemaVersion
  <2>4. (\A d, e \in Connector : Busy(d, connecting[e].db) /\ ~At(e, "idle") => d = e)'
    <3>1. SUFFICES ASSUME NEW d \in Connector, NEW e \in Connector, d # e,
                          connecting'[d].phase # "idle", connecting'[e].phase # "idle",
                          connecting'[d].db = connecting'[e].db
                   PROVE  FALSE
      BY DEF Busy, At
    <3>2. ASSUME NEW f \in Connector, connecting'[f].phase # "idle", ~RunMigrations(c)
          PROVE  connecting[f].phase # "idle" /\ connecting'[f].db = connecting[f].db
      BY <1>2, <1>3, <3>2 DEF At
    <3>3. CASE ~RunMigrations(c)
      BY <1>5, <3>1, <3>2, <3>3 DEF Alone, Busy, At
    <3>4. CASE RunMigrations(c)
      BY <1>2, <2>2, <3>1, <3>4 DEF At
    <3> QED
      BY <3>3, <3>4
  <2>5. (\A d \in Connector : At(d, "open") => connecting[d].db # client)'
    <3>1. SUFFICES ASSUME NEW d \in Connector, connecting'[d].phase = "open"
                   PROVE  connecting'[d].db # client'
      BY DEF At
    <3>2. d # c /\ connecting[d].phase = "open" /\ connecting'[d].db = connecting[d].db
      BY <1>2, <1>3, <3>1
    <3>3. connecting[d].db # client
      BY <1>5, <3>2 DEF Alone, At
    <3>4. At(c, "open") => connecting[d].db # connecting[c].db
      BY <1>5, <3>2 DEF Alone, At, Busy
    <3> QED
      BY <1>3, <3>2, <3>3, <3>4
  <2>6. (\A d \in Connector :
           At(d, "apply") \/ At(d, "record") => databases[connecting[d].db].versions = 0)'
    <3>1. SUFFICES ASSUME NEW d \in Connector, connecting'[d].phase \in {"apply", "record"}
                   PROVE  databases[connecting'[d].db].versions = 0
      BY DEF At
    <3>2. CASE d = c
      BY <1>3, <2>3, <3>1, <3>2
    <3>3. CASE d # c
      BY <1>2, <1>5, <3>1, <3>3 DEF Alone, At
    <3> QED
      BY <3>2, <3>3
  <2>7. (\A e \in DOMAIN databases : databases[e].versions <= 1)'
    BY <1>5 DEF Alone
  <2>8. (client # 0 => Passed(databases[client]) \/ \E d \in Connector : At(d, "stored") /\ connecting[d].db = client)'
    <3>1. CASE At(c, "open") /\ client' = connecting[c].db /\ connecting'[c] = [phase |-> "stored", db |-> connecting[c].db]
      BY <3>1 DEF At
    <3>2. CASE client' = client /\ ~At(c, "stored")
      BY <1>2, <1>5, <3>2 DEF At, Alone
    <3> QED
      BY <1>3, <3>1, <3>2 DEF At
  <2>9. (\A d \in Connector :
           At(d, "migrate") \/ At(d, "apply") \/ At(d, "record") => Passed(databases[connecting[d].db]))'
    <3>1. SUFFICES ASSUME NEW d \in Connector, connecting'[d].phase \in {"migrate", "apply", "record"}
                   PROVE  Passed(databases[connecting'[d].db])
      BY DEF At
    <3>2. CASE d # c
      BY <1>2, <1>5, <3>1, <3>2 DEF Alone, At
    <3>3. CASE d = c /\ RunMigrations(c)
      <4>1. Passed(databases[client]) /\ connecting'[c].db = client
        <5>1. connecting'[c].db = client /\ client # 0
          BY <1>1, <3>3 DEF RunMigrations, ConnectionTypes
        <5>2. ~\E e \in Connector : At(e, "stored")
          BY <2>2, <3>3 DEF At
        <5> QED
          BY <1>5, <5>1, <5>2 DEF Alone
      <4> QED
        BY <3>3, <4>1
    <3>4. CASE d = c /\ ~RunMigrations(c)
      BY <1>3, <1>5, <3>1, <3>4 DEF Alone, At
    <3> QED
      BY <3>2, <3>3, <3>4
  <2> QED
    BY <2>4, <2>5, <2>6, <2>7, <2>8, <2>9 DEF Alone
<1>6. ASSUME Complete
      PROVE  Complete'
  <2>1. \A d \in Connector : connecting'[d].phase = "record" => connecting'[d] = connecting[d]
    BY <1>2, <1>3
  <2> QED
    BY <1>6, <2>1 DEF Complete, At
<1> QED
  BY <1>4, <1>5, <1>6 DEF ConnectionInv, Safe

LEMMA RecordKeeps ==
  ASSUME ConnectionInv, mix' = mix, NEW c \in Connector, RecordVersion(c)
  PROVE  ConnectionInv'
<1> DEFINE db == connecting[c].db
<1>1. /\ ConnectionTypes /\ At(c, "record") /\ UNCHANGED client
      /\ db \in DOMAIN databases /\ databases[db] \in DatabaseType
  BY DEF RecordVersion, ConnectionInv, ConnectionTypes, At
<1>2. /\ databases' \in Seq(DatabaseType) /\ Len(databases') = Len(databases)
      /\ DOMAIN databases' = DOMAIN databases
      /\ \A e \in DOMAIN databases : /\ databases'[e].applied = databases[e].applied
                                     /\ databases'[e].failed = databases[e].failed
                                     /\ e # db => databases'[e].versions = databases[e].versions
      /\ databases'[db].versions = databases[db].versions + 1
  <2>1. databases' = [databases EXCEPT ![db].versions = @ + 1]
    BY DEF RecordVersion
  <2>2. /\ DOMAIN databases' = DOMAIN databases /\ Len(databases') = Len(databases)
        /\ \A e \in DOMAIN databases : e # db => databases'[e] = databases[e]
        /\ databases'[db] = [databases[db] EXCEPT !.versions = @ + 1]
    BY <1>1, <2>1 DEF ConnectionTypes
  <2>3. /\ databases'[db] \in DatabaseType
        /\ databases'[db].applied = databases[db].applied
        /\ databases'[db].failed = databases[db].failed
        /\ databases'[db].versions = databases[db].versions + 1
    BY <1>1, <2>2 DEF DatabaseType
  <2>4. databases' \in Seq(DatabaseType)
    BY <1>1, <2>1, <2>2, <2>3 DEF ConnectionTypes
  <2> QED
    BY <2>2, <2>3, <2>4
<1>3. /\ \A d \in Connector : d # c => connecting'[d] = connecting[d]
      /\ connecting'[c] = [phase |-> "idle", db |-> 0]
      /\ connecting' \in [Connector -> [phase : Phase, db : 0 .. Len(databases)]]
  BY <1>1 DEF RecordVersion, Ends, NotConnecting, ConnectionTypes, Phase
<1>4. ConnectionTypes'
  <2>1. client' \in 0 .. Len(databases')
    BY <1>1, <1>2 DEF ConnectionTypes
  <2>2. connecting' \in [Connector -> [phase : Phase, db : 0 .. Len(databases')]]
    BY <1>2, <1>3
  <2>3. ASSUME NEW d \in Connector, connecting'[d].phase # "idle"
        PROVE  connecting'[d].db # 0
    <3>1. d # c
      BY <1>3, <2>3
    <3>2. connecting'[d] = connecting[d]
      BY <1>3, <3>1
    <3> QED
      BY <1>1, <2>3, <3>2 DEF ConnectionTypes, At
  <2> QED
    BY <1>2, <2>1, <2>2, <2>3 DEF ConnectionTypes, At
<1>5. \A d \in Connector : connecting'[d].phase # "idle" =>
        d # c /\ connecting'[d] = connecting[d] /\ connecting[d].db \in DOMAIN databases
  BY <1>1, <1>3 DEF ConnectionTypes, At
<1>6. ASSUME Alone
      PROVE  Alone'
  <2>1. (\A d, e \in Connector : Busy(d, connecting[e].db) /\ ~At(e, "idle") => d = e)'
    BY <1>5, <1>6 DEF Alone, Busy, At
  <2>2. (\A d \in Connector : At(d, "open") => connecting[d].db # client)'
    BY <1>1, <1>5, <1>6 DEF Alone, At
  <2>3. (\A d \in Connector :
           At(d, "apply") \/ At(d, "record") => databases[connecting[d].db].versions = 0)'
    <3>1. SUFFICES ASSUME NEW d \in Connector, connecting'[d].phase \in {"apply", "record"}
                   PROVE  databases'[connecting'[d].db].versions = 0
      BY DEF At
    <3>2. d # c /\ connecting'[d] = connecting[d] /\ connecting[d].db \in DOMAIN databases
      BY <1>5, <3>1
    <3>3. connecting[d].db # db
      BY <1>1, <1>6, <3>1, <3>2 DEF Alone, Busy, At
    <3>4. databases[connecting[d].db].versions = 0
      BY <1>6, <3>1, <3>2 DEF Alone, At
    <3> QED
      BY <1>2, <3>2, <3>3, <3>4
  <2>4. (\A e \in DOMAIN databases : databases[e].versions <= 1)'
    <3>1. databases[db].versions = 0
      BY <1>1, <1>6 DEF Alone
    <3> QED
      BY <1>1, <1>2, <1>6, <3>1 DEF Alone
  <2>5. (client # 0 => Passed(databases[client]) \/ \E d \in Connector : At(d, "stored") /\ connecting[d].db = client)'
    <3>1. SUFFICES ASSUME client # 0
                   PROVE  Passed(databases'[client])
                            \/ \E d \in Connector : At(d, "stored")' /\ connecting'[d].db = client
      BY <1>1
    <3>2. client \in DOMAIN databases
      BY <1>1, <3>1 DEF ConnectionTypes
    <3>3. \A d \in Connector : At(d, "stored") => connecting'[d] = connecting[d] /\ At(d, "stored")'
      BY <1>1, <1>3 DEF At
    <3> QED
      BY <1>2, <1>6, <3>1, <3>2, <3>3 DEF Alone, Passed
  <2>6. (\A d \in Connector :
           At(d, "migrate") \/ At(d, "apply") \/ At(d, "record") => Passed(databases[connecting[d].db]))'
    BY <1>2, <1>5, <1>6 DEF Alone, Passed, At
  <2> QED
    BY <2>1, <2>2, <2>3, <2>4, <2>5, <2>6 DEF Alone
<1>7. ASSUME Complete
      PROVE  Complete'
  <2>1. databases[db].applied = Schema
    BY <1>1, <1>7 DEF Complete
  <2> QED
    BY <1>2, <1>5, <1>7, <2>1 DEF Complete, At
<1> QED
  BY <1>4, <1>6, <1>7 DEF ConnectionInv, Safe

LEMMA ConnectionRests ==
  ASSUME ConnectionInv, mix' = mix, Disconnect \/ UNCHANGED connectionVars
  PROVE  ConnectionInv'
<1>1. UNCHANGED <<databases, connecting>> /\ (client' = client \/ client' = 0)
  BY DEF Disconnect, connectionVars
<1>2. ConnectionTypes'
  BY <1>1 DEF ConnectionInv, ConnectionTypes, At
<1>3. Alone => Alone'
  <2>1. ASSUME NEW d \in Connector, At(d, "open")
        PROVE  connecting[d].db # 0
    BY <2>1 DEF ConnectionInv, ConnectionTypes, At
  <2> QED
    BY <1>1, <2>1 DEF Alone, Busy, At
<1>4. Complete => Complete'
  BY <1>1 DEF Complete, At
<1> QED
  BY <1>2, <1>3, <1>4 DEF ConnectionInv, Safe

LEMMA ConnectionKept ==
  ConnectionInv /\ (ConnectionNext \/ UNCHANGED connectionVars) /\ mix' = mix => ConnectionInv'
<1> SUFFICES ASSUME ConnectionInv, ConnectionNext, mix' = mix
             PROVE  ConnectionInv'
  BY ConnectionRests
<1>1. ASSUME NEW c \in Connector,
             StoreClient(c) \/ RunMigrations(c) \/ ReadVersion(c) \/ ConnectFails(c)
      PROVE  ConnectionInv'
  <2>1. UNCHANGED databases
    BY <1>1 DEF StoreClient, RunMigrations, ReadVersion, ConnectFails
  <2> QED
    BY <1>1, <2>1, MoveKeeps
<1>2. ASSUME NEW c \in Connector, ApplyAllStatements(c) \/ ApplySchema(c)
      PROVE  ConnectionInv'
  BY <1>2, PassKeeps DEF ApplyAllStatements, ApplySchema
<1> QED
  BY <1>1, <1>2, ConnectKeeps, RecordKeeps, ConnectionRests DEF ConnectionNext

LEMMA ConnectionSound == ConnectionInv => ConnectionTypeOK /\ VersionMeansSchema /\ RecordedOnce
<1> SUFFICES ASSUME ConnectionInv
             PROVE  ConnectionTypeOK /\ VersionMeansSchema /\ RecordedOnce
  OBVIOUS
<1>1. ConnectionTypeOK
  <2>1. \A db \in DOMAIN databases : databases[db] \in DatabaseType
    BY DEF ConnectionInv, ConnectionTypes
  <2> QED
    BY <2>1 DEF ConnectionInv, ConnectionTypes, ConnectionTypeOK, DatabaseType, Schema
<1>2. VersionMeansSchema
  BY DEF ConnectionInv, Complete, VersionMeansSchema, Schema
<1>3. RecordedOnce
  BY DEF ConnectionInv, Alone, RecordedOnce
<1> QED
  BY <1>1, <1>2, <1>3

-----------------------------------------------------------------------------
(* Encrypted fields and blobs.                                             *)

(* A row that the password opens: it wraps a DEK, and nothing else does.    *)
Opens(row, pw) == \E n \in Nat : row = WrapDek(Dek(n), DeriveKek(pw))

(* Every row, stored or about to be, is opened by the password it goes with. *)
RowsOpen ==
  /\ password \in Password
  /\ Opens(keyRow, password)
  /\ held \in [KeyHolder -> {[dek |-> d] : d \in {Dek(n) : n \in Nat}}
                            \cup [row : {WrapDek(Dek(n), DeriveKek(pw)) : n \in Nat, pw \in Password},
                                  new : Password]
                            \cup {Failed}]
  /\ \A h \in KeyHolder : "row" \in DOMAIN held[h] => Opens(held[h].row, held[h].new)
  /\ vaultCalls \in Nat

(* There is one DEK: all rows wrap it, all callers have it, and it has      *)
(* encrypted the fields.                                                   *)
OneDek ==
  /\ keyRow.of = Dek(0)
  /\ \A h \in KeyHolder :
       /\ "dek" \in DOMAIN held[h] => held[h].dek = Dek(0)
       /\ "row" \in DOMAIN held[h] => held[h].row.of = Dek(0)
  /\ \A f \in Field : written[f] # Failed => fields[f] = Encrypt(written[f], Dek(0))

FieldInv ==
  /\ RowsOpen
  /\ written \in [Field -> Text \cup {Failed}] /\ DOMAIN fields = Field
  /\ Safe({"setup_again", "legacy"}) => OneDek

(* A stored blob has the checksum of its data, and is as it was made unless *)
(* it was damaged.                                                         *)
BlobInv ==
  /\ kept \in [Blob -> Data \cup {Failed}] /\ DOMAIN blobs = Blob
  /\ \A x \in Blob : blobs[x] # Failed => "crc" \in DOMAIN blobs[x] /\ blobs[x].crc = kept[x]
  /\ Safe({"damage"}) => \A x \in Blob : blobs[x] \in {Failed, CompressBlob(kept[x])}
  /\ BlobsTrue
  /\ BlobsReturn

LEMMA VaultAtFirst == VaultInit => FieldInv /\ BlobInv
<1> SUFFICES ASSUME VaultInit
             PROVE  FieldInv /\ BlobInv
  OBVIOUS
<1>1. RowsOpen
  BY VaultAssumption DEF VaultInit, RowsOpen, Opens, Failed
<1>2. OneDek
  BY DEF VaultInit, OneDek, Failed, WrapDek, Encrypt
<1>3. FieldInv
  BY <1>1, <1>2 DEF FieldInv, VaultInit
<1>4. BlobInv
  BY DEF BlobInv, VaultInit, BlobsTrue, BlobsReturn, NoReading
<1> QED
  BY <1>3, <1>4

(* What the keys can do.                                                   *)
LEMMA Keys ==
  ASSUME NEW row, NEW pw, Opens(row, pw)
  PROVE  /\ UnwrapDek(row, DeriveKek(pw)) = row.of
         /\ \E n \in Nat : row.of = Dek(n)
         /\ row.of # Failed
         /\ \A other : UnwrapDek(row, DeriveKek(other)) # Failed => other = pw
         /\ \A other : other # pw => UnwrapDek(row, DeriveKek(other)) = Failed
         /\ \A new : Rewrapped(row, pw, new) = WrapDek(row.of, DeriveKek(new))
<1>1. PICK n \in Nat : row = [key |-> [kek |-> pw], of |-> [dek |-> n]]
  BY DEF Opens, WrapDek, Encrypt, Dek, DeriveKek
<1>2. row.key = [kek |-> pw] /\ row.of = [dek |-> n]
  BY <1>1
<1>3. [dek |-> n] # [failed |-> TRUE]
  <2>1. "dek" \in DOMAIN [dek |-> n] /\ "dek" \notin DOMAIN [failed |-> TRUE]
    OBVIOUS
  <2> QED
    BY <2>1
<1>4. \A other : [kek |-> other] = [kek |-> pw] => other = pw
  <2>1. ASSUME NEW other, [kek |-> other] = [kek |-> pw]
        PROVE  other = pw
    <3>1. [kek |-> other].kek = [kek |-> pw].kek
      BY <2>1
    <3> QED
      BY <3>1
  <2> QED
    BY <2>1
<1>5. UnwrapDek(row, DeriveKek(pw)) = row.of
  BY <1>2 DEF UnwrapDek, Decrypt, DeriveKek
<1>6. \A other : other # pw => UnwrapDek(row, DeriveKek(other)) = Failed
  BY <1>2, <1>4 DEF UnwrapDek, Decrypt, DeriveKek
<1> QED
  BY <1>2, <1>3, <1>5, <1>6 DEF Failed, Dek, Rewrapped

LEMMA FieldsKept ==
  ASSUME FieldInv, FieldNext, mix' = mix
  PROVE  FieldInv'
<1> DEFINE Deks == {Dek(n) : n \in Nat}
           Rows == {WrapDek(Dek(n), DeriveKek(pw)) : n \in Nat, pw \in Password}
           Held == {[dek |-> d] : d \in Deks} \cup [row : Rows, new : Password] \cup {Failed}
<1>1. RowsOpen /\ held \in [KeyHolder -> Held]
  BY DEF FieldInv, RowsOpen
<1>2. ASSUME NEW h \in KeyHolder
      PROVE  /\ "row" \in DOMAIN held[h] => held[h].row \in Rows /\ held[h].new \in Password
             /\ "dek" \in DOMAIN held[h] => held[h].dek \in Deks
  <2>1. held[h] \in Held
    BY <1>1
  <2> HIDE DEF Rows, Deks
  <2>2. CASE held[h] = Failed
    BY <2>2 DEF Failed
  <2>3. CASE \E d \in Deks : held[h] = [dek |-> d]
    BY <2>3
  <2>4. CASE held[h] \in [row : Rows, new : Password]
    BY <2>4
  <2> QED
    BY <2>1, <2>2, <2>3, <2>4
<1>3. ASSUME NEW pw \in Password, Setup(pw)
      PROVE  FieldInv'
  <2>1. ~Safe({"setup_again", "legacy"})'
    BY <1>3 DEF Setup, Risk, Safe
  <2>2. RowsOpen'
    BY <1>1, <1>3 DEF Setup, RowsOpen, Opens, VaultCalled
  <2> QED
    BY <1>3, <2>1, <2>2 DEF FieldInv, Setup
<1>4. ASSUME NEW h \in KeyHolder, NEW new, held' = [held EXCEPT ![h] = new],
             UNCHANGED <<keyRow, fields, password, written>>, vaultCalls' \in Nat,
             \/ new = [dek |-> keyRow.of]
             \/ \E pw \in Password : new = [row |-> WrapDek(keyRow.of, DeriveKek(pw)), new |-> pw]
             \/ new = Failed
      PROVE  FieldInv'
  <2>1. keyRow.of \in Deks
    BY <1>1, Keys DEF RowsOpen
  <2>2. /\ new \in Held
        /\ "row" \in DOMAIN new => Opens(new.row, new.new) /\ new.row.of = keyRow.of
        /\ "dek" \in DOMAIN new => new.dek = keyRow.of
    <3> HIDE DEF Deks
    <3>1. CASE new = [dek |-> keyRow.of]
      <4>1. "row" \notin DOMAIN new
        BY <3>1
      <4> QED
        BY <2>1, <3>1, <4>1
    <3>2. CASE new = Failed
      BY <3>2 DEF Failed
    <3>3. ASSUME NEW pw \in Password, new = [row |-> WrapDek(keyRow.of, DeriveKek(pw)), new |-> pw]
          PROVE  /\ new \in Held
                 /\ "row" \in DOMAIN new => Opens(new.row, new.new) /\ new.row.of = keyRow.of
                 /\ "dek" \in DOMAIN new => new.dek = keyRow.of
      <4>1. WrapDek(keyRow.of, DeriveKek(pw)) \in Rows /\ Opens(WrapDek(keyRow.of, DeriveKek(pw)), pw)
        BY <2>1 DEF Deks, Opens
      <4>2. WrapDek(keyRow.of, DeriveKek(pw)).of = keyRow.of
        BY DEF WrapDek, Encrypt
      <4> HIDE DEF Rows
      <4>3. /\ new.row = WrapDek(keyRow.of, DeriveKek(pw)) /\ new.new = pw
            /\ "dek" \notin DOMAIN new /\ new \in [row : Rows, new : Password]
        BY <3>3, <4>1
      <4> QED
        BY <4>1, <4>2, <4>3
    <3> QED
      BY <1>4, <3>1, <3>2, <3>3
  <2>3. RowsOpen'
    <3> HIDE DEF Deks, Rows
    <3>1. held' \in [KeyHolder -> Held]
      BY <1>1, <1>4, <2>2
    <3>2. \A k \in KeyHolder : "row" \in DOMAIN held'[k] => Opens(held'[k].row, held'[k].new)
      BY <1>1, <1>4, <2>2 DEF RowsOpen
    <3>3. Opens(keyRow, password)' /\ password' \in Password
      BY <1>1, <1>4 DEF RowsOpen
    <3> QED
      BY <1>4, <3>1, <3>2, <3>3 DEF RowsOpen, Deks, Rows
  <2>4. OneDek => OneDek'
    BY <1>1, <1>4, <2>2 DEF OneDek
  <2> QED
    BY <1>4, <2>3, <2>4 DEF FieldInv, Safe
<1>5. ASSUME NEW h \in KeyHolder, NEW pw \in Password, Unlock(h, pw)
      PROVE  FieldInv'
  <2>1. UnwrapDek(keyRow, DeriveKek(pw)) = keyRow.of
    BY <1>1, <1>5, Keys DEF Unlock, RowsOpen
  <2>2. /\ held' = [held EXCEPT ![h] = [dek |-> keyRow.of]]
        /\ UNCHANGED <<keyRow, fields, password, written>> /\ vaultCalls' \in Nat
    BY <1>1, <1>5, <2>1 DEF Unlock, VaultCalled, RowsOpen
  <2> QED
    BY <1>4, <2>2
<1>6. ASSUME NEW h \in KeyHolder, NEW old \in Password, NEW new \in Password,
             ChangePassword(h, old, new)
      PROVE  FieldInv'
  <2>1. Rewrapped(keyRow, old, new) = WrapDek(keyRow.of, DeriveKek(new))
    BY <1>1, <1>6, Keys DEF ChangePassword, RowsOpen
  <2>2. /\ held' = [held EXCEPT ![h] = [row |-> WrapDek(keyRow.of, DeriveKek(new)), new |-> new]]
        /\ UNCHANGED <<keyRow, fields, password, written>> /\ vaultCalls' \in Nat
    BY <1>1, <1>6, <2>1 DEF ChangePassword, VaultCalled, RowsOpen
  <2> QED
    BY <1>4, <2>2
<1>7. ASSUME NEW h \in KeyHolder, GivesUp(h)
      PROVE  FieldInv'
  <2>1. /\ held' = [held EXCEPT ![h] = Failed]
        /\ UNCHANGED <<keyRow, fields, password, written>> /\ vaultCalls' \in Nat
    BY <1>1, <1>7 DEF GivesUp, RowsOpen
  <2> QED
    BY <1>4, <2>1
<1>8. ASSUME NEW h \in KeyHolder, StoreRewrapped(h)
      PROVE  FieldInv'
  <2>1. /\ keyRow' = held[h].row /\ password' = held[h].new /\ "row" \in DOMAIN held[h]
        /\ held' = [held EXCEPT ![h] = Failed] /\ UNCHANGED <<fields, written, vaultCalls>>
    BY <1>8 DEF StoreRewrapped
  <2>2. Opens(keyRow', password') /\ password' \in Password
    BY <1>1, <1>2, <2>1 DEF RowsOpen
  <2>3. \A k \in KeyHolder : held'[k] = held[k] \/ (held'[k] = Failed /\ DOMAIN held'[k] = {"failed"})
    BY <1>1, <2>1 DEF Failed
  <2>4. RowsOpen'
    <3> HIDE DEF Deks, Rows
    <3>1. held' \in [KeyHolder -> Held]
      BY <1>1, <2>1
    <3>2. \A k \in KeyHolder : "row" \in DOMAIN held'[k] => Opens(held'[k].row, held'[k].new)
      BY <1>1, <2>3 DEF RowsOpen
    <3> QED
      BY <1>1, <2>1, <2>2, <3>1, <3>2 DEF RowsOpen, Deks, Rows
  <2>5. OneDek => OneDek'
    BY <2>1, <2>3 DEF OneDek
  <2> QED
    BY <2>1, <2>4, <2>5 DEF FieldInv, Safe
<1>9. ASSUME NEW f \in Field, NEW text \in Text, NEW key, Write(f, text, key), VaultCalled,
             Safe({"setup_again", "legacy"}) /\ OneDek => key = Dek(0)
      PROVE  FieldInv'
  <2>1. RowsOpen'
    BY <1>1, <1>9 DEF Write, RowsOpen, VaultCalled
  <2>2. written' \in [Field -> Text \cup {Failed}] /\ DOMAIN fields' = Field
    BY <1>9 DEF Write, FieldInv
  <2>3. (Safe({"setup_again", "legacy"}) /\ OneDek) => OneDek'
    BY <1>9 DEF OneDek, Write, FieldInv
  <2> QED
    BY <2>1, <2>2, <2>3 DEF FieldInv, Safe
<1>10. ASSUME NEW h \in KeyHolder, NEW f \in Field, NEW text \in Text, EncryptField(h, f, text)
       PROVE  FieldInv'
  BY <1>9, <1>10 DEF EncryptField, OneDek
<1>11. ASSUME NEW f \in Field, NEW text \in Text, EncryptWithKek(f, text)
       PROVE  FieldInv'
  <2>1. ~Safe({"setup_again", "legacy"})
    BY <1>11 DEF EncryptWithKek, Risk, Safe
  <2> QED
    BY <1>9, <1>11, <2>1 DEF EncryptWithKek
<1> QED
  BY <1>3, <1>5, <1>6, <1>7, <1>8, <1>10, <1>11 DEF FieldNext

LEMMA BlobsKept ==
  ASSUME BlobInv, BlobNext, mix' = mix
  PROVE  BlobInv'
<1>1. ASSUME NEW x \in Blob, NEW d \in Data, PutBlob(x, d)
      PROVE  BlobInv'
  <2>1. /\ blobs' = [blobs EXCEPT ![x] = CompressBlob(d)] /\ kept' = [kept EXCEPT ![x] = d]
        /\ answer' = answer
    BY <1>1 DEF PutBlob
  <2>2. "crc" \in DOMAIN CompressBlob(d) /\ CompressBlob(d).crc = d
    BY DEF CompressBlob
  <2>3. kept' \in [Blob -> Data \cup {Failed}] /\ DOMAIN blobs' = Blob
    BY <2>1 DEF BlobInv
  <2>4. \A y \in Blob : \/ y = x /\ blobs'[y] = CompressBlob(d) /\ kept'[y] = d
                        \/ blobs'[y] = blobs[y] /\ kept'[y] = kept[y]
    BY <2>1 DEF BlobInv
  <2>5. \A y \in Blob : blobs'[y] # Failed => "crc" \in DOMAIN blobs'[y] /\ blobs'[y].crc = kept'[y]
    BY <2>2, <2>4 DEF BlobInv
  <2>6. Safe({"damage"})' => \A y \in Blob : blobs'[y] \in {Failed, CompressBlob(kept'[y])}
    BY <2>4 DEF BlobInv, Safe
  <2>7. BlobsTrue' /\ BlobsReturn'
    BY <2>1 DEF BlobInv, BlobsTrue, BlobsReturn, Safe, NoReading
  <2> QED
    BY <2>3, <2>5, <2>6, <2>7 DEF BlobInv
<1>2. ASSUME NEW x \in Blob, DamageBlob(x)
      PROVE  BlobInv'
  <2>1. /\ \/ \E flag \in 0 .. 2 : blobs' = [blobs EXCEPT ![x].flag = flag]
           \/ \E d \in Data : blobs' = [blobs EXCEPT ![x].payload.of = d]
        /\ kept' = kept /\ answer' = answer /\ ~Safe({"damage"}) /\ ~Safe({"damage"})' /\ blobs[x] # Failed
    BY <1>2 DEF DamageBlob, Risk, Safe
  <2>2. /\ DOMAIN blobs' = Blob /\ \A y \in Blob : y # x => blobs'[y] = blobs[y]
        /\ "crc" \in DOMAIN blobs'[x] /\ blobs'[x].crc = blobs[x].crc
    <3>1. ASSUME NEW flag, blobs' = [blobs EXCEPT ![x].flag = flag]
          PROVE  /\ DOMAIN blobs' = Blob /\ \A y \in Blob : y # x => blobs'[y] = blobs[y]
                 /\ "crc" \in DOMAIN blobs'[x] /\ blobs'[x].crc = blobs[x].crc
      <4>1. blobs'[x] = [blobs[x] EXCEPT !.flag = flag]
        BY <3>1 DEF BlobInv
      <4>2. "crc" \in DOMAIN blobs[x]
        BY <2>1 DEF BlobInv
      <4> QED
        BY <3>1, <4>1, <4>2 DEF BlobInv
    <3>2. ASSUME NEW d, blobs' = [blobs EXCEPT ![x].payload.of = d]
          PROVE  /\ DOMAIN blobs' = Blob /\ \A y \in Blob : y # x => blobs'[y] = blobs[y]
                 /\ "crc" \in DOMAIN blobs'[x] /\ blobs'[x].crc = blobs[x].crc
      <4>1. blobs'[x] = [blobs[x] EXCEPT !.payload = [@ EXCEPT !.of = d]]
        BY <3>2 DEF BlobInv
      <4>2. "crc" \in DOMAIN blobs[x]
        BY <2>1 DEF BlobInv
      <4> QED
        BY <3>2, <4>1, <4>2 DEF BlobInv
    <3> QED
      BY <2>1, <3>1, <3>2
  <2> QED
    BY <2>1, <2>2 DEF BlobInv, BlobsTrue, BlobsReturn
<1>3. ASSUME NEW x \in Blob, GetBlob(x)
      PROVE  BlobInv'
  <2>1. PICK d \in Recovered(blobs[x]) :
          answer' = [blob |-> x, data |-> Checked(blobs[x], d), of |-> kept[x]]
    BY <1>3 DEF GetBlob, DecompressBlob
  <2>2. UNCHANGED <<blobs, kept>> /\ blobs[x] # Failed
    BY <1>3 DEF GetBlob
  <2>3. answer'.data = Checked(blobs[x], d) /\ answer'.of = kept[x]
    BY <2>1
  <2>4. blobs[x].crc = kept[x]
    BY <2>2 DEF BlobInv
  <2>5. BlobsTrue'
    BY <2>3, <2>4 DEF BlobsTrue, Checked
  <2>6. ASSUME Safe({"damage"}), kept[x] \notin Compressible
        PROVE  Checked(blobs[x], d) = kept[x]
    <3>1. blobs[x] = [flag |-> 0, crc |-> kept[x], payload |-> [form |-> "raw", of |-> kept[x]]]
      BY <2>2, <2>6 DEF BlobInv, CompressBlob, Raw
    <3>2. blobs[x].flag = 0 /\ blobs[x].payload.form = "raw" /\ blobs[x].payload.of = kept[x]
      BY <3>1
    <3>3. d = kept[x]
      BY <2>1, <3>2 DEF Recovered
    <3> QED
      BY <2>4, <3>3 DEF Checked
  <2>7. BlobsReturn'
    BY <2>3, <2>6 DEF BlobsReturn, Safe
  <2> QED
    BY <2>2, <2>5, <2>7 DEF BlobInv, Safe
<1> QED
  BY <1>1, <1>2, <1>3 DEF BlobNext

LEMMA VaultKept ==
  FieldInv /\ BlobInv /\ (VaultNext \/ UNCHANGED vaultVars) /\ mix' = mix => (FieldInv /\ BlobInv)'
<1> SUFFICES ASSUME FieldInv, BlobInv, VaultNext \/ UNCHANGED vaultVars, mix' = mix
             PROVE  FieldInv' /\ BlobInv'
  OBVIOUS
<1>1. UNCHANGED <<keyRow, fields, held, password, written>> /\ vaultCalls' \in Nat => FieldInv'
  BY DEF FieldInv, RowsOpen, OneDek, Safe
<1>2. UNCHANGED blobVars => BlobInv'
  BY DEF BlobInv, blobVars, BlobsTrue, BlobsReturn, Safe, NoReading
<1>3. CASE UNCHANGED vaultVars
  BY <1>1, <1>2, <1>3 DEF vaultVars, blobVars, FieldInv, RowsOpen
<1>4. CASE FieldNext
  <2>1. UNCHANGED blobVars
    BY <1>4 DEF FieldNext, Setup, StoreRewrapped, GivesUp, Unlock, EncryptField, ChangePassword,
                EncryptWithKek, Write, blobVars
  <2> QED
    BY <1>2, <1>4, <2>1, FieldsKept
<1>5. CASE BlobNext
  <2>1. UNCHANGED <<keyRow, fields, held, password, written>> /\ vaultCalls' \in Nat
    BY <1>5 DEF BlobNext, DamageBlob, GetBlob, PutBlob, fieldVars, VaultCalled, FieldInv, RowsOpen
  <2> QED
    BY <1>1, <1>5, <2>1, BlobsKept
<1> QED
  BY <1>3, <1>4, <1>5 DEF VaultNext

LEMMA VaultSound ==
  FieldInv /\ BlobInv => VaultTypeOK /\ FieldsReadable /\ OthersShut /\ BlobsTrue /\ BlobsReturn
<1> SUFFICES ASSUME FieldInv, BlobInv
             PROVE  VaultTypeOK /\ FieldsReadable /\ OthersShut
  BY DEF BlobInv
<1>1. VaultTypeOK
  BY DEF FieldInv, RowsOpen, BlobInv, VaultTypeOK
<1>2. OthersShut
  BY Keys DEF FieldInv, RowsOpen, OthersShut
<1>3. FieldsReadable
  <2>1. SUFFICES ASSUME Safe({"setup_again", "legacy"}), NEW f \in Field, written[f] # Failed
                 PROVE  ReadWith(password, f) = written[f]
    BY DEF FieldsReadable
  <2>2. fields[f] = Encrypt(written[f], Dek(0)) /\ UnwrapDek(keyRow, DeriveKek(password)) = Dek(0)
    BY <2>1, Keys DEF FieldInv, OneDek, RowsOpen
  <2> QED
    BY <2>2 DEF ReadWith, Decrypt, Encrypt
<1> QED
  BY <1>1, <1>2, <1>3

-----------------------------------------------------------------------------
(* The audit trail.                                                        *)

Plain == {<<"Create", "">>, <<"Update", "">>, <<"Delete", "">>}
Checking(p) == checks[p].phase # "idle"

(* What is known of an entry.                                              *)
KnownIn(e, begun, time) ==
  /\ e.id \in 1 .. begun
  /\ e.action \in mix.actions \cup Plain
  /\ e.stamp \in 0 .. time
Known(e) == KnownIn(e, entriesBegun, stamp)

AuditTypes ==
  /\ mix \in Mixes
  /\ stamp \in Nat /\ entriesBegun \in Nat /\ purgedTo \in Nat
  /\ \E X : logs \in Seq(X)
  /\ \A i \in DOMAIN logs : Known(logs[i])
  /\ \A e \in acknowledged : Known(e)
  /\ checks = [p \in Auditor |-> checks[p]]
  /\ \A p \in Auditor :
       \/ checks[p] = Idle
       \/ checks[p].phase \in {"list", "log"} /\ Known(checks[p].entry)
  /\ \/ purge = Idle
     \/ purge.phase = "delete" /\ purge.date \in 0 .. MaxStamp /\ Database

(* Each entry that was logged is there until its date is deleted.           *)
AllKept ==
  \A e \in acknowledged : e.stamp >= purgedTo =>
    \E i \in DOMAIN logs : logs[i].id = e.id /\ logs[i].stamp = e.stamp

(* What the database has counted is what it will delete.                    *)
CountsTrue ==
  /\ purge = Idle \/ purge.count = Len(logs) - Len(Keep(purge.date))
  /\ purged.reported = purged.actual

(* The entries are linked, in the order of their stamps, and the check in   *)
(* progress is of none before theirs and links to the last of them.        *)
InOrder ==
  /\ \A p, q \in Auditor : Checking(p) /\ Checking(q) => p = q
  /\ \A i, j \in DOMAIN logs : i < j => logs[i].stamp <= logs[j].stamp
  /\ \A i \in DOMAIN logs : \A p \in Auditor : Checking(p) => logs[i].stamp <= checks[p].entry.stamp
  /\ \A i \in 2 .. Len(logs) : logs[i].prev = logs[i - 1].hash
  /\ \A i \in DOMAIN logs : logs[i].hash = AuditHash(logs[i].id, logs[i].prev)
  /\ \A p \in Auditor : checks[p].phase = "log" =>
       LET e == checks[p].entry IN
       /\ e.hash = AuditHash(e.id, e.prev)
       /\ Len(logs) = 0 \/ e.prev = logs[Len(logs)].hash

AuditInv ==
  /\ AuditTypes /\ AllKept
  /\ Safe({"late"}) => CountsTrue
  /\ Safe({"overlap", "plain", "database"}) => InOrder

LEMMA AuditAtFirst == MixInit /\ AuditInit => AuditInv
<1> SUFFICES ASSUME MixInit, AuditInit
             PROVE  AuditInv
  OBVIOUS
<1>1. logs = << >> /\ Len(logs) = 0 /\ DOMAIN logs = {} /\ logs \in Seq({})
  BY DEF AuditInit
<1>2. \A p \in Auditor : checks[p] = Idle /\ checks[p].phase = "idle"
  BY DEF AuditInit, Idle
<1>3. AuditTypes /\ AllKept
  BY <1>1, <1>2 DEF AuditTypes, AllKept, AuditInit, MixInit
<1>4. CountsTrue
  BY DEF CountsTrue, AuditInit
<1>5. InOrder
  BY <1>1, <1>2 DEF InOrder, Checking
<1> QED
  BY <1>3, <1>4, <1>5 DEF AuditInv

(* The entries that are left by a deletion.                                 *)
Left(date) == {i \in DOMAIN logs : Retained(logs[i], date)}

LEMMA LogsAre ==
  ASSUME AuditTypes
  PROVE  /\ Len(logs) \in Nat /\ DOMAIN logs = 1 .. Len(logs)
         /\ \A i \in DOMAIN logs : logs[i].stamp \in Nat
<1>1. PICK X : logs \in Seq(X)
  BY DEF AuditTypes
<1>2. \A i \in DOMAIN logs : logs[i].stamp \in Nat
  BY DEF AuditTypes, Known, KnownIn
<1> QED
  BY <1>1, <1>2

LEMMA KeepIs ==
  ASSUME AuditTypes, NEW date
  PROVE  /\ \E X : Keep(date) \in Seq(X)
         /\ \E g : IsThose(logs, Left(date), Keep(date), g)
<1>1. PICK X : logs \in Seq(X)
  BY DEF AuditTypes
<1>2. Left(date) \in SUBSET DOMAIN logs /\ Keep(date) = Those(logs, Left(date))
  BY DEF Left, Keep
<1>3. Those(logs, Left(date)) \in Seq(X) /\ \E g : IsThose(logs, Left(date), Those(logs, Left(date)), g)
  BY <1>1, <1>2, ThoseAre
<1> QED
  BY <1>2, <1>3

(* A deletion, of what is older than a date, keeps what is known, and the   *)
(* order.                                                                  *)
LEMMA DeletionKeeps ==
  ASSUME AuditTypes, AllKept, NEW date \in 0 .. MaxStamp,
         logs' = Keep(date), PurgedTo(date),
         mix' = mix, stamp' = stamp, entriesBegun' = entriesBegun,
         acknowledged' = acknowledged, checks' = checks,
         purge' = purge \/ purge' = Idle
  PROVE  /\ AuditTypes' /\ AllKept'
         /\ InOrder => InOrder'
<1> USE AuditBounds
<1>1. PICK g : IsThose(logs, Left(date), Keep(date), g)
  BY KeepIs
<1>2. PICK X : logs' \in Seq(X)
  BY KeepIs
<1> DEFINE L == Len(logs')
<1>3. /\ Len(logs) \in Nat /\ DOMAIN logs = 1 .. Len(logs)
      /\ \A i \in DOMAIN logs : logs[i].stamp \in Nat
  BY LogsAre
<1>4. L \in Nat /\ DOMAIN logs' = 1 .. L
  BY <1>2
<1>5. /\ g \in [1 .. L -> DOMAIN logs]
      /\ \A k \in 1 .. L : logs'[k] = logs[g[k]] /\ g[k] \in Left(date)
      /\ \A j, k \in 1 .. L : j < k => g[j] < g[k]
      /\ \A i \in Left(date) : \E k \in 1 .. L : g[k] = i
  BY <1>1 DEF IsThose, Left
<1> HIDE DEF L
<1>6. purgedTo' \in Nat /\ purgedTo' >= purgedTo /\ purgedTo' >= date
  BY DEF PurgedTo, AuditTypes
<1>7. AuditTypes'
  <2>1. \A i \in DOMAIN logs' : Known(logs[g[i]])
    BY <1>4, <1>5 DEF AuditTypes
  <2>2. \A i \in DOMAIN logs' : Known(logs[i])'
    BY <1>4, <1>5, <2>1 DEF Known, KnownIn
  <2>3. \A e : Known(e)' = Known(e)
    BY DEF Known, KnownIn
  <2>4. Database' = Database
    BY DEF Database, Risk
  <2> QED
    BY <1>2, <1>6, <2>2, <2>3, <2>4 DEF AuditTypes, Known, KnownIn, Database, Risk
<1>8. AllKept'
  <2>1. SUFFICES ASSUME NEW e \in acknowledged, e.stamp >= purgedTo'
                 PROVE  \E k \in 1 .. L : logs'[k].id = e.id /\ logs'[k].stamp = e.stamp
    BY <1>4 DEF AllKept
  <2>2. e.stamp \in Nat
    BY DEF AuditTypes, Known, KnownIn
  <2>3. PICK i \in DOMAIN logs : logs[i].id = e.id /\ logs[i].stamp = e.stamp
    BY <1>6, <2>1, <2>2 DEF AllKept, AuditTypes
  <2>4. i \in Left(date)
    BY <1>6, <2>1, <2>2, <2>3 DEF Left, Retained
  <2> QED
    BY <1>5, <2>3, <2>4
<1>9. ASSUME InOrder
      PROVE  InOrder'
  <2>1. \A i, j \in DOMAIN logs : i < j /\ i \in Left(date) => j \in Left(date)
    BY <1>3, <1>9 DEF InOrder, Left, Retained
  <2>2. (\A i, j \in DOMAIN logs : i < j => logs[i].stamp <= logs[j].stamp)'
    BY <1>4, <1>5, <1>9 DEF InOrder
  <2>3. (\A i \in DOMAIN logs : \A p \in Auditor : Checking(p) => logs[i].stamp <= checks[p].entry.stamp)'
    BY <1>4, <1>5, <1>9 DEF InOrder, Checking
  <2>4. ASSUME NEW i \in 2 .. L
        PROVE  g[i] = g[i - 1] + 1
    <3>1. i - 1 \in 1 .. L /\ i \in 1 .. L /\ i - 1 < i
      BY <1>4
    <3>2. g[i - 1] < g[i] /\ g[i] \in 1 .. Len(logs) /\ g[i - 1] \in 1 .. Len(logs)
      BY <1>3, <1>5, <3>1
    <3>3. CASE g[i - 1] + 1 < g[i]
      <4>1. g[i - 1] + 1 \in Left(date)
        BY <1>3, <1>5, <2>1, <3>1, <3>2, <3>3
      <4>2. PICK k \in 1 .. L : g[k] = g[i - 1] + 1
        BY <1>5, <4>1
      <4>3. ~(i - 1 < k) \/ ~(k < i)
        BY <1>4
      <4>4. k < i - 1 \/ k = i - 1 \/ i < k \/ k = i
        BY <1>4, <4>3
      <4>5. k < i - 1 => g[k] < g[i - 1]
        BY <1>5, <3>1
      <4>6. i < k => g[i] < g[k]
        BY <1>5, <3>1
      <4> QED
        BY <3>2, <3>3, <4>2, <4>4, <4>5, <4>6
    <3> QED
      BY <3>2, <3>3
  <2>5. (\A i \in 2 .. Len(logs) : logs[i].prev = logs[i - 1].hash)'
    <3>1. SUFFICES ASSUME NEW i \in 2 .. L
                   PROVE  logs'[i].prev = logs'[i - 1].hash
      BY DEF L
    <3>2. i \in 1 .. L /\ i - 1 \in 1 .. L
      BY <1>4
    <3>3. logs'[i] = logs[g[i]] /\ logs'[i - 1] = logs[g[i - 1]]
      BY <1>5, <3>2
    <3>4. g[i] = g[i - 1] + 1 /\ g[i] \in 1 .. Len(logs) /\ g[i - 1] \in 1 .. Len(logs)
      BY <1>3, <1>5, <2>4, <3>2
    <3>5. g[i] \in 2 .. Len(logs) /\ g[i] - 1 = g[i - 1]
      BY <1>3, <3>4
    <3> QED
      BY <1>9, <3>3, <3>5 DEF InOrder
  <2>6. (\A i \in DOMAIN logs : logs[i].hash = AuditHash(logs[i].id, logs[i].prev))'
    BY <1>4, <1>5, <1>9 DEF InOrder, AuditHash
  <2>7. L # 0 => logs'[L] = logs[Len(logs)] /\ Len(logs) # 0
    <3>1. SUFFICES ASSUME L # 0
                   PROVE  logs'[L] = logs[Len(logs)] /\ Len(logs) # 0
      OBVIOUS
    <3>2. L \in 1 .. L /\ g[L] \in 1 .. Len(logs) /\ g[L] \in Left(date)
      BY <1>3, <1>4, <1>5, <3>1
    <3>3. Len(logs) \in Left(date) /\ Len(logs) # 0
      BY <1>3, <2>1, <3>2
    <3>4. PICK k \in 1 .. L : g[k] = Len(logs)
      BY <1>5, <3>3
    <3>5. ~(k < L)
      BY <1>3, <1>5, <3>2, <3>4
    <3>6. k = L
      BY <1>4, <3>5
    <3> QED
      BY <1>5, <3>2, <3>3, <3>4, <3>6
  <2>8. (\A p, q \in Auditor : Checking(p) /\ Checking(q) => p = q)'
    BY <1>9 DEF InOrder, Checking
  <2>9. (\A p \in Auditor : checks[p].phase = "log" =>
           LET e == checks[p].entry IN
           /\ e.hash = AuditHash(e.id, e.prev)
           /\ Len(logs) = 0 \/ e.prev = logs[Len(logs)].hash)'
    BY <1>9, <2>7 DEF InOrder, AuditHash, L
  <2> QED
    BY <2>2, <2>3, <2>5, <2>6, <2>8, <2>9 DEF InOrder
<1> QED
  BY <1>7, <1>8, <1>9

(* An entry that is logged is kept, and is counted by none who counted.     *)
LEMMA LogKeeps ==
  ASSUME AuditTypes, AllKept, NEW e, KnownIn(e, entriesBegun', stamp'), Log(e),
         LateForPurge(e) => Risk("late"),
         mix' = mix, purge' = purge, purged' = purged, purgedTo' = purgedTo, stamp' = stamp,
         entriesBegun' \in Nat, entriesBegun' >= entriesBegun
  PROVE  /\ \E X : logs' \in Seq(X)
         /\ Len(logs') = Len(logs) + 1 /\ logs'[Len(logs) + 1] = LogRow(e)
         /\ \A i \in DOMAIN logs : logs'[i] = logs[i]
         /\ \A i \in DOMAIN logs' : KnownIn(logs'[i], entriesBegun', stamp')
         /\ \A x \in acknowledged' : KnownIn(x, entriesBegun', stamp')
         /\ AllKept'
         /\ Safe({"late"}) /\ CountsTrue => CountsTrue'
<1>1. PICK X : logs \in Seq(X)
  BY DEF AuditTypes
<1> DEFINE r == LogRow(e)
           n == Len(logs) + 1
<1>2. r.id = e.id /\ r.action = e.action /\ r.stamp = e.stamp
  BY DEF LogRow, WithHashes
<1>3. KnownIn(r, entriesBegun', stamp')
  BY <1>2 DEF KnownIn
<1>10. \A x : Known(x) => KnownIn(x, entriesBegun', stamp')
  BY DEF Known, KnownIn, AuditTypes
<1> HIDE DEF r
<1>4. logs' = Append(logs, r) /\ acknowledged' = acknowledged \cup {e}
  BY DEF Log, r
<1>5. /\ logs' \in Seq(X \cup {r}) /\ Len(logs') = n /\ logs'[n] = r /\ n \in Nat
      /\ DOMAIN logs' = 1 .. n /\ DOMAIN logs = 1 .. Len(logs) /\ Len(logs) \in Nat
      /\ \A i \in DOMAIN logs : logs'[i] = logs[i]
  <2>1. logs \in Seq(X \cup {r})
    BY <1>1
  <2> QED
    BY <1>4, <2>1
<1>6. \A i \in DOMAIN logs' : KnownIn(logs'[i], entriesBegun', stamp')
  BY <1>3, <1>5, <1>10 DEF AuditTypes
<1>7. \A x \in acknowledged' : KnownIn(x, entriesBegun', stamp')
  BY <1>4, <1>10 DEF AuditTypes
<1>8. AllKept'
  <2>1. SUFFICES ASSUME NEW x \in acknowledged \cup {e}, x.stamp >= purgedTo
                 PROVE  \E i \in 1 .. n : logs'[i].id = x.id /\ logs'[i].stamp = x.stamp
    BY <1>4, <1>5 DEF AllKept
  <2>2. CASE x = e
    BY <1>2, <1>5, <2>2
  <2>3. CASE x \in acknowledged
    <3>1. PICK i \in DOMAIN logs : logs[i].id = x.id /\ logs[i].stamp = x.stamp
      BY <2>1, <2>3 DEF AllKept
    <3> QED
      BY <1>5, <3>1
  <2> QED
    BY <2>1, <2>2, <2>3
<1>9. ASSUME Safe({"late"}), CountsTrue
      PROVE  CountsTrue'
  <2>1. CASE purge = Idle
    BY <1>9, <2>1 DEF CountsTrue
  <2>2. CASE purge # Idle
    <3> DEFINE date == purge.date
               I == {i \in DOMAIN logs : Retained(logs[i], date)}
               J == {i \in DOMAIN logs' : Retained(logs'[i], date)}
    <3>1. e.stamp >= date
      <4>1. ~LateForPurge(e)
        BY <1>9 DEF Safe, Risk
      <4>2. e.stamp \in Nat /\ date \in Nat
        BY <2>2 DEF AuditTypes, KnownIn
      <4> QED
        BY <2>2, <4>1, <4>2 DEF LateForPurge
    <3>2. J = I \cup {n} /\ n \notin I
      BY <1>2, <1>5, <3>1 DEF Retained
    <3>3. IsFiniteSet(I) /\ Cardinality(I) = Len(Those(logs, I))
      BY <1>1, ThoseCounted
    <3>4. IsFiniteSet(J) /\ Cardinality(J) = Len(Those(logs', J))
      BY <1>5, ThoseCounted
    <3>5. Cardinality(J) = Cardinality(I) + 1 /\ Cardinality(I) \in Nat
      BY <3>2, <3>3, FS_AddElement, FS_CardinalityType
    <3>6. Keep(date) = Those(logs, I) /\ Keep(date)' = Those(logs', J)
      BY DEF Keep
    <3>7. purge.count = Len(logs) - Len(Keep(date)) /\ purged.reported = purged.actual
      BY <1>9, <2>2 DEF CountsTrue
    <3>8. purge'.count = Len(logs') - Len(Keep(purge.date)')
      <4>1. Len(Keep(date)) = Cardinality(I) /\ Len(Keep(date)') = Cardinality(I) + 1
        BY <3>3, <3>4, <3>5, <3>6
      <4>2. Len(logs') = Len(logs) + 1 /\ Len(logs) \in Nat
        BY <1>5
      <4> QED
        BY <3>5, <3>7, <4>1, <4>2
    <3> QED
      BY <3>7, <3>8 DEF CountsTrue
  <2> QED
    BY <2>1, <2>2
<1> QED
  BY <1>5, <1>6, <1>7, <1>8, <1>9 DEF r
(* A step that logs and deletes nothing, and leaves the purge.              *)
LEMMA OthersKeep ==
  ASSUME AuditTypes, AllKept,
         UNCHANGED <<mix, logs, acknowledged, purgedTo, purged, purge>>,
         stamp' \in Nat, stamp' >= stamp,
         entriesBegun' \in Nat, entriesBegun' >= entriesBegun,
         checks' = [p \in Auditor |-> checks'[p]],
         \A p \in Auditor :
           \/ checks'[p] = Idle
           \/ checks'[p].phase \in {"list", "log"} /\ KnownIn(checks'[p].entry, entriesBegun', stamp')
  PROVE  AuditTypes' /\ AllKept' /\ (CountsTrue => CountsTrue')
<1>1. \A e : Known(e) => Known(e)'
  BY DEF Known, KnownIn, AuditTypes
<1>2. \A i \in DOMAIN logs : Known(logs[i])'
  BY <1>1 DEF AuditTypes
<1>3. \A e \in acknowledged : Known(e)'
  BY <1>1 DEF AuditTypes
<1>4. (\A i \in DOMAIN logs : Known(logs[i]))' /\ (\A e \in acknowledged : Known(e))'
  BY <1>2, <1>3 DEF Known, KnownIn
<1>5. (\A p \in Auditor :
         \/ checks[p] = Idle
         \/ checks[p].phase \in {"list", "log"} /\ Known(checks[p].entry))'
  BY DEF Known, KnownIn, Idle
<1>6. (\/ purge = Idle
       \/ purge.phase = "delete" /\ purge.date \in 0 .. MaxStamp /\ Database)'
  BY DEF AuditTypes, Database, Risk, Idle
<1>7. (\E X : logs \in Seq(X))' /\ mix' \in Mixes /\ purgedTo' \in Nat
  BY DEF AuditTypes
<1>8. AuditTypes'
  BY <1>4, <1>5, <1>6, <1>7 DEF AuditTypes
<1>9. AllKept'
  BY DEF AllKept
<1>10. CountsTrue => CountsTrue'
  BY DEF CountsTrue, Keep, Retained, Idle
<1> QED
  BY <1>8, <1>9, <1>10

LEMMA AuditKept ==
  ASSUME AuditInv, AuditNext \/ UNCHANGED auditVars, mix' = mix
  PROVE  AuditInv'
<1> USE AuditBounds
<1> DEFINE Single == Safe({"overlap", "plain", "database"})
           Linked == Single => InOrder
<1>1. AuditTypes /\ AllKept /\ (Safe({"late"}) => CountsTrue) /\ Linked
  BY DEF AuditInv
<1>2. Safe({"late"})' = Safe({"late"}) /\ Single' = Single /\ (Single => ~Database /\ ~Risk("plain") /\ ~Risk("overlap"))
  BY DEF Safe, Database, Risk
<1>3. SUFFICES AuditTypes' /\ AllKept' /\ (Safe({"late"}) => CountsTrue') /\ (Single => InOrder')
  BY <1>2 DEF AuditInv
<1>4. /\ Len(logs) \in Nat /\ DOMAIN logs = 1 .. Len(logs)
      /\ \A i \in DOMAIN logs : logs[i].stamp \in Nat
  BY <1>1, LogsAre
<1>5. /\ checks = [p \in Auditor |-> checks[p]] /\ stamp \in Nat /\ entriesBegun \in Nat
      /\ mix \in Mixes
      /\ \A p \in Auditor :
           \/ checks[p] = Idle
           \/ checks[p].phase \in {"list", "log"} /\ Known(checks[p].entry)
  BY <1>1 DEF AuditTypes
<1>6. \A e : Known(e) => e.stamp \in 0 .. stamp /\ e.stamp \in Nat
  BY <1>5 DEF Known, KnownIn
<1>7. \A i \in DOMAIN logs : logs[i].stamp <= stamp /\ Known(logs[i])
  BY <1>1, <1>5 DEF AuditTypes, Known, KnownIn
<1>8. \A action \in mix.actions \cup Plain :
        Begins => /\ KnownIn(AuditEntry(action), entriesBegun', stamp)
                  /\ AuditEntry(action).stamp = stamp
  BY <1>5 DEF KnownIn, AuditEntry, Begins
<1>10. CASE UNCHANGED auditVars
  <2>1. UNCHANGED <<logs, checks, purge, stamp, entriesBegun, acknowledged, purgedTo, purged>>
    BY <1>10 DEF auditVars
  <2>5. ASSUME NEW q \in Auditor
        PROVE  \/ checks'[q] = Idle
               \/ checks'[q].phase \in {"list", "log"} /\ KnownIn(checks'[q].entry, entriesBegun', stamp')
    BY <1>5, <2>1 DEF Known
  <2>3. AuditTypes' /\ AllKept' /\ (CountsTrue => CountsTrue')
    BY <1>1, <1>5, <2>1, <2>5, OthersKeep
  <2>4. InOrder => InOrder'
    BY <2>1 DEF InOrder, Checking, AuditHash
  <2> QED
    BY <1>1, <2>3, <2>4
<1>11. ASSUME NEW p \in Auditor, NEW action \in mix.actions, ProcessAuditCheck(p, action)
       PROVE  AuditTypes' /\ AllKept' /\ (Safe({"late"}) => CountsTrue') /\ (Single => InOrder')
  <2> DEFINE e == AuditEntry(action)
  <2>1. /\ UNCHANGED <<logs, purge, stamp, acknowledged, purgedTo, purged>>
        /\ checks' = [checks EXCEPT ![p] = [phase |-> "list", entry |-> e]]
        /\ Begins /\ entriesBegun' = entriesBegun + 1
    BY <1>11 DEF ProcessAuditCheck, Begins
  <2>2. KnownIn(e, entriesBegun', stamp') /\ e.stamp = stamp
    BY <1>8, <2>1
  <2>3. \A q \in Auditor : q # p => checks'[q] = checks[q]
    BY <1>5, <2>1
  <2>4. checks'[p].phase = "list" /\ checks'[p].entry = e /\ checks' = [q \in Auditor |-> checks'[q]]
    BY <1>5, <2>1
  <2>5. ASSUME NEW q \in Auditor
        PROVE  \/ checks'[q] = Idle
               \/ checks'[q].phase \in {"list", "log"} /\ KnownIn(checks'[q].entry, entriesBegun', stamp')
    <3>1. CASE q = p
      BY <2>2, <2>4, <3>1
    <3>2. CASE q # p
      <4>1. checks'[q] = checks[q]
        BY <2>3, <3>2
      <4>2. Known(checks[q].entry) => KnownIn(checks[q].entry, entriesBegun', stamp')
        BY <1>5, <2>1 DEF Known, KnownIn
      <4> QED
        BY <1>5, <4>1, <4>2
    <3> QED
      BY <3>1, <3>2
  <2>6. AuditTypes' /\ AllKept' /\ (CountsTrue => CountsTrue')
    BY <1>1, <1>5, <2>1, <2>4, <2>5, OthersKeep
  <2>7. ASSUME Single
        PROVE  InOrder'
    <3>1. \A q \in Auditor : checks[q] = Idle
      BY <1>2, <1>11, <2>7 DEF ProcessAuditCheck
    <3>2. \A q \in Auditor : (Checking(q)' => q = p) /\ (checks'[q].phase # "log")
      BY <2>3, <2>4, <3>1 DEF Checking, Idle
    <3> QED
      BY <1>1, <1>7, <2>1, <2>2, <2>4, <2>7, <3>2 DEF InOrder, Checking, AuditHash
  <2> QED
    BY <1>1, <2>6, <2>7
<1>12. ASSUME NEW p \in Auditor, ChainListed(p)
       PROVE  AuditTypes' /\ AllKept' /\ (Safe({"late"}) => CountsTrue') /\ (Single => InOrder')
  <2> DEFINE c == [phase |-> "log",
                   entry |-> WithHashes(checks[p].entry, Previous,
                                        AuditHash(checks[p].entry.id, Previous))]
             e == checks[p].entry
  <2>1. /\ UNCHANGED <<logs, purge, stamp, entriesBegun, acknowledged, purgedTo, purged>>
        /\ checks' = [checks EXCEPT ![p] = c] /\ checks[p].phase = "list"
    BY <1>12 DEF ChainListed
  <2>2. /\ c.phase = "log" /\ c.entry.id = e.id /\ c.entry.action = e.action
        /\ c.entry.stamp = e.stamp /\ c.entry.prev = Previous
        /\ c.entry.hash = AuditHash(e.id, Previous)
    BY DEF WithHashes
  <2>3. Known(c.entry)
    <3>1. Known(e)
      BY <1>5, <2>1 DEF Idle
    <3> QED
      BY <2>2, <3>1 DEF Known, KnownIn
  <2> HIDE DEF c
  <2>4. \A q \in Auditor : q # p => checks'[q] = checks[q]
    BY <1>5, <2>1
  <2>5. checks'[p] = c /\ checks' = [q \in Auditor |-> checks'[q]]
    BY <1>5, <2>1
  <2>6. ASSUME NEW q \in Auditor
        PROVE  \/ checks'[q] = Idle
               \/ checks'[q].phase \in {"list", "log"} /\ KnownIn(checks'[q].entry, entriesBegun', stamp')
    BY <1>5, <2>1, <2>2, <2>3, <2>4, <2>5 DEF Known
  <2>7. AuditTypes' /\ AllKept' /\ (CountsTrue => CountsTrue')
    BY <1>1, <1>5, <2>1, <2>5, <2>6, OthersKeep
  <2>8. ASSUME Single
        PROVE  InOrder'
    <3>1. InOrder
      BY <1>1, <2>8
    <3>2. \A q \in Auditor : Checking(q)' => q = p
      BY <2>1, <2>4, <3>1 DEF InOrder, Checking
    <3>3. Len(logs) = 0 \/ Previous = logs[Len(logs)].hash
      <4>1. Len(logs) # 0 => logs # << >>
        OBVIOUS
      <4> QED
        BY <1>2, <2>8, <4>1 DEF Previous, ListAll, Last
    <3>4. (\A i \in DOMAIN logs : \A q \in Auditor : Checking(q) => logs[i].stamp <= checks[q].entry.stamp)'
      BY <2>1, <2>2, <2>5, <3>1, <3>2 DEF InOrder, Checking
    <3>5. (\A q \in Auditor : checks[q].phase = "log" =>
             LET x == checks[q].entry IN
             /\ x.hash = AuditHash(x.id, x.prev)
             /\ Len(logs) = 0 \/ x.prev = logs[Len(logs)].hash)'
      BY <2>1, <2>2, <2>5, <3>2, <3>3 DEF Checking, AuditHash
    <3> QED
      BY <2>1, <3>1, <3>2, <3>4, <3>5 DEF InOrder, AuditHash
  <2> QED
    BY <1>1, <2>7, <2>8
<1>13. ASSUME NEW p \in Auditor, ChainLogged(p)
       PROVE  AuditTypes' /\ AllKept' /\ (Safe({"late"}) => CountsTrue') /\ (Single => InOrder')
  <2> DEFINE e == checks[p].entry
  <2>1. /\ UNCHANGED <<purge, stamp, entriesBegun, purgedTo, purged>>
        /\ checks' = [checks EXCEPT ![p] = Idle] /\ checks[p].phase = "log"
        /\ LateForPurge(e) => Risk("late")
        /\ Log(e)
    BY <1>13 DEF ChainLogged
  <2>7. KnownIn(e, entriesBegun', stamp')
    BY <1>5, <2>1 DEF Idle, Known, KnownIn
  <2>2. \A q \in Auditor : q # p => checks'[q] = checks[q]
    BY <1>5, <2>1
  <2>3. checks'[p] = Idle /\ checks' = [q \in Auditor |-> checks'[q]]
    BY <1>5, <2>1
  <2> HIDE DEF e
  <2>4. /\ \E X : logs' \in Seq(X)
        /\ Len(logs') = Len(logs) + 1 /\ logs'[Len(logs) + 1] = LogRow(e)
        /\ \A i \in DOMAIN logs : logs'[i] = logs[i]
        /\ \A i \in DOMAIN logs' : KnownIn(logs'[i], entriesBegun', stamp')
        /\ \A x \in acknowledged' : KnownIn(x, entriesBegun', stamp')
        /\ AllKept'
        /\ Safe({"late"}) /\ CountsTrue => CountsTrue'
    <3>1. mix' = mix /\ entriesBegun' \in Nat /\ entriesBegun' >= entriesBegun
      BY <1>5, <2>1
    <3> QED
      BY <1>1, <2>1, <2>7, <3>1, LogKeeps
  <2>5. AuditTypes'
    <3>1. (\A i \in DOMAIN logs : Known(logs[i]))' /\ (\A x \in acknowledged : Known(x))'
      BY <2>1, <2>4 DEF Known, KnownIn
    <3>2. (\A q \in Auditor :
             \/ checks[q] = Idle
             \/ checks[q].phase \in {"list", "log"} /\ Known(checks[q].entry))'
      BY <1>5, <2>1, <2>2, <2>3 DEF Known, KnownIn, Idle
    <3> QED
      BY <1>1, <2>1, <2>3, <2>4, <3>1, <3>2 DEF AuditTypes, Database, Risk, Idle
  <2>6. ASSUME Single
        PROVE  InOrder'
    <3>1. InOrder /\ ~Database
      BY <1>1, <1>2, <2>6
    <3>2. \A q \in Auditor : checks'[q].phase = "idle"
      BY <2>1, <2>2, <2>3, <3>1 DEF InOrder, Checking, Idle
    <3>3. /\ \A i \in DOMAIN logs : logs[i].stamp <= e.stamp
          /\ e.hash = AuditHash(e.id, e.prev)
          /\ Len(logs) = 0 \/ e.prev = logs[Len(logs)].hash
          /\ e.stamp \in Nat
      BY <1>5, <1>6, <2>1, <3>1 DEF InOrder, Checking, Idle, e
    <3> DEFINE n == Len(logs) + 1
    <3>4. Len(logs') = n /\ DOMAIN logs' = 1 .. n /\ logs'[n] = e
          /\ \A i \in 1 .. Len(logs) : logs'[i] = logs[i]
      BY <1>4, <2>4, <3>1 DEF LogRow
    <3> HIDE DEF n
    <3>5. (\A i, j \in DOMAIN logs : i < j => logs[i].stamp <= logs[j].stamp)'
      <4>1. SUFFICES ASSUME NEW i \in 1 .. n, NEW j \in 1 .. n, i < j
                     PROVE  logs'[i].stamp <= logs'[j].stamp
        BY <3>4
      <4>2. i \in 1 .. Len(logs) /\ (j = n \/ j \in 1 .. Len(logs))
        BY <1>4, <4>1 DEF n
      <4> QED
        BY <1>4, <3>1, <3>3, <3>4, <4>1, <4>2 DEF InOrder
    <3>6. (\A i \in 2 .. Len(logs) : logs[i].prev = logs[i - 1].hash)'
      <4>1. SUFFICES ASSUME NEW i \in 2 .. n
                     PROVE  logs'[i].prev = logs'[i - 1].hash
        BY <3>4
      <4>2. CASE i = n
        <5>1. i - 1 = Len(logs) /\ Len(logs) # 0 /\ i - 1 \in 1 .. Len(logs)
          BY <1>4, <4>2 DEF n
        <5> QED
          BY <3>3, <3>4, <4>2, <5>1
      <4>3. CASE i # n
        <5>1. i \in 2 .. Len(logs) /\ i \in 1 .. Len(logs) /\ i - 1 \in 1 .. Len(logs)
          BY <1>4, <4>3 DEF n
        <5> QED
          BY <3>1, <3>4, <5>1 DEF InOrder
      <4> QED
        BY <4>2, <4>3
    <3>7. (\A i \in DOMAIN logs : logs[i].hash = AuditHash(logs[i].id, logs[i].prev))'
      <4>1. SUFFICES ASSUME NEW i \in 1 .. n
                     PROVE  logs'[i].hash = AuditHash(logs'[i].id, logs'[i].prev)
        BY <3>4 DEF AuditHash
      <4>2. i = n \/ i \in 1 .. Len(logs)
        BY <1>4 DEF n
      <4> QED
        BY <1>4, <3>1, <3>3, <3>4, <4>2 DEF InOrder
    <3> QED
      BY <3>2, <3>5, <3>6, <3>7 DEF InOrder, Checking
  <2> QED
    BY <1>1, <2>4, <2>5, <2>6
<1>14. ASSUME NEW p \in Auditor, CheckFails(p)
       PROVE  AuditTypes' /\ AllKept' /\ (Safe({"late"}) => CountsTrue') /\ (Single => InOrder')
  <2>1. /\ UNCHANGED <<logs, purge, stamp, entriesBegun, acknowledged, purgedTo, purged>>
        /\ checks' = [checks EXCEPT ![p] = Idle] /\ Database
    BY <1>14 DEF CheckFails
  <2>2. checks' = [q \in Auditor |-> checks'[q]]
    BY <1>5, <2>1
  <2>3. ASSUME NEW q \in Auditor
        PROVE  \/ checks'[q] = Idle
               \/ checks'[q].phase \in {"list", "log"} /\ KnownIn(checks'[q].entry, entriesBegun', stamp')
    BY <1>5, <2>1 DEF Known
  <2>4. AuditTypes' /\ AllKept' /\ (CountsTrue => CountsTrue')
    BY <1>1, <1>5, <2>1, <2>2, <2>3, OthersKeep
  <2> QED
    BY <1>1, <1>2, <2>1, <2>4
<1>15. ASSUME NEW action \in mix.actions \cup Plain, LogPlain(action)
       PROVE  AuditTypes' /\ AllKept' /\ (Safe({"late"}) => CountsTrue') /\ (Single => InOrder')
  <2> DEFINE e == AuditEntry(action)
  <2>1. /\ UNCHANGED <<checks, purge, stamp, purgedTo, purged>>
        /\ Begins /\ entriesBegun' = entriesBegun + 1 /\ Risk("plain")
        /\ LateForPurge(e) => Risk("late")
        /\ Log(e)
    BY <1>15 DEF LogPlain, Begins
  <2>2. KnownIn(e, entriesBegun', stamp')
    BY <1>8, <2>1
  <2> HIDE DEF e
  <2>3. /\ \E X : logs' \in Seq(X)
        /\ \A i \in DOMAIN logs' : KnownIn(logs'[i], entriesBegun', stamp')
        /\ \A x \in acknowledged' : KnownIn(x, entriesBegun', stamp')
        /\ AllKept'
        /\ Safe({"late"}) /\ CountsTrue => CountsTrue'
    <3>1. mix' = mix /\ entriesBegun' \in Nat /\ entriesBegun' >= entriesBegun
      BY <1>5, <2>1
    <3> QED
      BY <1>1, <2>1, <2>2, <3>1, LogKeeps
  <2>4. AuditTypes'
    <3>1. (\A i \in DOMAIN logs : Known(logs[i]))' /\ (\A x \in acknowledged : Known(x))'
      BY <2>3 DEF Known, KnownIn
    <3>2. (\A q \in Auditor :
             \/ checks[q] = Idle
             \/ checks[q].phase \in {"list", "log"} /\ Known(checks[q].entry))'
      BY <1>5, <2>1 DEF Known, KnownIn, Idle
    <3>3. checks' = [q \in Auditor |-> checks'[q]]
      BY <1>5, <2>1
    <3> QED
      BY <1>1, <1>5, <2>1, <2>3, <3>1, <3>2, <3>3 DEF AuditTypes, Database, Risk, Idle
  <2> QED
    BY <1>1, <1>2, <2>1, <2>3, <2>4
<1>16. ASSUME NEW date \in 0 .. MaxStamp, PurgeMemory(date)
       PROVE  AuditTypes' /\ AllKept' /\ (Safe({"late"}) => CountsTrue') /\ (Single => InOrder')
  <2>1. /\ ~Database /\ logs' = Keep(date) /\ PurgedTo(date)
        /\ purged' = [reported |-> Deleted(logs, logs'), actual |-> Len(logs) - Len(logs')]
        /\ UNCHANGED <<checks, purge, stamp, entriesBegun, acknowledged>>
    BY <1>16 DEF PurgeMemory, Reported
  <2>2. AuditTypes' /\ AllKept' /\ (InOrder => InOrder')
    BY <1>1, <2>1, DeletionKeeps
  <2>3. purge = Idle /\ purge' = Idle'
    BY <1>1, <2>1 DEF AuditTypes, Idle
  <2>4. purged'.reported = purged'.actual
    BY <2>1 DEF Deleted
  <2> QED
    BY <1>1, <2>2, <2>3, <2>4 DEF CountsTrue
<1>17. ASSUME NEW date \in 0 .. MaxStamp, PurgeCounts(date)
       PROVE  AuditTypes' /\ AllKept' /\ (Safe({"late"}) => CountsTrue') /\ (Single => InOrder')
  <2>1. /\ Database /\ UNCHANGED <<logs, checks, stamp, entriesBegun, acknowledged, purgedTo, purged>>
        /\ purge' = [phase |-> "delete", date |-> date, count |-> Deleted(logs, Keep(date))]
    BY <1>17 DEF PurgeCounts
  <2>2. AuditTypes'
    BY <1>1, <2>1 DEF AuditTypes, Known, KnownIn, Database, Risk, Idle
  <2>3. AllKept'
    BY <1>1, <2>1 DEF AllKept
  <2>4. CountsTrue => CountsTrue'
    <3>1. Keep(purge.date)' = Keep(date) /\ purge'.count = Len(logs) - Len(Keep(date))
      BY <2>1 DEF Keep, Retained, Deleted
    <3> QED
      BY <2>1, <3>1 DEF CountsTrue
  <2> QED
    BY <1>1, <1>2, <2>1, <2>2, <2>3, <2>4
<1>18. ASSUME PurgeDeletes
       PROVE  AuditTypes' /\ AllKept' /\ (Safe({"late"}) => CountsTrue') /\ (Single => InOrder')
  <2>1. /\ purge # Idle /\ logs' = Keep(purge.date) /\ PurgedTo(purge.date) /\ purge' = Idle
        /\ purged' = [reported |-> purge.count, actual |-> Len(logs) - Len(logs')]
        /\ UNCHANGED <<checks, stamp, entriesBegun, acknowledged>>
    BY <1>18 DEF PurgeDeletes, Reported
  <2>2. Database /\ purge.date \in 0 .. MaxStamp
    BY <1>1, <2>1 DEF AuditTypes
  <2>3. AuditTypes' /\ AllKept'
    BY <1>1, <2>1, <2>2, DeletionKeeps
  <2>4. CountsTrue => CountsTrue'
    BY <2>1 DEF CountsTrue, Idle
  <2> QED
    BY <1>1, <1>2, <2>2, <2>3, <2>4
<1>19. ASSUME AuditTick
       PROVE  AuditTypes' /\ AllKept' /\ (Safe({"late"}) => CountsTrue') /\ (Single => InOrder')
  <2>1. /\ UNCHANGED <<logs, checks, purge, entriesBegun, acknowledged, purgedTo, purged>>
        /\ stamp' = stamp + 1
    BY <1>19 DEF AuditTick
  <2>2. ASSUME NEW q \in Auditor
        PROVE  \/ checks'[q] = Idle
               \/ checks'[q].phase \in {"list", "log"} /\ KnownIn(checks'[q].entry, entriesBegun', stamp')
    <3>1. Known(checks[q].entry) => KnownIn(checks[q].entry, entriesBegun', stamp')
      BY <1>5, <2>1 DEF Known, KnownIn
    <3> QED
      BY <1>5, <2>1, <3>1
  <2>3. AuditTypes' /\ AllKept' /\ (CountsTrue => CountsTrue')
    <3>1. stamp' \in Nat /\ stamp' >= stamp /\ entriesBegun' \in Nat /\ entriesBegun' >= entriesBegun
          /\ checks' = [q \in Auditor |-> checks'[q]]
      BY <1>5, <2>1
    <3> QED
      BY <1>1, <2>1, <2>2, <3>1, OthersKeep
  <2>4. InOrder => InOrder'
    BY <2>1 DEF InOrder, Checking, AuditHash
  <2> QED
    BY <1>1, <2>3, <2>4
<1>20. ASSUME AuditNext
       PROVE  AuditTypes' /\ AllKept' /\ (Safe({"late"}) => CountsTrue') /\ (Single => InOrder')
  <2>1. \/ \E p \in Auditor : \/ \E action \in mix.actions : ProcessAuditCheck(p, action)
                              \/ ChainListed(p) \/ ChainLogged(p) \/ CheckFails(p)
        \/ \E action \in mix.actions \cup Plain : LogPlain(action)
        \/ \E date \in 0 .. MaxStamp : PurgeMemory(date) \/ PurgeCounts(date)
        \/ PurgeDeletes \/ AuditTick
    BY <1>20 DEF AuditNext, LogCreate, LogUpdate, LogDelete, LogError, Plain
  <2> QED
    BY <1>11, <1>12, <1>13, <1>14, <1>15, <1>16, <1>17, <1>18, <1>19, <2>1
<1> QED
  BY <1>10, <1>20

\* And with it, what is said of the trail.
LEMMA AuditSound ==
  ASSUME AuditInv
  PROVE  AuditTypeOK /\ EntriesLinked /\ RetentionKeeps /\ PurgeCountTrue /\ ActionsApart
<1>1. AuditTypes /\ AllKept
  BY DEF AuditInv
<1>2. /\ Len(logs) \in Nat /\ DOMAIN logs = 1 .. Len(logs)
      /\ \A i \in DOMAIN logs : logs[i].stamp \in Nat
  BY <1>1, LogsAre
<1>3. mix.actions \cup Plain \subseteq Action
  BY <1>1, ActionsAssumption DEF AuditTypes, Plain, Action
<1>4. AuditTypeOK
  BY <1>1, <1>3 DEF AuditTypeOK, AuditTypes, Known, KnownIn, Idle
<1>5. EntriesLinked
  BY DEF AuditInv, EntriesLinked, InOrder
<1>6. PurgeCountTrue
  BY DEF AuditInv, PurgeCountTrue, CountsTrue
<1>7. ToSet(logs) = {logs[i] : i \in DOMAIN logs}
  BY DEF ToSet
<1>8. RetentionKeeps
  <2>1. SUFFICES ASSUME NEW e \in acknowledged, e.stamp >= purgedTo
                 PROVE  \E x \in FindByDateRange(e.stamp, e.stamp) : x.id = e.id
    BY DEF RetentionKeeps
  <2>2. PICK i \in DOMAIN logs : logs[i].id = e.id /\ logs[i].stamp = e.stamp
    BY <1>1, <2>1 DEF AllKept
  <2>3. logs[i] \in FindByDateRange(e.stamp, e.stamp)
    BY <1>2, <1>7, <2>2 DEF FindByDateRange
  <2> QED
    BY <2>2, <2>3
<1>9. ActionsApart
  <2>1. SUFFICES ASSUME NEW action \in mix.actions, "named" \notin mix.risks,
                        NEW i \in DOMAIN logs, logs[i] \in FindByAction(action)
                 PROVE  logs[i].action = action
    BY <1>7 DEF ActionsApart, FindByAction, Safe
  <2> DEFINE Distinct == Action \ {<<"Custom", "create">>}
  <2>2. action \in Distinct /\ logs[i].action \in Distinct
    <3>1. mix.actions \subseteq Distinct /\ Plain \subseteq Distinct
      <4>1. mix.actions \subseteq Distinct
        BY <1>1, <2>1, ActionsAssumption DEF AuditTypes
      <4>2. Plain \subseteq Distinct
        BY DEF Plain, Action
      <4> QED
        BY <4>1, <4>2
    <3> QED
      BY <1>1, <3>1 DEF AuditTypes, Known, KnownIn
  <2>3. \A a, b \in Distinct : ActionStored(a) = ActionStored(b) => a = b
    <3>1. ActionStored(<<"Create", "">>) = "create"
      BY DEF ActionStored
    <3>2. ActionStored(<<"Update", "">>) = "update"
      BY DEF ActionStored
    <3>3. ActionStored(<<"Delete", "">>) = "delete"
      BY DEF ActionStored
    <3>4. \A text : ActionStored(<<"Custom", text>>) = text
      BY DEF ActionStored
    <3>5. ASSUME NEW a \in Distinct
          PROVE  \/ a = <<"Create", "">> \/ a = <<"Update", "">> \/ a = <<"Delete", "">>
                 \/ a = <<"Custom", "System audit check">> \/ a = <<"Custom", "sale">>
      BY Zenon DEF Action
    <3> HIDE DEF Distinct
    <3>6. ASSUME NEW a \in Distinct
          PROVE  \/ a = <<"Create", "">> /\ ActionStored(a) = "create"
                 \/ a = <<"Update", "">> /\ ActionStored(a) = "update"
                 \/ a = <<"Delete", "">> /\ ActionStored(a) = "delete"
                 \/ a = <<"Custom", "System audit check">> /\ ActionStored(a) = "System audit check"
                 \/ a = <<"Custom", "sale">> /\ ActionStored(a) = "sale"
      BY <3>1, <3>2, <3>3, <3>4, <3>5, Zenon
    <3> QED
      BY <3>6
  <2> QED
    BY <2>1, <2>2, <2>3 DEF FindByAction
<1> QED
  BY <1>4, <1>5, <1>6, <1>8, <1>9

-----------------------------------------------------------------------------
(* The memories of the agents.                                             *)

Memory == [is : Nat, tags : SUBSET Topic]

\* The memory of a holder is what was told it, as far as there is room.
Remembers(h) ==
  /\ clones[h] = [short |-> clones[h].short, long |-> clones[h].long,
                  working |-> clones[h].working]
  /\ remembered[h] \in Seq(Memory)
  /\ clones[h].short = LastOf(remembered[h], Fewer(MaxShort, Len(remembered[h])))
  /\ DOMAIN clones[h].long \cup DOMAIN clones[h].working \subseteq Topic
  /\ Safe({"full"}) => clones[h].long = learned[h]

MemoryInv ==
  /\ managed \in BOOLEAN /\ told \in Nat
  /\ DOMAIN clones = Holder /\ DOMAIN remembered = Holder /\ DOMAIN learned = Holder
  /\ \A h \in Holder : Has(h) => Remembers(h)
  /\ shared = sharedTold /\ DOMAIN shared \subseteq Topic
  /\ \A k \in DOMAIN shared : shared[k].tags = {k}

\* The last entries of a sequence.
LEMMA LastOfIs ==
  ASSUME NEW X, NEW s \in Seq(X), NEW n \in 0 .. Len(s)
  PROVE  /\ LastOf(s, n) \in Seq(X) /\ Len(LastOf(s, n)) = n
         /\ \A i \in 1 .. n : LastOf(s, n)[i] = s[Len(s) - n + i]
<1> DEFINE m == Len(s) - n + 1
           l == Len(s)
<1>1. m \in Int /\ l \in Int /\ n \in Nat /\ \A i \in m .. l : s[i] \in X
  OBVIOUS
<1>2. l - m + 1 = n /\ (m <= l <=> n # 0) /\ \A i \in 1 .. n : m + i - 1 = l - n + i
  OBVIOUS
<1>3. LastOf(s, n) = SubSeq(s, m, l)
  BY DEF LastOf
<1> HIDE DEF m, l
<1>4. /\ SubSeq(s, m, l) \in Seq(X)
      /\ Len(SubSeq(s, m, l)) = IF m <= l THEN l - m + 1 ELSE 0
      /\ \A i \in 1 .. l - m + 1 : SubSeq(s, m, l)[i] = s[m + i - 1]
  BY <1>1, SubSeqProperties
<1> QED
  BY <1>1, <1>2, <1>3, <1>4 DEF l

\* What is added goes to the end; what there is no room for is the first.
LEMMA TrimKeepsLast ==
  ASSUME NEW X, NEW s \in Seq(X), NEW x \in X
  PROVE  Trim(Append(LastOf(s, Fewer(MaxShort, Len(s))), x)) =
           LastOf(Append(s, x), Fewer(MaxShort, Len(s) + 1))
<1> USE MemoryAssumption
<1> DEFINE n == Fewer(MaxShort, Len(s))
           old == LastOf(s, n)
           t == Append(s, x)
           m == Fewer(MaxShort, Len(s) + 1)
           new == LastOf(t, m)
           added == Append(old, x)
<1>1. t \in Seq(X) /\ Len(t) = Len(s) + 1 /\ Len(s) \in Nat /\ t[Len(s) + 1] = x
      /\ \A i \in 1 .. Len(s) : t[i] = s[i]
  OBVIOUS
<1>2. n \in 0 .. Len(s) /\ m \in 0 .. Len(t) /\ n \in Nat /\ m \in Nat
      /\ (Len(s) < MaxShort => n = Len(s) /\ m = n + 1)
      /\ (Len(s) >= MaxShort => n = MaxShort /\ m = MaxShort)
  BY <1>1 DEF Fewer
<1> HIDE DEF n, m, t
<1>3. old \in Seq(X) /\ Len(old) = n /\ \A i \in 1 .. n : old[i] = s[Len(s) - n + i]
  BY <1>2, LastOfIs
<1>4. new \in Seq(X) /\ Len(new) = m /\ \A i \in 1 .. m : new[i] = t[Len(s) + 1 - m + i]
  <2>1. /\ LastOf(t, m) \in Seq(X) /\ Len(LastOf(t, m)) = m
        /\ \A i \in 1 .. m : LastOf(t, m)[i] = t[Len(t) - m + i]
    BY <1>1, <1>2, LastOfIs
  <2> QED
    BY <1>1, <2>1
<1> HIDE DEF old, new
<1>5. added \in Seq(X) /\ Len(added) = n + 1 /\ added[n + 1] = x
      /\ \A i \in 1 .. n : added[i] = s[Len(s) - n + i]
  BY <1>2, <1>3
<1>6. \A i \in 1 .. n + 1 : added[i] = t[Len(s) - n + i]
  <2>1. SUFFICES ASSUME NEW i \in 1 .. n + 1
                 PROVE  added[i] = t[Len(s) - n + i]
    OBVIOUS
  <2>2. CASE i = n + 1
    BY <1>1, <1>2, <1>5, <2>2
  <2>3. CASE i # n + 1
    <3>1. i \in 1 .. n /\ Len(s) - n + i \in 1 .. Len(s)
      BY <1>1, <1>2, <2>3
    <3> QED
      BY <1>1, <1>5, <3>1
  <2> QED
    BY <2>2, <2>3
<1> HIDE DEF added
<1>7. CASE Len(s) < MaxShort
  <2>1. Trim(added) = added
    BY <1>1, <1>2, <1>5, <1>7 DEF Trim
  <2>2. Len(added) = Len(new) /\ \A i \in 1 .. Len(added) : added[i] = new[i]
    <3>1. m = n + 1 /\ Len(s) + 1 - m = Len(s) - n
      BY <1>1, <1>2, <1>7
    <3>2. \A i \in 1 .. n + 1 : new[i] = t[Len(s) - n + i]
      BY <1>4, <3>1
    <3> QED
      BY <1>4, <1>5, <1>6, <3>1, <3>2
  <2>3. added = new
    BY <1>4, <1>5, <2>2, SeqEqual
  <2> QED
    BY <2>1, <2>3 DEF added, new, old, n, m, t
<1>8. CASE Len(s) >= MaxShort
  <2>1. Trim(added) = Tail(added) /\ added # << >>
    BY <1>1, <1>2, <1>5, <1>8 DEF Trim
  <2>2. Tail(added) \in Seq(X) /\ Len(Tail(added)) = n
        /\ \A i \in 1 .. n : Tail(added)[i] = added[i + 1]
    BY <1>2, <1>5, <2>1, HeadTailProperties
  <2>3. \A i \in 1 .. n : Tail(added)[i] = new[i]
    <3>1. SUFFICES ASSUME NEW i \in 1 .. n
                   PROVE  Tail(added)[i] = new[i]
      OBVIOUS
    <3>2. i + 1 \in 1 .. n + 1 /\ Len(s) - n + (i + 1) = Len(s) + 1 - m + i /\ m = n
      BY <1>1, <1>2, <1>8
    <3> QED
      BY <1>4, <1>6, <2>2, <3>2
  <2>4. Len(Tail(added)) = Len(new)
    BY <1>2, <1>4, <1>8, <2>2
  <2>5. Tail(added) = new
    BY <1>4, <2>2, <2>3, <2>4, SeqEqual
  <2> QED
    BY <2>1, <2>5 DEF added, new, old, n, m, t
<1> QED
  BY <1>1, <1>7, <1>8

\* The most recent entries of the last ones are the last ones.
LEMMA RecentOfLast ==
  ASSUME NEW X, NEW s \in Seq(X), NEW n \in 0 .. Len(s), NEW count \in Nat
  PROVE  Recent(LastOf(s, n), count) = LastOf(s, Fewer(count, n))
<1> DEFINE short == LastOf(s, n)
           m == Fewer(count, n)
           recent == Recent(short, count)
           last == LastOf(s, m)
<1>1. short \in Seq(X) /\ Len(short) = n /\ n \in Nat
      /\ \A i \in 1 .. n : short[i] = s[Len(s) - n + i]
  BY LastOfIs
<1>2. m \in 0 .. n /\ m \in 0 .. Len(s) /\ m \in Nat /\ (IF count > n THEN 0 ELSE n - count) = n - m
  BY <1>1 DEF Fewer
<1> HIDE DEF short, m
<1>3. last \in Seq(X) /\ Len(last) = m /\ \A i \in 1 .. m : last[i] = s[Len(s) - m + i]
  BY <1>2, LastOfIs
<1>4. recent = LastOf(short, m)
  BY <1>1, <1>2 DEF Recent, LastOf
<1>5. recent \in Seq(X) /\ Len(recent) = m /\ \A i \in 1 .. m : recent[i] = short[n - m + i]
  <2>1. m \in 0 .. Len(short)
    BY <1>1, <1>2
  <2>2. /\ LastOf(short, m) \in Seq(X) /\ Len(LastOf(short, m)) = m
        /\ \A i \in 1 .. m : LastOf(short, m)[i] = short[Len(short) - m + i]
    BY <1>1, <2>1, LastOfIs
  <2> QED
    BY <1>1, <1>4, <2>2
<1> HIDE DEF last, recent
<1>6. ASSUME NEW i \in 1 .. m
      PROVE  recent[i] = last[i]
  <2>1. n - m + i \in 1 .. n /\ Len(s) - n + (n - m + i) = Len(s) - m + i
    BY <1>1, <1>2
  <2>2. recent[i] = s[Len(s) - n + (n - m + i)]
    BY <1>1, <1>5, <2>1
  <2> QED
    BY <1>3, <2>1, <2>2
<1>7. recent = last
  BY <1>3, <1>5, <1>6, SeqEqual
<1> QED
  BY <1>7 DEF recent, last, short, m

LEMMA MemoryAtFirst == MemoryInit => MemoryInv
<1> SUFFICES ASSUME MemoryInit
             PROVE  MemoryInv
  OBVIOUS
<1>1. \A h \in Holder : ~Has(h)
  BY DEF MemoryInit, Has
<1>2. DOMAIN shared = {} /\ shared = sharedTold
  BY DEF MemoryInit, Empty
<1> QED
  BY <1>1, <1>2 DEF MemoryInv, MemoryInit

\* A function changes at one argument.
Becomes(new, old, h, value) ==
  /\ DOMAIN new = DOMAIN old /\ new[h] = value
  /\ \A g \in DOMAIN old : g # h => new[g] = old[g]

\* One holder's memory changes.
LEMMA HolderChanges ==
  ASSUME MemoryInv, mix' = mix, NEW h \in Holder, Told,
         NEW new, NEW heard, NEW learnt,
         Becomes(clones', clones, h, new),
         Becomes(remembered', remembered, h, heard),
         Becomes(learned', learned, h, learnt),
         managed' \in BOOLEAN, UNCHANGED <<shared, sharedTold>>,
         new = [short |-> new.short, long |-> new.long, working |-> new.working],
         heard \in Seq(Memory),
         new.short = LastOf(heard, Fewer(MaxShort, Len(heard))),
         DOMAIN new.long \cup DOMAIN new.working \subseteq Topic,
         Safe({"full"}) => new.long = learnt
  PROVE  MemoryInv'
<1>1. /\ DOMAIN clones' = Holder /\ DOMAIN remembered' = Holder /\ DOMAIN learned' = Holder
      /\ clones'[h] = new /\ remembered'[h] = heard /\ learned'[h] = learnt
      /\ \A g \in Holder : g # h => /\ clones'[g] = clones[g] /\ remembered'[g] = remembered[g]
                                    /\ learned'[g] = learned[g]
  BY DEF MemoryInv, Becomes
<1>2. told' \in Nat
  BY DEF Told, MemoryInv
<1>3. Safe({"full"})' = Safe({"full"})
  BY DEF Safe
<1>4. ASSUME NEW g \in Holder, Has(g)'
      PROVE  Remembers(g)'
  <2>1. CASE g = h
    BY <1>1, <1>3, <2>1 DEF Remembers, LastOf, Fewer
  <2>2. CASE g # h
    <3>1. Has(g)
      BY <1>1, <1>4, <2>2 DEF Has, NoClone
    <3>2. Remembers(g)
      BY <3>1 DEF MemoryInv
    <3> QED
      BY <1>1, <1>3, <2>2, <3>2 DEF Remembers, LastOf, Fewer
  <2> QED
    BY <2>1, <2>2
<1> QED
  BY <1>1, <1>2, <1>4 DEF MemoryInv

\* The shared memory changes, or nothing does.
LEMMA SharedChanges ==
  ASSUME MemoryInv, mix' = mix, UNCHANGED <<clones, remembered, learned>>,
         managed' \in BOOLEAN, told' \in Nat,
         shared' = sharedTold', DOMAIN shared' \subseteq Topic,
         \A k \in DOMAIN shared' : shared'[k].tags = {k}
  PROVE  MemoryInv'
<1>1. Safe({"full"})' = Safe({"full"})
  BY DEF Safe
<1>2. \A h \in Holder : Has(h)' = Has(h) /\ Remembers(h)' = Remembers(h)
  BY <1>1 DEF Has, Remembers, LastOf, Fewer, NoClone
<1> QED
  BY <1>2 DEF MemoryInv

LEMMA MemoryKept ==
  ASSUME MemoryInv, MemoryNext \/ UNCHANGED memoryVars, mix' = mix
  PROVE  MemoryInv'
<1> USE MemoryAssumption
<1>1. /\ managed \in BOOLEAN /\ told \in Nat
      /\ DOMAIN clones = Holder /\ DOMAIN remembered = Holder /\ DOMAIN learned = Holder
      /\ \A h \in Holder : Has(h) => Remembers(h)
      /\ shared = sharedTold /\ DOMAIN shared \subseteq Topic
      /\ \A k \in DOMAIN shared : shared[k].tags = {k}
  BY DEF MemoryInv
<1>2. LastOf(<< >>, Fewer(MaxShort, Len(<< >>))) = << >>
  BY DEF Fewer, LastOf
<1>3. DOMAIN Empty = {}
  BY DEF Empty
<1>4. Told => told' \in Nat
  BY <1>1 DEF Told
<1>5. CASE UNCHANGED memoryVars
  <2>1. UNCHANGED <<managed, clones, shared, remembered, learned, sharedTold, told>>
    BY <1>5 DEF memoryVars
  <2> QED
    BY <1>1, <2>1, SharedChanges
<1>6. ASSUME NEW h \in Holder, GetOrCreate(h)
      PROVE  MemoryInv'
  <2>1. /\ Becomes(clones', clones, h, NewMemory)
        /\ Becomes(remembered', remembered, h, << >>)
        /\ Becomes(learned', learned, h, Empty)
        /\ managed' \in BOOLEAN /\ Told /\ UNCHANGED <<shared, sharedTold>>
    BY <1>1, <1>6 DEF GetOrCreate, Becomes
  <2>2. /\ NewMemory = [short |-> NewMemory.short, long |-> NewMemory.long, working |-> NewMemory.working]
        /\ NewMemory.short = LastOf(<< >>, Fewer(MaxShort, Len(<< >>)))
        /\ DOMAIN NewMemory.long \cup DOMAIN NewMemory.working \subseteq Topic
        /\ NewMemory.long = Empty /\ << >> \in Seq(Memory)
    BY <1>2, <1>3 DEF NewMemory
  <2> HIDE DEF NewMemory
  <2> QED
    BY <2>1, <2>2, HolderChanges
<1>7. ASSUME NEW h \in Holder, NEW tags \in SUBSET Topic, AddShortTerm(h, tags)
      PROVE  MemoryInv'
  <2> DEFINE c == clones[h]
             x == MemoryEntry(tags)
             new == [short |-> Trim(Append(c.short, x)), long |-> c.long, working |-> c.working]
             heard == Append(remembered[h], x)
  <2>1. /\ Has(h) /\ clones' = [clones EXCEPT ![h].short = Trim(Append(@, x))]
        /\ remembered' = [remembered EXCEPT ![h] = Append(@, x)]
        /\ Told /\ UNCHANGED <<managed, shared, learned, sharedTold>>
    BY <1>7 DEF AddShortTerm
  <2>2. x \in Memory
    BY <1>1 DEF MemoryEntry, Memory
  <2> HIDE DEF x
  <2>3. Remembers(h)
    BY <1>1, <2>1
  <2>4. Becomes(clones', clones, h, new) /\ Becomes(remembered', remembered, h, heard)
        /\ Becomes(learned', learned, h, learned[h])
    BY <1>1, <2>1, <2>3 DEF Remembers, Becomes
  <2>5. heard \in Seq(Memory) /\ Len(heard) = Len(remembered[h]) + 1
    BY <2>2, <2>3 DEF Remembers
  <2>6. new.short = LastOf(heard, Fewer(MaxShort, Len(heard)))
    BY <2>2, <2>3, <2>5, TrimKeepsLast DEF Remembers
  <2>7. /\ new = [short |-> new.short, long |-> new.long, working |-> new.working]
        /\ DOMAIN new.long \cup DOMAIN new.working \subseteq Topic
        /\ Safe({"full"}) => new.long = learned[h]
    BY <2>3 DEF Remembers
  <2> HIDE DEF new, heard
  <2>8. managed' \in BOOLEAN
    BY <1>1, <2>1
  <2> QED
    BY <2>1, <2>4, <2>5, <2>6, <2>7, <2>8, HolderChanges
<1>8. ASSUME NEW h \in Holder, Has(h), Told, NEW long, NEW working, NEW learnt,
             Becomes(clones', clones, h,
                     [short |-> clones[h].short, long |-> long, working |-> working]),
             Becomes(learned', learned, h, learnt),
             UNCHANGED <<managed, shared, remembered, sharedTold>>,
             DOMAIN long \cup DOMAIN working \subseteq Topic,
             Safe({"full"}) => long = learnt
      PROVE  MemoryInv'
  <2> DEFINE new == [short |-> clones[h].short, long |-> long, working |-> working]
             heard == remembered[h]
  <2>1. Remembers(h)
    BY <1>1, <1>8
  <2>2. /\ new = [short |-> new.short, long |-> new.long, working |-> new.working]
        /\ heard \in Seq(Memory)
        /\ new.short = LastOf(heard, Fewer(MaxShort, Len(heard)))
        /\ DOMAIN new.long \cup DOMAIN new.working \subseteq Topic
        /\ Safe({"full"}) => new.long = learnt
    BY <1>8, <2>1 DEF Remembers
  <2>3. Becomes(remembered', remembered, h, heard) /\ Becomes(clones', clones, h, new)
    BY <1>1, <1>8 DEF Becomes
  <2> HIDE DEF new, heard
  <2> QED
    BY <1>1, <1>8, <2>2, <2>3, HolderChanges
<1>9. ASSUME NEW h \in Holder, NEW k \in Topic, AddLongTerm(h, k)
      PROVE  MemoryInv'
  <2> DEFINE x == MemoryEntry({k})
             long == Put(clones[h].long, k, x)
  <2>1. Has(h) /\ Told /\ UNCHANGED <<managed, shared, remembered, sharedTold>>
        /\ (Cardinality(DOMAIN long) > MaxLong => Risk("full"))
        /\ learned' = [learned EXCEPT ![h] = Put(@, k, x)]
    BY <1>9 DEF AddLongTerm
  <2>2. PICK trimmed \in LongTrimmed(long) : clones' = [clones EXCEPT ![h].long = trimmed]
    BY <1>9 DEF AddLongTerm
  <2>3. Remembers(h)
    BY <1>1, <2>1
  <2>4. Becomes(clones', clones, h, [short |-> clones[h].short, long |-> trimmed, working |-> clones[h].working])
    BY <1>1, <2>2, <2>3 DEF Remembers, Becomes
  <2>5. DOMAIN long \subseteq Topic
    BY <2>3 DEF Put, Remembers
  <2>6. DOMAIN trimmed \subseteq Topic
    <3> HIDE DEF long
    <3> QED
      BY <2>5 DEF LongTrimmed, Without
  <2>7. Safe({"full"}) => trimmed = Put(learned[h], k, x)
    <3>1. SUFFICES ASSUME Safe({"full"})
                   PROVE  trimmed = Put(learned[h], k, x)
      OBVIOUS
    <3>2. ~Risk("full") /\ clones[h].long = learned[h]
      BY <2>3, <3>1 DEF Safe, Risk, Remembers
    <3>3. trimmed = long
      BY <2>1, <3>2 DEF LongTrimmed
    <3> QED
      BY <3>2, <3>3
  <2>8. Becomes(learned', learned, h, Put(learned[h], k, x)) /\ DOMAIN clones[h].working \subseteq Topic
    BY <1>1, <2>1, <2>3 DEF Remembers, Becomes
  <2> HIDE DEF x, long
  <2> QED
    BY <1>8, <2>1, <2>4, <2>6, <2>7, <2>8
<1>10. ASSUME NEW h \in Holder, NEW k \in Topic, RemoveLongTerm(h, k)
       PROVE  MemoryInv'
  <2> DEFINE long == Without(clones[h].long, k)
  <2>1. Has(h) /\ Told /\ UNCHANGED <<managed, shared, remembered, sharedTold>>
        /\ clones' = [clones EXCEPT ![h].long = Without(@, k)]
        /\ learned' = [learned EXCEPT ![h] = Without(@, k)]
    BY <1>10 DEF RemoveLongTerm
  <2>2. Remembers(h)
    BY <1>1, <2>1
  <2>3. Becomes(clones', clones, h, [short |-> clones[h].short, long |-> long, working |-> clones[h].working])
        /\ Becomes(learned', learned, h, Without(learned[h], k))
    BY <1>1, <2>1, <2>2 DEF Remembers, Becomes
  <2>4. DOMAIN long \cup DOMAIN clones[h].working \subseteq Topic
    BY <2>2 DEF Without, Remembers
  <2>5. Safe({"full"}) => long = Without(learned[h], k)
    BY <2>2 DEF Remembers
  <2> HIDE DEF long
  <2> QED
    BY <1>8, <2>1, <2>3, <2>4, <2>5
<1>11. ASSUME NEW h \in Holder, NEW working, Has(h), Told, DOMAIN working \subseteq Topic,
              clones' = [clones EXCEPT ![h].working = working],
              UNCHANGED <<managed, shared, remembered, learned, sharedTold>>
       PROVE  MemoryInv'
  <2>1. Remembers(h)
    BY <1>1, <1>11
  <2>2. Becomes(clones', clones, h, [short |-> clones[h].short, long |-> clones[h].long, working |-> working])
        /\ Becomes(learned', learned, h, learned[h])
    BY <1>1, <1>11, <2>1 DEF Remembers, Becomes
  <2>3. DOMAIN clones[h].long \cup DOMAIN working \subseteq Topic /\ (Safe({"full"}) => clones[h].long = learned[h])
    BY <1>11, <2>1 DEF Remembers
  <2> QED
    BY <1>8, <1>11, <2>2, <2>3
<1>12. ASSUME NEW h \in Holder, NEW k \in Topic, SetWorking(h, k)
       PROVE  MemoryInv'
  <2>1. Has(h) /\ Told /\ UNCHANGED <<managed, shared, remembered, learned, sharedTold>>
        /\ clones' = [clones EXCEPT ![h].working = Put(clones[h].working, k, told + 1)]
    BY <1>1, <1>12 DEF SetWorking
  <2>2. DOMAIN Put(clones[h].working, k, told + 1) \subseteq Topic
    BY <1>1, <2>1 DEF Put, Remembers
  <2> QED
    BY <1>11, <2>1, <2>2
<1>13. ASSUME NEW h \in Holder, ClearWorking(h)
       PROVE  MemoryInv'
  <2>1. Has(h) /\ Told /\ UNCHANGED <<managed, shared, remembered, learned, sharedTold>>
        /\ clones' = [clones EXCEPT ![h].working = Empty]
    BY <1>1, <1>13 DEF ClearWorking
  <2>2. DOMAIN Empty \subseteq Topic
    BY <1>3
  <2> QED
    BY <1>11, <2>1, <2>2
<1>14. ASSUME NEW h \in Holder, ClearShortTerm(h)
       PROVE  MemoryInv'
  <2> DEFINE c == clones[h]
             new == [short |-> << >>, long |-> c.long, working |-> c.working]
  <2>1. Has(h) /\ Told /\ UNCHANGED <<managed, shared, learned, sharedTold>>
        /\ clones' = [clones EXCEPT ![h].short = << >>]
        /\ remembered' = [remembered EXCEPT ![h] = << >>]
    BY <1>14 DEF ClearShortTerm
  <2>2. Remembers(h)
    BY <1>1, <2>1
  <2>3. Becomes(remembered', remembered, h, << >>)
        /\ Becomes(clones', clones, h, new) /\ Becomes(learned', learned, h, learned[h])
    BY <1>1, <2>1, <2>2 DEF Remembers, Becomes
  <2>4. /\ new = [short |-> new.short, long |-> new.long, working |-> new.working]
        /\ << >> \in Seq(Memory)
        /\ new.short = LastOf(<< >>, Fewer(MaxShort, Len(<< >>)))
        /\ DOMAIN new.long \cup DOMAIN new.working \subseteq Topic
        /\ Safe({"full"}) => new.long = learned[h]
    BY <1>2, <2>2 DEF Remembers
  <2> HIDE DEF new
  <2>5. managed' \in BOOLEAN
    BY <1>1, <2>1
  <2> QED
    BY <2>1, <2>3, <2>4, <2>5, HolderChanges
<1>15. ASSUME NEW k \in Topic, AddShared(k)
       PROVE  MemoryInv'
  <2>1. /\ Told /\ UNCHANGED <<managed, clones, remembered, learned>>
        /\ shared' = Put(shared, k, MemoryEntry({k})) /\ sharedTold' = Put(sharedTold, k, MemoryEntry({k}))
    BY <1>15 DEF AddShared
  <2>2. /\ DOMAIN shared' = DOMAIN shared \cup {k}
        /\ \A y \in DOMAIN shared' : shared'[y] = IF y = k THEN MemoryEntry({k}) ELSE shared[y]
    BY <2>1 DEF Put
  <2>3. MemoryEntry({k}).tags = {k}
    BY DEF MemoryEntry
  <2>4. \A y \in DOMAIN shared' : shared'[y].tags = {y}
    BY <1>1, <2>2, <2>3
  <2> QED
    BY <1>1, <1>4, <2>1, <2>2, <2>4, SharedChanges
<1>16. ASSUME NEW k \in Topic, RemoveShared(k)
       PROVE  MemoryInv'
  <2>1. /\ Told /\ UNCHANGED <<managed, clones, remembered, learned>>
        /\ shared' = Without(shared, k) /\ sharedTold' = Without(sharedTold, k)
    BY <1>16 DEF RemoveShared
  <2>2. /\ DOMAIN shared' = DOMAIN shared \ {k}
        /\ \A y \in DOMAIN shared' : shared'[y] = shared[y]
    BY <2>1 DEF Without
  <2> QED
    BY <1>1, <1>4, <2>1, <2>2, SharedChanges
<1>17. ASSUME ClearAll
       PROVE  MemoryInv'
  <2>1. /\ Told /\ managed' = FALSE /\ shared' = Empty /\ sharedTold' = Empty
        /\ UNCHANGED <<clones, remembered, learned>>
    BY <1>17 DEF ClearAll
  <2> QED
    BY <1>3, <1>4, <2>1, SharedChanges
<1> QED
  BY <1>5, <1>6, <1>7, <1>9, <1>10, <1>12, <1>13, <1>14, <1>15, <1>16, <1>17 DEF MemoryNext

\* And with it, what is said of the memories.
LEMMA MemorySound ==
  ASSUME MemoryInv
  PROVE  MemoryTypeOK /\ RecentKept /\ LongTermKept /\ TagsFind
<1> USE MemoryAssumption
<1>1. \A h \in Holder : Has(h) => Remembers(h)
  BY DEF MemoryInv
<1>2. MemoryTypeOK
  BY <1>1 DEF MemoryInv, MemoryTypeOK, Remembers
<1>3. RecentKept
  <2>1. SUFFICES ASSUME NEW h \in Holder, Has(h), NEW count \in 0 .. MaxShort + 1
                 PROVE  Recent(clones[h].short, count) =
                          LastOf(remembered[h], Fewer(count, Fewer(MaxShort, Len(remembered[h]))))
    BY DEF RecentKept
  <2> DEFINE s == remembered[h]
             n == Fewer(MaxShort, Len(s))
  <2>2. s \in Seq(Memory) /\ clones[h].short = LastOf(s, n)
    BY <1>1, <2>1 DEF Remembers
  <2>3. n \in 0 .. Len(s) /\ count \in Nat
    BY <2>2 DEF Fewer
  <2> HIDE DEF n, s
  <2>4. Recent(LastOf(s, n), count) = LastOf(s, Fewer(count, n))
    BY <2>2, <2>3, RecentOfLast
  <2> QED
    BY <2>2, <2>4 DEF n, s
<1>4. LongTermKept
  BY <1>1 DEF LongTermKept, Remembers
<1>5. ASSUME NEW tags \in SUBSET Topic
      PROVE  FindSharedByTags(tags) = {sharedTold[k] : k \in {k \in DOMAIN sharedTold : k \in tags}}
  <2>1. shared = sharedTold /\ \A k \in DOMAIN shared : shared[k].tags = {k}
    BY DEF MemoryInv
  <2>2. {k \in DOMAIN shared : HasAnyTags(shared[k], tags)} = {k \in DOMAIN sharedTold : k \in tags}
    BY <2>1 DEF HasAnyTags
  <2> QED
    BY <2>1, <2>2 DEF FindSharedByTags
<1>6. TagsFind
  <2>1. SUFFICES ASSUME NEW tags \in SUBSET Topic, NEW h \in Holder, Has(h), Safe({"full"})
                 PROVE  FindByTags(clones[h], tags) =
                          {e \in ToSet(LastOf(remembered[h], Fewer(MaxShort, Len(remembered[h]))))
                                   \cup {learned[h][k] : k \in DOMAIN learned[h]} : e.tags \cap tags # {}}
    BY <1>5 DEF TagsFind
  <2>2. clones[h].short = LastOf(remembered[h], Fewer(MaxShort, Len(remembered[h])))
        /\ clones[h].long = learned[h]
    BY <1>1, <2>1 DEF Remembers
  <2> QED
    BY <2>2 DEF FindByTags, HasAnyTags
<1> QED
  BY <1>2, <1>3, <1>4, <1>6

-----------------------------------------------------------------------------
(* Base64: what is decoded is what was encoded.                            *)

Chunk == {s \in Seq(Byte) : Len(s) \in 1 .. 3}

\* The digits of a chunk are decoded to it.
LEMMA ChunkDecoded ==
  ASSUME NEW s \in Chunk
  PROVE  Digits(s) \in Seq(Nat) /\ Len(Digits(s)) = 4 /\ Bytes(Digits(s)) = s
<1> DEFINE byte(i) == IF i <= Len(s) THEN s[i] ELSE 0
           a == byte(1)
           b == byte(2)
           c == byte(3)
           n == a * 65536 + b * 256 + c
           d == Digits(s)
           d1 == n \div 262144
           d2 == (n \div 4096) % 64
           d3 == (n \div 64) % 64
           d4 == n % 64
<1>1. Len(s) \in 1 .. 3 /\ s \in Seq(Byte) /\ \A i \in 1 .. Len(s) : s[i] \in Byte
  BY DEF Chunk
<1>2. a = s[1] /\ b = (IF Len(s) > 1 THEN s[2] ELSE 0) /\ c = (IF Len(s) > 2 THEN s[3] ELSE 0)
  BY <1>1
<1>3. a \in Byte /\ b \in Byte /\ c \in Byte
  BY <1>1, <1>2 DEF Byte
<1> HIDE DEF a, b, c
<1>4. /\ n \in Nat
      /\ n \div 65536 = a /\ (n \div 256) % 256 = b /\ n % 256 = c
      /\ c = 0 => d4 = 0
      /\ b = 0 /\ c = 0 => d3 = 0
      /\ d1 \in 0 .. 63
  BY <1>3, ThreeBytes
<1>5. d = <<d1, d2, IF Len(s) > 1 THEN d3 ELSE Padding, IF Len(s) > 2 THEN d4 ELSE Padding>>
  BY DEF Digits, a, b, c
<1> HIDE DEF n
<1>6. d2 \in 0 .. 63 /\ d3 \in 0 .. 63 /\ d4 \in 0 .. 63
  <2>1. \A m \in Nat : m % 64 \in 0 .. 63
    BY SMT
  <2>2. n \div 4096 \in Nat /\ n \div 64 \in Nat
    BY <1>4, SMT
  <2> QED
    BY <1>4, <2>1, <2>2
<1>7. d1 * 262144 + d2 * 4096 + d3 * 64 + d4 = n
  BY <1>4, FourDigits, SMT
<1>14. (c = 0 => d4 = 0) /\ (b = 0 /\ c = 0 => d3 = 0) /\ d1 \in 0 .. 63
  BY <1>4
<1> HIDE DEF d1, d2, d3, d4, d
<1>8. d[1] = d1 /\ d[2] = d2 /\ d[3] = (IF Len(s) > 1 THEN d3 ELSE Padding)
      /\ d[4] = (IF Len(s) > 2 THEN d4 ELSE Padding) /\ Len(d) = 4
  BY <1>5
<1>9. d \in Seq(Nat)
  <2>1. d1 \in Nat /\ d2 \in Nat /\ d3 \in Nat /\ d4 \in Nat /\ Padding \in Nat
    BY <1>4, <1>6 DEF Padding
  <2>2. (IF Len(s) > 1 THEN d3 ELSE Padding) \in Nat /\ (IF Len(s) > 2 THEN d4 ELSE Padding) \in Nat
    BY <2>1
  <2> QED
    BY <1>5, <2>1, <2>2
<1>10. /\ DigitValue(d[1]) = d1 /\ DigitValue(d[2]) = d2 /\ DigitValue(d[3]) = d3 /\ DigitValue(d[4]) = d4
       /\ (d[3] # Padding <=> Len(s) > 1) /\ (d[4] # Padding <=> Len(s) > 2)
  <2>1. Len(s) <= 1 => b = 0 /\ c = 0
    BY <1>1, <1>2
  <2>2. Len(s) <= 2 => c = 0
    BY <1>1, <1>2
  <2>3. /\ Padding = 64 /\ DigitValue(Padding) = 0
        /\ \A x \in 0 .. 63 : DigitValue(x) = x /\ x # Padding
    BY DEF DigitValue, Padding
  <2>4. DigitValue(d[1]) = d1 /\ DigitValue(d[2]) = d2
    BY <1>6, <1>8, <1>14, <2>3
  <2>5. DigitValue(d[3]) = d3 /\ (d[3] # Padding <=> Len(s) > 1)
    <3>1. CASE Len(s) > 1
      <4>1. d[3] = d3
        BY <1>8, <3>1
      <4>2. DigitValue(d3) = d3 /\ d3 # Padding
        BY <1>6, <2>3
      <4> QED
        BY <3>1, <4>1, <4>2
    <3>2. CASE ~(Len(s) > 1)
      <4>1. d[3] = Padding
        BY <1>8, <3>2
      <4>2. d3 = 0
        BY <1>1, <1>14, <2>1, <3>2
      <4> QED
        BY <2>3, <3>2, <4>1, <4>2
    <3> QED
      BY <3>1, <3>2
  <2>6. DigitValue(d[4]) = d4 /\ (d[4] # Padding <=> Len(s) > 2)
    <3>1. CASE Len(s) > 2
      <4>1. d[4] = d4
        BY <1>8, <3>1
      <4>2. DigitValue(d4) = d4 /\ d4 # Padding
        BY <1>6, <2>3
      <4> QED
        BY <3>1, <4>1, <4>2
    <3>2. CASE ~(Len(s) > 2)
      <4>1. d[4] = Padding
        BY <1>8, <3>2
      <4>2. d4 = 0
        BY <1>1, <1>14, <2>2, <3>2
      <4> QED
        BY <2>3, <3>2, <4>1, <4>2
    <3> QED
      BY <3>1, <3>2
  <2> QED
    BY <2>4, <2>5, <2>6
<1>11. Bytes(d) = <<n \div 65536>> \o (IF Len(s) > 1 THEN <<(n \div 256) % 256>> ELSE << >>)
                    \o (IF Len(s) > 2 THEN <<n % 256>> ELSE << >>)
  <2>1. DigitValue(d[1]) * 262144 + DigitValue(d[2]) * 4096
             + DigitValue(d[3]) * 64 + DigitValue(d[4]) = n
    BY <1>7, <1>10
  <2> QED
    BY <1>10, <2>1 DEF Bytes
<1>12. Bytes(d) = <<a>> \o (IF Len(s) > 1 THEN <<b>> ELSE << >>) \o (IF Len(s) > 2 THEN <<c>> ELSE << >>)
  <2> DEFINE x == n \div 65536
             y == (n \div 256) % 256
             z == n % 256
  <2>1. x = a /\ y = b /\ z = c
    BY <1>4
  <2>2. Bytes(d) = <<x>> \o (IF Len(s) > 1 THEN <<y>> ELSE << >>) \o (IF Len(s) > 2 THEN <<z>> ELSE << >>)
    BY <1>11
  <2> HIDE DEF x, y, z
  <2> QED
    BY <2>1, <2>2
<1> HIDE DEF byte
<1>13. Bytes(d) = s
  <2>1. Len(s) = 1 \/ Len(s) = 2 \/ Len(s) = 3
    BY <1>1
  <2>2. CASE Len(s) = 1
    <3>1. Bytes(d) = <<s[1]>> \o << >> \o << >>
      BY <1>2, <1>12, <2>2
    <3>2. <<s[1]>> \o << >> \o << >> = <<s[1]>>
      BY <1>1, <2>2
    <3>3. <<s[1]>> = s
      BY <1>1, <2>2
    <3> QED
      BY <3>1, <3>2, <3>3
  <2>3. CASE Len(s) = 2
    <3>1. Bytes(d) = <<s[1]>> \o <<s[2]>> \o << >>
      BY <1>2, <1>12, <2>3
    <3>2. <<s[1]>> \o <<s[2]>> \o << >> = <<s[1], s[2]>>
      <4>1. <<s[1]>> \o <<s[2]>> = <<s[1], s[2]>> /\ <<s[1], s[2]>> \in Seq({s[1], s[2]})
        BY Joined
      <4> QED
        BY <4>1, ConcatEmptySeq
    <3>3. <<s[1], s[2]>> = s
      BY <1>1, <2>3
    <3> QED
      BY <3>1, <3>2, <3>3
  <2>4. CASE Len(s) = 3
    <3>1. Bytes(d) = <<s[1]>> \o <<s[2]>> \o <<s[3]>>
      BY <1>2, <1>12, <2>4
    <3>2. <<s[1]>> \o <<s[2]>> \o <<s[3]>> = <<s[1], s[2], s[3]>>
      BY Joined
    <3>3. <<s[1], s[2], s[3]>> = s
      BY <1>1, <2>4
    <3> QED
      BY <3>1, <3>2, <3>3
  <2> QED
    BY <2>1, <2>2, <2>3, <2>4
<1> QED
  BY <1>8, <1>9, <1>13 DEF d

\* The chunks of three bytes, and their number.
Pieces(s) == (Len(s) + 2) \div 3
Piece(s, i) == SubSeq(s, 3 * (i - 1) + 1, IF 3 * i < Len(s) THEN 3 * i ELSE Len(s))

LEMMA PiecesAre ==
  ASSUME NEW s \in Seq(Byte)
  PROVE  /\ Pieces(s) \in Nat /\ Len(s) \in Nat
         /\ 3 * Pieces(s) >= Len(s) /\ 3 * Pieces(s) < Len(s) + 3
         /\ \A i \in 1 .. Pieces(s) : Piece(s, i) \in Chunk
         /\ DOMAIN Chunks(s, 3) = 1 .. Pieces(s)
         /\ \A i \in 1 .. Pieces(s) : Chunks(s, 3)[i] = Piece(s, i)
<1> DEFINE l == Len(s)
           k == Pieces(s)
<1>1. l \in Nat /\ \A i \in 1 .. l : s[i] \in Byte
  OBVIOUS
<1>2. k \in Nat /\ 3 * k >= l /\ 3 * k < l + 3
  BY <1>1, SMT DEF Pieces
<1> HIDE DEF l, k
<1>3. ASSUME NEW i \in 1 .. k
      PROVE  Piece(s, i) \in Chunk
  <2> DEFINE m == 3 * (i - 1) + 1
             n == IF 3 * i < l THEN 3 * i ELSE l
  <2>1. m \in Int /\ n \in Int /\ m <= n /\ n - m + 1 \in 1 .. 3 /\ 1 <= m /\ n <= l
    BY <1>1, <1>2, SMT
  <2>2. Piece(s, i) = SubSeq(s, m, n)
    BY DEF Piece, l
  <2> HIDE DEF m, n
  <2>3. \A j \in m .. n : s[j] \in Byte
    BY <1>1, <2>1
  <2>4. SubSeq(s, m, n) \in Seq(Byte) /\ Len(SubSeq(s, m, n)) = IF m <= n THEN n - m + 1 ELSE 0
    BY <2>1, <2>3, SubSeqProperties
  <2> QED
    BY <2>1, <2>2, <2>4 DEF Chunk
<1>4. Chunks(s, 3) = [i \in 1 .. k |-> Piece(s, i)]
  <2>1. (Len(s) + 3 - 1) \div 3 = k
    BY <1>1, SMT DEF Pieces, k, l
  <2>2. \A i \in 1 .. k :
          SubSeq(s, (i - 1) * 3 + 1, IF i * 3 < Len(s) THEN i * 3 ELSE Len(s)) = Piece(s, i)
    <3>1. \A i \in 1 .. k : (i - 1) * 3 = 3 * (i - 1) /\ i * 3 = 3 * i
      BY SMT
    <3> QED
      BY <3>1 DEF Piece
  <2> QED
    BY <2>1, <2>2 DEF Chunks
<1> QED
  BY <1>1, <1>2, <1>3, <1>4 DEF k, l

\* Of each chunk there are four digits.
LEMMA Encoded ==
  ASSUME NEW s \in Seq(Byte)
  PROVE  /\ Base64Encode(s) \in Seq(Nat) /\ Len(Base64Encode(s)) = 4 * Pieces(s)
         /\ \A i \in 1 .. Pieces(s) : \A j \in 1 .. 4 :
              Base64Encode(s)[4 * (i - 1) + j] = Digits(Piece(s, i))[j]
<1> DEFINE k == Pieces(s)
           D(i) == Digits(Piece(s, i))
           t == [i \in 1 .. k |-> D(i)]
<1>1. k \in Nat /\ \A i \in 1 .. k : D(i) \in Seq(Nat) /\ Len(D(i)) = 4
  BY PiecesAre, ChunkDecoded
<1>2. Base64Encode(s) = FlattenSeq(t)
  BY PiecesAre DEF Base64Encode
<1> HIDE DEF D
<1>3. t \in Seq(Seq(Nat)) /\ Len(t) = k /\ \A i \in 1 .. k : t[i] = D(i)
  BY <1>1
<1> HIDE DEF t, k
<1>4. PICK f : /\ FlattenSeq(t) = f[k] /\ f[0] = << >>
               /\ \A i \in 1 .. k : f[i] = f[i - 1] \o D(i)
               /\ \A i \in 0 .. k : f[i] \in Seq(Nat)
  <2>1. \E f : /\ FlattenSeq(t) = f[Len(t)] /\ f[0] = << >>
               /\ \A i \in 1 .. Len(t) : f[i] = f[i - 1] \o t[i]
               /\ \A i \in 0 .. Len(t) : f[i] \in Seq(Nat)
    BY <1>3, FlattenUnfold
  <2> QED
    BY <1>3, <2>1
<1> DEFINE Good(n) == /\ Len(f[n]) = 4 * n
                      /\ \A i \in 1 .. n : \A j \in 1 .. 4 : f[n][4 * (i - 1) + j] = D(i)[j]
           M == {n \in Nat : n <= k => Good(n)}
<1>5. 0 \in M
  BY <1>4
<1>6. ASSUME NEW n \in Nat, n \in M
      PROVE  n + 1 \in M
  <2>1. SUFFICES ASSUME n + 1 <= k
                 PROVE  Good(n + 1)
    OBVIOUS
  <2>2. n + 1 \in 1 .. k /\ n \in 0 .. k /\ (n + 1) - 1 = n /\ Good(n)
    BY <1>1, <1>6, <2>1
  <2> DEFINE r == f[n]
             d == D(n + 1)
  <2>3. f[n + 1] = r \o d /\ r \in Seq(Nat) /\ d \in Seq(Nat) /\ Len(d) = 4
    BY <1>1, <1>4, <2>2
  <2>4. Len(r) = 4 * n /\ \A i \in 1 .. n : \A j \in 1 .. 4 : r[4 * (i - 1) + j] = D(i)[j]
    BY <2>2
  <2> HIDE DEF r
  <2>5. Len(r \o d) = Len(r) + Len(d)
        /\ \A x \in 1 .. Len(r) + Len(d) : (r \o d)[x] = IF x <= Len(r) THEN r[x] ELSE d[x - Len(r)]
    <3> HIDE DEF d
    <3> QED
      BY <2>3, ConcatProperties
  <2> HIDE DEF d
  <2>6. Len(f[n + 1]) = 4 * (n + 1)
    <3>1. Len(r \o d) = 4 * n + 4
      BY <2>3, <2>4, <2>5
    <3> QED
      BY <2>3, <3>1
  <2>7. ASSUME NEW i \in 1 .. n + 1, NEW j \in 1 .. 4
        PROVE  f[n + 1][4 * (i - 1) + j] = D(i)[j]
    <3> DEFINE x == 4 * (i - 1) + j
    <3>1. x \in 1 .. 4 * n + 4 /\ (i <= n => x <= 4 * n) /\ (i = n + 1 => ~(x <= 4 * n) /\ x - 4 * n = j)
      OBVIOUS
    <3> HIDE DEF x
    <3>2. (r \o d)[x] = IF x <= 4 * n THEN r[x] ELSE d[x - 4 * n]
      BY <2>3, <2>4, <2>5, <3>1
    <3>3. CASE i = n + 1
      <4>1. (r \o d)[x] = d[j]
        BY <3>1, <3>2, <3>3
      <4> QED
        BY <2>3, <3>3, <4>1 DEF x, d
    <3>4. CASE i # n + 1
      <4>1. i \in 1 .. n
        BY <3>4
      <4>2. r[x] = D(i)[j]
        BY <2>4, <4>1 DEF x
      <4>3. (r \o d)[x] = r[x]
        BY <3>1, <3>2, <4>1
      <4> QED
        BY <2>3, <4>2, <4>3 DEF x
    <3> QED
      BY <3>3, <3>4
  <2> QED
    BY <2>6, <2>7
<1> HIDE DEF Good
<1>7. Good(k)
  <2> HIDE DEF M
  <2>1. k \in M
    BY <1>1, <1>5, <1>6, Induct
  <2> QED
    BY <2>1, <1>1 DEF M
<1>8. FlattenSeq(t) \in Seq(Nat)
  BY <1>1, <1>4
<1> QED
  BY <1>2, <1>4, <1>7, <1>8 DEF Good, D, k

\* The chunks of bytes make up the whole.
LEMMA PiecesJoin ==
  ASSUME NEW s \in Seq(Byte)
  PROVE  FlattenSeq([i \in 1 .. Pieces(s) |-> Piece(s, i)]) = s
<1> DEFINE k == Pieces(s)
           l == Len(s)
           t == [i \in 1 .. k |-> Piece(s, i)]
           To(i) == IF 3 * i < l THEN 3 * i ELSE l
<1>1. k \in Nat /\ l \in Nat /\ 3 * k >= l /\ 3 * k < l + 3 /\ \A i \in 1 .. k : Piece(s, i) \in Seq(Byte)
  BY PiecesAre DEF Chunk
<1> HIDE DEF k
<1>2. t \in Seq(Seq(Byte)) /\ Len(t) = k /\ \A i \in 1 .. k : t[i] = Piece(s, i)
  BY <1>1
<1> HIDE DEF t
<1>3. PICK f : /\ FlattenSeq(t) = f[k] /\ f[0] = << >>
               /\ \A i \in 1 .. k : f[i] = f[i - 1] \o Piece(s, i)
  <2>1. \E f : /\ FlattenSeq(t) = f[Len(t)] /\ f[0] = << >>
               /\ \A i \in 1 .. Len(t) : f[i] = f[i - 1] \o t[i]
               /\ \A i \in 0 .. Len(t) : f[i] \in Seq(Byte)
    BY <1>2, FlattenUnfold, Zenon
  <2> QED
    BY <1>2, <2>1
<1> DEFINE M == {n \in Nat : n <= k => f[n] = SubSeq(s, 1, To(n))}
<1>4. 0 \in M
  <2>1. To(0) = 0
    BY <1>1
  <2> HIDE DEF To
  <2>2. SubSeq(s, 1, 0) = << >>
    BY SubSeqEmpty
  <2> QED
    BY <1>3, <2>1, <2>2
<1>5. ASSUME NEW n \in Nat, n \in M
      PROVE  n + 1 \in M
  <2>1. SUFFICES ASSUME n + 1 <= k
                 PROVE  f[n + 1] = SubSeq(s, 1, To(n + 1))
    OBVIOUS
  <2>2. n + 1 \in 1 .. k /\ n <= k /\ (n + 1) - 1 = n
    BY <1>1, <2>1
  <2>3. f[n + 1] = f[n] \o Piece(s, n + 1) /\ f[n] = SubSeq(s, 1, To(n))
    BY <1>3, <1>5, <2>2
  <2>4. To(n) = 3 * n /\ To(n) \in 0 .. l /\ To(n + 1) \in To(n) .. l
    BY <1>1, <2>1
  <2>5. Piece(s, n + 1) = SubSeq(s, To(n) + 1, To(n + 1))
    <3>1. 3 * ((n + 1) - 1) + 1 = To(n) + 1
      BY <2>4
    <3> QED
      BY <3>1 DEF Piece
  <2> HIDE DEF To
  <2>6. SubSeq(s, 1, To(n)) \o SubSeq(s, To(n) + 1, To(n + 1)) = SubSeq(s, 1, To(n + 1))
    <3>1. 1 \in 1 .. Len(s) + 1 /\ To(n) \in 1 - 1 .. Len(s) /\ To(n + 1) \in To(n) .. Len(s)
      BY <1>1, <2>4
    <3> QED
      BY <3>1, ConcatAdjacentSubSeq
  <2> QED
    BY <2>3, <2>5, <2>6
<1>6. f[k] = SubSeq(s, 1, l)
  <2>1. To(k) = l
    BY <1>1
  <2> HIDE DEF M, To
  <2>2. k \in M
    BY <1>1, <1>4, <1>5, Induct
  <2> QED
    BY <1>1, <2>1, <2>2 DEF M
<1>7. SubSeq(s, 1, l) = s
  BY SubSeqFull
<1> QED
  BY <1>3, <1>6, <1>7 DEF t, k

\* Decoding gives back what was encoded.
LEMMA EncodedDecodes ==
  ASSUME NEW s \in Seq(Byte)
  PROVE  Base64Decode(Base64Encode(s)) = s
<1> DEFINE e == Base64Encode(s)
           k == Pieces(s)
           D(i) == Digits(Piece(s, i))
<1>1. k \in Nat /\ \A i \in 1 .. k : Piece(s, i) \in Chunk
  BY PiecesAre
<1>2. \A i \in 1 .. k : D(i) \in Seq(Nat) /\ Len(D(i)) = 4 /\ Bytes(D(i)) = Piece(s, i)
  BY <1>1, ChunkDecoded
<1>3. e \in Seq(Nat) /\ Len(e) = 4 * k /\ \A i \in 1 .. k : \A j \in 1 .. 4 : e[4 * (i - 1) + j] = D(i)[j]
  BY Encoded
<1> HIDE DEF e, k, D
<1>4. ASSUME NEW i \in 1 .. k
      PROVE  SubSeq(e, (i - 1) * 4 + 1, IF i * 4 < Len(e) THEN i * 4 ELSE Len(e)) = D(i)
  <2> DEFINE m == (i - 1) * 4 + 1
             n == IF i * 4 < Len(e) THEN i * 4 ELSE Len(e)
             q == SubSeq(e, m, n)
  <2>1. m \in Int /\ n \in Int /\ m <= n /\ n - m + 1 = 4 /\ 1 <= m /\ n <= Len(e) /\ m = 4 * (i - 1) + 1
    BY <1>1, <1>3, SMT
  <2> HIDE DEF m, n
  <2>2. \A j \in m .. n : e[j] \in Nat
    BY <1>1, <1>3, <2>1
  <2>3. q \in Seq(Nat) /\ Len(q) = (IF m <= n THEN n - m + 1 ELSE 0)
        /\ \A j \in 1 .. n - m + 1 : q[j] = e[m + j - 1]
    BY <2>1, <2>2, SubSeqProperties
  <2> HIDE DEF q
  <2>4. Len(q) = 4 /\ \A j \in 1 .. 4 : q[j] = D(i)[j]
    <3>1. \A j \in 1 .. 4 : m + j - 1 = 4 * (i - 1) + j
      BY <2>1
    <3> QED
      BY <1>3, <2>1, <2>3, <3>1
  <2>5. q = D(i)
    BY <1>2, <2>3, <2>4, SeqEqual
  <2> QED
    BY <2>5 DEF q, m, n
<1>5. (Len(e) + 4 - 1) \div 4 = k
  BY <1>1, <1>3, SMT
<1>6. DOMAIN Chunks(e, 4) = 1 .. k /\ \A i \in 1 .. k : Chunks(e, 4)[i] = D(i)
  BY <1>4, <1>5 DEF Chunks
<1>7. [i \in DOMAIN Chunks(e, 4) |-> Bytes(Chunks(e, 4)[i])] = [i \in 1 .. k |-> Piece(s, i)]
  BY <1>2, <1>6
<1> QED
  BY <1>7, PiecesJoin DEF Base64Decode, k, e

-----------------------------------------------------------------------------
(* The documents.                                                          *)

Row == [id : DocumentId, field : {"content", "content_b64"},
        digits : {Base64Encode(c) : c \in Content}]

DocumentTypes ==
  /\ rows \in Seq(Row)
  /\ DOMAIN saved \subseteq DocumentId
  /\ retrieved \in {NoAnswer, Stub}

(* The table has one row of each document that was saved, with its content. *)
OneRowEach ==
  /\ {rows[i].id : i \in DOMAIN rows} = DOMAIN saved
  /\ \A i, j \in DOMAIN rows : rows[i].id = rows[j].id => i = j
  /\ \A i \in DOMAIN rows : /\ rows[i].field = "content"
                            /\ saved[rows[i].id] \in Content
                            /\ rows[i].digits = Base64Encode(saved[rows[i].id])

DocumentInv ==
  /\ DocumentTypes
  /\ ~InDatabase => OneRowEach

LEMMA DocumentAtFirst == DocumentInit => DocumentInv
<1> SUFFICES ASSUME DocumentInit
             PROVE  DocumentInv
  OBVIOUS
<1>1. rows = << >> /\ DOMAIN rows = {} /\ DOMAIN saved = {} /\ retrieved = NoAnswer
  BY DEF DocumentInit
<1> QED
  BY <1>1 DEF DocumentInv, DocumentTypes, OneRowEach

LEMMA RowIs ==
  ASSUME NEW id \in DocumentId, NEW content \in Content,
         NEW field \in {"content", "content_b64"}
  PROVE  /\ DocumentRow(id, field, content) \in Row
         /\ DocumentRow(id, field, content).id = id
         /\ DocumentRow(id, field, content).field = field
         /\ DocumentRow(id, field, content).digits = Base64Encode(content)
BY DEF DocumentRow, Row

\* The rows of the others keep the order, and are theirs.
LEMMA OthersAre ==
  ASSUME DocumentTypes, OneRowEach, NEW id
  PROVE  /\ Others(id) \in Seq(Row)
         /\ {Others(id)[k].id : k \in DOMAIN Others(id)} = DOMAIN saved \ {id}
         /\ \A j, k \in DOMAIN Others(id) : Others(id)[j].id = Others(id)[k].id => j = k
         /\ \A k \in DOMAIN Others(id) : \E i \in DOMAIN rows :
              rows[i].id # id /\ Others(id)[k] = rows[i]
<1> DEFINE I == {i \in DOMAIN rows : rows[i].id # id}
           r == Those(rows, I)
<1>1. r = Others(id)
  BY DEF Others
<1>2. rows \in Seq(Row) /\ I \in SUBSET DOMAIN rows
  BY DEF DocumentTypes
<1>3. r \in Seq(Row) /\ \E g : IsThose(rows, I, r, g)
  <2> HIDE DEF I
  <2> QED
    BY <1>2, ThoseAre
<1>4. PICK g : IsThose(rows, I, r, g)
  BY <1>3
<1> HIDE DEF r
<1>5. /\ DOMAIN r = 1 .. Len(r) /\ Len(r) \in Nat
      /\ g \in [1 .. Len(r) -> I] /\ \A k \in 1 .. Len(r) : r[k] = rows[g[k]] /\ g[k] \in I
      /\ \A j, k \in 1 .. Len(r) : j < k => g[j] < g[k]
      /\ \A i \in I : \E k \in 1 .. Len(r) : g[k] = i
  BY <1>3, <1>4 DEF IsThose
<1>6. \A i \in I : i \in DOMAIN rows /\ rows[i].id # id /\ i \in Nat
  BY <1>2
<1>7. {r[k].id : k \in DOMAIN r} = DOMAIN saved \ {id}
  <2>1. ASSUME NEW k \in DOMAIN r
        PROVE  r[k].id \in DOMAIN saved \ {id}
    BY <1>5, <1>6 DEF OneRowEach
  <2>2. ASSUME NEW x \in DOMAIN saved \ {id}
        PROVE  \E k \in DOMAIN r : r[k].id = x
    <3>1. PICK i \in DOMAIN rows : rows[i].id = x
      BY DEF OneRowEach
    <3>2. i \in I
      BY <2>2, <3>1
    <3>3. PICK k \in 1 .. Len(r) : g[k] = i
      BY <1>5, <3>2
    <3> QED
      BY <1>5, <3>1, <3>3
  <2> QED
    BY <2>1, <2>2
<1>8. ASSUME NEW j \in DOMAIN r, NEW k \in DOMAIN r, r[j].id = r[k].id
      PROVE  j = k
  <2>1. g[j] = g[k]
    BY <1>5, <1>6, <1>8 DEF OneRowEach
  <2>2. j \in 1 .. Len(r) /\ k \in 1 .. Len(r) /\ g[j] \in Nat
    BY <1>5, <1>6
  <2>3. ~(j < k) /\ ~(k < j)
    BY <1>5, <2>1, <2>2
  <2> QED
    BY <2>2, <2>3
<1>9. \A k \in DOMAIN r : \E i \in DOMAIN rows : rows[i].id # id /\ r[k] = rows[i]
  BY <1>5, <1>6
<1> QED
  BY <1>1, <1>3, <1>7, <1>8, <1>9

\* A row of a document is added to those of others.
LEMMA OneMoreRow ==
  ASSUME DocumentTypes, OneRowEach, NEW id \in DocumentId, NEW content \in Content,
         rows' = Append(Others(id), DocumentRow(id, "content", content)),
         DOMAIN saved' = DOMAIN saved \cup {id}, saved'[id] = content,
         \A x \in DOMAIN saved : x # id => saved'[x] = saved[x]
  PROVE  OneRowEach'
<1> DEFINE o == Others(id)
           row == DocumentRow(id, "content", content)
           n == Len(o) + 1
<1>1. /\ o \in Seq(Row)
      /\ {o[k].id : k \in DOMAIN o} = DOMAIN saved \ {id}
      /\ \A j, k \in DOMAIN o : o[j].id = o[k].id => j = k
      /\ \A k \in DOMAIN o : \E i \in DOMAIN rows : rows[i].id # id /\ o[k] = rows[i]
  BY OthersAre
<1>2. row \in Row /\ row.id = id /\ row.field = "content" /\ row.digits = Base64Encode(content)
  BY RowIs
<1> HIDE DEF o, row
<1>3. rows' = Append(o, row)
  BY DEF o, row
<1>4. DOMAIN o = 1 .. Len(o) /\ Len(o) \in Nat /\ DOMAIN rows' = 1 .. n
      /\ rows'[n] = row /\ \A k \in 1 .. Len(o) : rows'[k] = o[k]
  BY <1>1, <1>2, <1>3
<1> HIDE DEF n
<1>5. \A k \in 1 .. n : k = n \/ k \in DOMAIN o
  BY <1>4 DEF n
<1>6. {rows'[k].id : k \in DOMAIN rows'} = DOMAIN saved'
  <2>1. \A k \in 1 .. n : rows'[k].id \in DOMAIN saved'
    <3>1. \A k \in DOMAIN o : o[k].id \in DOMAIN saved
      BY <1>1
    <3> QED
      BY <1>2, <1>4, <1>5, <3>1
  <2>2. ASSUME NEW x \in DOMAIN saved'
        PROVE  \E k \in 1 .. n : rows'[k].id = x
    <3>1. CASE x = id
      <4>1. n \in 1 .. n
        BY <1>4 DEF n
      <4> QED
        BY <1>2, <1>4, <3>1, <4>1
    <3>2. CASE x # id
      <4>1. PICK k \in DOMAIN o : o[k].id = x
        BY <1>1, <3>2, <2>2
      <4>2. k \in 1 .. n
        BY <1>4 DEF n
      <4> QED
        BY <1>4, <4>1, <4>2
    <3> QED
      BY <3>1, <3>2
  <2>3. DOMAIN rows' = 1 .. n
    BY <1>4
  <2> DEFINE R == rows'
             D == DOMAIN saved'
  <2>4. DOMAIN R = 1 .. n /\ (\A k \in 1 .. n : R[k].id \in D)
        /\ \A x \in D : \E k \in 1 .. n : R[k].id = x
    BY <2>1, <2>2, <2>3
  <2> HIDE DEF R, D
  <2>5. {R[k].id : k \in DOMAIN R} = D
    BY <2>4
  <2> QED
    BY <2>5 DEF R, D
<1>7. \A k \in DOMAIN o : o[k].id # id
  BY <1>1
<1>8. ASSUME NEW j \in 1 .. n, NEW k \in 1 .. n, rows'[j].id = rows'[k].id
      PROVE  j = k
  <2>1. CASE j = n /\ k = n
    BY <2>1
  <2>2. CASE j \in DOMAIN o /\ k \in DOMAIN o
    BY <1>1, <1>4, <1>8, <2>2
  <2>3. CASE j = n /\ k \in DOMAIN o
    BY <1>2, <1>4, <1>7, <1>8, <2>3
  <2>4. CASE j \in DOMAIN o /\ k = n
    BY <1>2, <1>4, <1>7, <1>8, <2>4
  <2> QED
    BY <1>5, <2>1, <2>2, <2>3, <2>4
<1>9. ASSUME NEW k \in DOMAIN rows'
      PROVE  /\ rows'[k].field = "content"
             /\ saved'[rows'[k].id] \in Content
             /\ rows'[k].digits = Base64Encode(saved'[rows'[k].id])
  <2>1. CASE k = n
    BY <1>2, <1>4, <2>1
  <2>2. CASE k \in DOMAIN o
    <3>1. PICK i \in DOMAIN rows : rows[i].id # id /\ o[k] = rows[i]
      BY <1>1, <2>2
    <3>2. rows'[k] = rows[i] /\ rows[i].id \in DOMAIN saved
      BY <1>4, <2>2, <3>1 DEF OneRowEach
    <3>3. saved'[rows[i].id] = saved[rows[i].id]
      BY <3>1, <3>2
    <3>4. rows[i].field = "content" /\ saved[rows[i].id] \in Content
          /\ rows[i].digits = Base64Encode(saved[rows[i].id])
      BY DEF OneRowEach
    <3> QED
      BY <3>2, <3>3, <3>4
  <2> QED
    BY <1>4, <1>5, <2>1, <2>2
<1> QED
  BY <1>4, <1>6, <1>8, <1>9 DEF OneRowEach

LEMMA DocumentKept ==
  ASSUME DocumentInv, DocumentNext \/ UNCHANGED documentVars, mix' = mix
  PROVE  DocumentInv'
<1>1. DocumentTypes /\ (~InDatabase => OneRowEach)
  BY DEF DocumentInv
<1>2. InDatabase' = InDatabase
  BY DEF InDatabase, Risk
<1>3. rows \in Seq(Row) /\ DOMAIN rows = 1 .. Len(rows) /\ Len(rows) \in Nat
      /\ DOMAIN saved \subseteq DocumentId /\ retrieved \in {NoAnswer, Stub}
  BY <1>1 DEF DocumentTypes
<1>4. CASE UNCHANGED documentVars
  <2>1. UNCHANGED <<rows, saved, retrieved>>
    BY <1>4 DEF documentVars
  <2> QED
    BY <1>1, <1>2, <2>1 DEF DocumentInv, DocumentTypes, OneRowEach
<1>5. ASSUME NEW id \in DocumentId, NEW content \in Content, StoreDocument(id, content)
      PROVE  DocumentInv'
  <2>1. UNCHANGED <<saved, retrieved>>
        /\ \/ rows' = rows
           \/ InDatabase /\ rows' = Append(rows, DocumentRow(id, "content_b64", content))
    BY <1>5 DEF StoreDocument
  <2>2. CASE rows' = rows
    BY <1>1, <1>2, <2>1, <2>2 DEF DocumentInv, DocumentTypes, OneRowEach
  <2>3. CASE InDatabase /\ rows' = Append(rows, DocumentRow(id, "content_b64", content))
    <3>1. rows' \in Seq(Row)
      BY <1>3, <2>3, RowIs
    <3> QED
      BY <1>2, <1>3, <2>1, <2>3, <3>1 DEF DocumentInv, DocumentTypes
  <2> QED
    BY <2>1, <2>2, <2>3
<1>6. ASSUME NEW id \in DocumentId, RetrieveDocument(id)
      PROVE  DocumentInv'
  <2>1. Found(id) = {}
    BY DEF Found, WithDocumentId
  <2>2. retrieved' = Stub /\ UNCHANGED <<rows, saved>>
    BY <1>6, <2>1 DEF RetrieveDocument
  <2> QED
    BY <1>1, <1>2, <2>2 DEF DocumentInv, DocumentTypes, OneRowEach, Stub, NoAnswer
<1>7. ASSUME NEW id \in DocumentId, NEW content \in Content, Confirmed(id, content)
      PROVE  /\ DOMAIN saved' = DOMAIN saved \cup {id} /\ saved'[id] = content
             /\ \A x \in DOMAIN saved : x # id => saved'[x] = saved[x]
             /\ DOMAIN saved' \subseteq DocumentId
  BY <1>3, <1>7 DEF Confirmed
<1>8. ASSUME NEW id \in DocumentId, NEW content \in Content, Save(id, content)
      PROVE  DocumentInv'
  <2> DEFINE row == DocumentRow(id, "content", content)
  <2>1. rows' = Saved(id, row) /\ Confirmed(id, content) /\ retrieved' = retrieved
    BY <1>8 DEF Save
  <2>2. row \in Row
    BY RowIs
  <2>3. CASE InDatabase
    <3>1. rows' \in Seq(Row)
      BY <1>3, <2>1, <2>2, <2>3 DEF Saved
    <3> QED
      BY <1>2, <1>3, <1>7, <2>1, <2>3, <3>1 DEF DocumentInv, DocumentTypes, Stub, NoAnswer
  <2>4. CASE ~InDatabase
    <3>1. rows' = Append(Others(id), row) /\ Others(id) \in Seq(Row)
      BY <1>1, <2>1, <2>4, OthersAre DEF Saved
    <3>2. rows' \in Seq(Row)
      BY <2>2, <3>1
    <3>3. OneRowEach'
      BY <1>1, <1>7, <2>1, <2>4, <3>1, OneMoreRow
    <3> QED
      BY <1>3, <1>7, <2>1, <3>2, <3>3 DEF DocumentInv, DocumentTypes, Stub, NoAnswer
  <2> QED
    BY <2>3, <2>4
<1>9. ASSUME NEW id \in DocumentId, NEW content \in Content, UpdateDocument(id, content)
      PROVE  DocumentInv'
  <2> DEFINE row == DocumentRow(id, "content", content)
  <2>1. /\ WithDocumentId(id) # {} /\ Confirmed(id, content) /\ retrieved' = retrieved
        /\ rows' = [i \in DOMAIN rows |-> IF i \in WithDocumentId(id) THEN row ELSE rows[i]]
    BY <1>9 DEF UpdateDocument
  <2>2. ~InDatabase /\ \A i \in DOMAIN rows : i \in WithDocumentId(id) <=> rows[i].id = id
    BY <2>1 DEF WithDocumentId
  <2>3. row \in Row /\ row.id = id /\ row.field = "content" /\ row.digits = Base64Encode(content)
    BY RowIs
  <2> HIDE DEF row
  <2>4. /\ DOMAIN rows' = DOMAIN rows
        /\ \A i \in DOMAIN rows : rows'[i] = IF rows[i].id = id THEN row ELSE rows[i]
    BY <2>1, <2>2
  <2>5. rows' \in Seq(Row)
    <3>1. \A i \in 1 .. Len(rows) : rows[i] \in Row
      BY <1>3
    <3> QED
      BY <1>3, <2>1, <2>3, <3>1
  <2>6. \A i \in DOMAIN rows : rows'[i].id = rows[i].id
    BY <2>3, <2>4
  <2>7. OneRowEach
    BY <1>1, <2>2
  <2>8. PICK x \in DOMAIN rows : rows[x].id = id
    BY <2>1, <2>2 DEF WithDocumentId
  <2>9. {rows'[i].id : i \in DOMAIN rows'} = DOMAIN saved'
    <3>1. {rows'[i].id : i \in DOMAIN rows'} = {rows[i].id : i \in DOMAIN rows}
      BY <2>4, <2>6
    <3>2. id \in DOMAIN saved
      BY <2>7, <2>8 DEF OneRowEach
    <3> QED
      BY <1>7, <2>1, <2>7, <3>1, <3>2 DEF OneRowEach
  <2>10. \A i, j \in DOMAIN rows' : rows'[i].id = rows'[j].id => i = j
    BY <2>4, <2>6, <2>7 DEF OneRowEach
  <2>11. ASSUME NEW i \in DOMAIN rows'
         PROVE  /\ rows'[i].field = "content"
                /\ saved'[rows'[i].id] \in Content
                /\ rows'[i].digits = Base64Encode(saved'[rows'[i].id])
    <3>1. CASE rows[i].id = id
      <4>1. rows'[i] = row /\ saved'[id] = content
        BY <1>7, <2>1, <2>4, <3>1
      <4> QED
        BY <2>3, <4>1
    <3>2. CASE rows[i].id # id
      <4>1. rows'[i] = rows[i] /\ rows[i].id \in DOMAIN saved
        BY <2>4, <2>7, <3>2 DEF OneRowEach
      <4>2. saved'[rows[i].id] = saved[rows[i].id]
        BY <1>7, <2>1, <3>2, <4>1
      <4>3. rows[i].field = "content" /\ saved[rows[i].id] \in Content
            /\ rows[i].digits = Base64Encode(saved[rows[i].id])
        BY <2>4, <2>7 DEF OneRowEach
      <4> QED
        BY <4>1, <4>2, <4>3
    <3> QED
      BY <3>1, <3>2
  <2>12. OneRowEach'
    BY <2>9, <2>10, <2>11 DEF OneRowEach
  <2> QED
    BY <1>3, <1>7, <2>1, <2>5, <2>12 DEF DocumentInv, DocumentTypes, Stub, NoAnswer
<1>10. ASSUME NEW id \in DocumentId, DeleteDocument(id)
       PROVE  DocumentInv'
  <2>1. /\ WithDocumentId(id) # {} /\ rows' = Others(id) /\ retrieved' = retrieved
        /\ saved' = [x \in DOMAIN saved \ {id} |-> saved[x]]
    BY <1>10 DEF DeleteDocument
  <2>2. OneRowEach
    BY <1>1, <2>1 DEF WithDocumentId
  <2>3. /\ rows' \in Seq(Row)
        /\ {rows'[k].id : k \in DOMAIN rows'} = DOMAIN saved \ {id}
        /\ \A j, k \in DOMAIN rows' : rows'[j].id = rows'[k].id => j = k
        /\ \A k \in DOMAIN rows' : \E i \in DOMAIN rows : rows[i].id # id /\ rows'[k] = rows[i]
    BY <1>1, <2>1, <2>2, OthersAre
  <2>4. DOMAIN saved' = DOMAIN saved \ {id} /\ \A x \in DOMAIN saved' : saved'[x] = saved[x]
    BY <2>1
  <2>5. ASSUME NEW k \in DOMAIN rows'
        PROVE  /\ rows'[k].field = "content"
               /\ saved'[rows'[k].id] \in Content
               /\ rows'[k].digits = Base64Encode(saved'[rows'[k].id])
    <3>1. PICK i \in DOMAIN rows : rows[i].id # id /\ rows'[k] = rows[i]
      BY <2>3
    <3>2. rows[i].id \in DOMAIN saved'
      BY <2>2, <2>4, <3>1 DEF OneRowEach
    <3>3. saved'[rows[i].id] = saved[rows[i].id]
      BY <2>4, <3>2
    <3> QED
      BY <2>2, <3>1, <3>3 DEF OneRowEach
  <2>6. OneRowEach'
    BY <2>3, <2>4, <2>5 DEF OneRowEach
  <2> QED
    BY <1>3, <2>1, <2>3, <2>4, <2>6 DEF DocumentInv, DocumentTypes, Stub, NoAnswer
<1> QED
  BY <1>4, <1>5, <1>6, <1>8, <1>9, <1>10 DEF DocumentNext

\* And with it, what is said of the documents.
LEMMA DocumentSound ==
  ASSUME DocumentInv
  PROVE  DocumentTypeOK /\ ListedOnce /\ OnlyStubs
<1>1. DocumentTypes /\ (~InDatabase => OneRowEach)
  BY DEF DocumentInv
<1>2. DocumentTypeOK /\ OnlyStubs
  <2>1. \A i \in DOMAIN rows : rows[i] \in Row
    BY <1>1 DEF DocumentTypes
  <2>2. \A row \in Row : row.id \in DocumentId
    BY DEF Row
  <2> QED
    BY <1>1, <2>1, <2>2 DEF DocumentTypeOK, OnlyStubs, DocumentTypes
<1>3. ListedOnce
  <2>1. SUFFICES ASSUME Safe({"database"}), OneRowEach, NEW i \in DOMAIN rows
                 PROVE  ParseContent(rows[i]) = saved[rows[i].id]
    BY <1>1 DEF ListedOnce, OneRowEach, Safe, InDatabase, Risk
  <2>2. saved[rows[i].id] \in Seq(Byte) /\ rows[i].field = "content"
        /\ rows[i].digits = Base64Encode(saved[rows[i].id])
    BY <2>1, DocumentAssumption DEF OneRowEach, Byte
  <2> QED
    BY <2>2, EncodedDecodes DEF ParseContent
<1> QED
  BY <1>2, <1>3

-----------------------------------------------------------------------------
(* What transactions change.                                                *)

\* A change is an integer.
LEMMA ChangesAre ==
  ASSUME NEW t \in Txns
  PROVE  /\ \A a : Change(t, a) \in Int
         /\ Mentioned(t) \subseteq Accounts /\ IsFiniteSet(Mentioned(t))
         /\ \A a \in Mentioned(t) : Entries[t][a].debit \in Int /\ Entries[t][a].credit \in Int
<1>1. /\ DOMAIN Entries[t] \subseteq Accounts /\ IsFiniteSet(DOMAIN Entries[t])
      /\ Entries[t] \in [DOMAIN Entries[t] -> [debit : Int, credit : Int]]
  BY AccountingAssumption
<1>2. \A a \in DOMAIN Entries[t] : Entries[t][a] \in [debit : Int, credit : Int]
  BY <1>1
<1>3. \A a \in Mentioned(t) : Entries[t][a].debit \in Int /\ Entries[t][a].credit \in Int
  BY <1>2 DEF Mentioned
<1>4. \A a : Change(t, a) \in Int
  BY <1>3 DEF Change
<1> QED
  BY <1>1, <1>3, <1>4 DEF Mentioned

\* What a transaction more changes.
LEMMA ChangeInGrows ==
  ASSUME NEW T \in SUBSET Txns, IsFiniteSet(T), NEW t \in Txns \ T
  PROVE  \A a : /\ ChangeIn(T \cup {t}, a) = ChangeIn(T, a) + Change(t, a)
                /\ ChangeIn(T, a) \in Int
<1> SUFFICES ASSUME NEW a
             PROVE  /\ ChangeIn(T \cup {t}, a) = ChangeIn(T, a) + Change(t, a)
                    /\ ChangeIn(T, a) \in Int
  OBVIOUS
<1> DEFINE f == [x \in T \cup {t} |-> Change(x, a)]
<1>1. f \in [T \cup {t} -> Int]
  BY ChangesAre
<1>2. f[t] = Change(t, a) /\ Restrict(f, T) = [x \in T |-> Change(x, a)]
  BY DEF Restrict
<1>3. ChangeIn(T \cup {t}, a) = SumFunction(f)
  BY DEF ChangeIn, TotalOf
<1>4. ChangeIn(T, a) = SumFunction(Restrict(f, T))
  BY <1>2 DEF ChangeIn, TotalOf
<1> HIDE DEF f
<1>5. t \notin T
  OBVIOUS
<1>6. SumFunction(f) = f[t] + SumFunction(Restrict(f, T)) /\ SumFunction(Restrict(f, T)) \in Int
  BY <1>1, <1>5, SumMore
<1>7. f[t] \in Int
  BY <1>1
<1> QED
  BY <1>2, <1>3, <1>4, <1>6, <1>7

\* No transaction changes nothing.
LEMMA ChangeInNone == \A a : ChangeIn({}, a) = 0
<1> SUFFICES ASSUME NEW a
             PROVE  ChangeIn({}, a) = 0
  OBVIOUS
<1>1. [x \in {} |-> Change(x, a)] \in [{} -> Int]
  OBVIOUS
<1>2. ChangeIn({}, a) = SumFunction([x \in {} |-> Change(x, a)])
  BY DEF ChangeIn, TotalOf
<1> QED
  BY <1>1, <1>2, SumNone

LEMMA ChangeInInt ==
  ASSUME NEW T \in SUBSET Txns, IsFiniteSet(T)
  PROVE  \A a : ChangeIn(T, a) \in Int
<1> SUFFICES ASSUME NEW a
             PROVE  ChangeIn(T, a) \in Int
  OBVIOUS
<1>1. [x \in T |-> Change(x, a)] \in [T -> Int]
  BY ChangesAre
<1>2. ChangeIn(T, a) = SumFunction([x \in T |-> Change(x, a)])
  BY DEF ChangeIn, TotalOf
<1> QED
  BY <1>1, <1>2, SumSplit

\* What some change and what the others do.
LEMMA ChangeInParts ==
  ASSUME NEW S \in SUBSET Txns, IsFiniteSet(S), NEW T \in SUBSET S
  PROVE  \A a : ChangeIn(S, a) = ChangeIn(T, a) + ChangeIn(S \ T, a)
<1> SUFFICES ASSUME NEW a
             PROVE  ChangeIn(S, a) = ChangeIn(T, a) + ChangeIn(S \ T, a)
  OBVIOUS
<1> DEFINE f == [x \in S |-> Change(x, a)]
<1>1. f \in [S -> Int]
  BY ChangesAre
<1>2. /\ Restrict(f, T) = [x \in T |-> Change(x, a)]
      /\ Restrict(f, S \ T) = [x \in S \ T |-> Change(x, a)]
  BY DEF Restrict
<1>3. ChangeIn(S, a) = SumFunction(f)
  BY DEF ChangeIn, TotalOf
<1>4. ChangeIn(T, a) = SumFunction(Restrict(f, T))
  BY <1>2 DEF ChangeIn, TotalOf
<1>5. ChangeIn(S \ T, a) = SumFunction(Restrict(f, S \ T))
  BY <1>2 DEF ChangeIn, TotalOf
<1> HIDE DEF f
<1> QED
  BY <1>1, <1>3, <1>4, <1>5, SumParts

-----------------------------------------------------------------------------
(* Balances that are even: what lies on the debit side of them lies on the   *)
(* credit side as well.                                                     *)
Signed(accounts) == [a \in Accounts |-> IF DebitNormal(a) THEN accounts[a] ELSE 0 - accounts[a]]
Even(accounts) == accounts \in [Accounts -> Int] /\ SumFunction(Signed(accounts)) = 0

\* A balanced transaction changes both sides alike.
LEMMA ChangesEven ==
  ASSUME NEW t \in Txns, IsBalanced(t)
  PROVE  Even([a \in Accounts |-> Change(t, a)])
<1> DEFINE c == [a \in Accounts |-> Change(t, a)]
           M == Mentioned(t)
           d == [a \in M |-> Entries[t][a].debit]
           e == [a \in M |-> Entries[t][a].credit]
           k == Signed(c)
<1>1. M \subseteq Accounts /\ IsFiniteSet(M) /\ IsFiniteSet(Accounts)
      /\ \A a \in M : Entries[t][a].debit \in Int /\ Entries[t][a].credit \in Int
  BY ChangesAre, ChartAssumption
<1>2. c \in [Accounts -> Int] /\ d \in [M -> Int] /\ e \in [M -> Int]
  BY <1>1, ChangesAre
<1>3. k \in [Accounts -> Int]
  BY <1>2 DEF Signed
<1>4. SumFunction(d) = SumFunction(e)
  BY DEF IsBalanced, SumOver
<1>5. ASSUME NEW a \in Accounts \ M
      PROVE  k[a] = 0
  <2>1. c[a] = 0
    BY DEF Change
  <2>2. k[a] = 0 \/ k[a] = 0 - c[a]
    BY <2>1 DEF Signed
  <2> HIDE DEF c, k
  <2> QED
    BY <2>1, <2>2
<1>6. \A a \in M : k[a] = d[a] - e[a]
  BY <1>1 DEF Signed, Change
<1>7. Restrict(k, M) = [a \in M |-> d[a] - e[a]]
  BY <1>1, <1>6 DEF Restrict
<1> HIDE DEF c, d, e, k, M
<1>8. SumFunction(k) = SumFunction(Restrict(k, M))
  BY <1>1, <1>3, <1>5, SumZeros
<1>9. SumFunction(Restrict(k, M)) = SumFunction(d) - SumFunction(e)
  BY <1>1, <1>2, <1>7, SumMinus
<1>10. SumFunction(k) = 0
  BY <1>1, <1>2, <1>4, <1>8, <1>9, SumSplit
<1> QED
  BY <1>2, <1>10 DEF Even, k, c

\* Even balances added up are even.
LEMMA EvenAdded ==
  ASSUME NEW p, Even(p), NEW q, Even(q)
  PROVE  Even([a \in Accounts |-> p[a] + q[a]])
<1> DEFINE r == [a \in Accounts |-> p[a] + q[a]]
<1>1. p \in [Accounts -> Int] /\ q \in [Accounts -> Int] /\ r \in [Accounts -> Int]
  BY DEF Even
<1>2. /\ Signed(p) \in [Accounts -> Int] /\ Signed(q) \in [Accounts -> Int]
      /\ Signed(r) = [a \in Accounts |-> Signed(p)[a] + Signed(q)[a]]
  BY <1>1 DEF Signed
<1> HIDE DEF r
<1>3. SumFunction(Signed(r)) = SumFunction(Signed(p)) + SumFunction(Signed(q))
  BY <1>2, ChartAssumption, SumPlus
<1>4. SumFunction(Signed(r)) = 0
  BY <1>3 DEF Even
<1> QED
  BY <1>1, <1>4 DEF Even, r

LEMMA EvenZero == Even([a \in Accounts |-> 0])
<1> DEFINE z == [a \in Accounts |-> 0]
<1>1. z \in [Accounts -> Int] /\ Signed(z) = [a \in Accounts |-> 0]
  BY DEF Signed
<1>2. SumFunction(Signed(z)) = 0
  BY <1>1, ChartAssumption, SumZero
<1> QED
  BY <1>1, <1>2 DEF Even

\* What balanced transactions leave is even.
LEMMA ChangeInEven ==
  ASSUME NEW S \in SUBSET Txns, IsFiniteSet(S), \A t \in S : IsBalanced(t)
  PROVE  Even([a \in Accounts |-> ChangeIn(S, a)])
<1> DEFINE left(T) == [a \in Accounts |-> ChangeIn(T, a)]
           F == {T \in SUBSET S : Even(left(T))}
<1>1. {} \in F
  <2>1. left({}) = [a \in Accounts |-> 0]
    BY ChangeInNone
  <2> QED
    BY <2>1, EvenZero
<1>2. ASSUME NEW T \in SUBSET S, NEW t \in S, T \in F, t \notin T
      PROVE  T \cup {t} \in F
  <2>1. T \in SUBSET Txns /\ IsFiniteSet(T) /\ t \in Txns \ T
    BY <1>2, FS_Subset
  <2>2. \A a : ChangeIn(T \cup {t}, a) = ChangeIn(T, a) + Change(t, a)
    BY <2>1, ChangeInGrows
  <2> DEFINE p == left(T)
             q == [a \in Accounts |-> Change(t, a)]
  <2>3. left(T \cup {t}) = [a \in Accounts |-> p[a] + q[a]]
    BY <2>2
  <2>4. Even(p) /\ Even(q)
    BY <1>2, <2>1, ChangesEven
  <2> HIDE DEF p, q
  <2>5. Even([a \in Accounts |-> p[a] + q[a]])
    BY <2>4, EvenAdded
  <2> QED
    BY <1>2, <2>3, <2>5
<1> HIDE DEF F
<1>3. S \in F
  BY <1>1, <1>2, SetInduct
<1> QED
  BY <1>3 DEF F

-----------------------------------------------------------------------------
(* Even balances make a trial balance and a balance sheet that are balanced. *)

\* The accounts of a kind.
LEMMA KindTotal ==
  ASSUME NEW accounts \in [Accounts -> Int], NEW kind
  PROVE  /\ SheetTotal(accounts, kind)
              = SumFunction([a \in Accounts |-> IF KindOf[a] = kind THEN accounts[a] ELSE 0])
         /\ SheetTotal(accounts, kind) \in Int
<1> DEFINE f == [a \in Accounts |-> IF KindOf[a] = kind THEN accounts[a] ELSE 0]
           S == OfKind(kind)
<1>1. f \in [Accounts -> Int] /\ S \in SUBSET Accounts /\ \A a \in Accounts \ S : f[a] = 0
  BY DEF OfKind
<1>2. Restrict(f, S) = [a \in S |-> accounts[a]]
  BY DEF Restrict, OfKind
<1>3. SheetTotal(accounts, kind) = SumFunction([a \in S |-> accounts[a]])
  BY DEF SheetTotal, TotalOf
<1> HIDE DEF f, S
<1>4. SumFunction(f) = SumFunction(Restrict(f, S)) /\ SumFunction(f) \in Int
  BY <1>1, ChartAssumption, SumZeros, SumSplit
<1> QED
  BY <1>2, <1>3, <1>4 DEF f

LEMMA SheetEven ==
  ASSUME NEW accounts, Even(accounts)
  PROVE  SheetBalanced(accounts)
<1> DEFINE part(kind) == [a \in Accounts |-> IF KindOf[a] = kind THEN accounts[a] ELSE 0]
           assets == part("Asset")
           expenses == part("Expense")
           liabilities == part("Liability")
           equity == part("Equity")
           revenue == part("Revenue")
           debits == [a \in Accounts |-> assets[a] + expenses[a]]
           others == [a \in Accounts |-> liabilities[a] + equity[a]]
           credits == [a \in Accounts |-> others[a] + revenue[a]]
           k == Signed(accounts)
<1>1. accounts \in [Accounts -> Int] /\ SumFunction(k) = 0
  BY DEF Even
<1>2. /\ assets \in [Accounts -> Int] /\ expenses \in [Accounts -> Int]
      /\ liabilities \in [Accounts -> Int] /\ equity \in [Accounts -> Int]
      /\ revenue \in [Accounts -> Int]
  BY <1>1
<1>3. debits \in [Accounts -> Int] /\ others \in [Accounts -> Int] /\ credits \in [Accounts -> Int]
  BY <1>1
<1>4. k = [a \in Accounts |-> debits[a] - credits[a]]
  <2>1. ASSUME NEW a \in Accounts
        PROVE  k[a] = debits[a] - credits[a]
    <3>1. KindOf[a] \in {"Asset", "Liability", "Equity", "Revenue", "Expense"}
      BY AccountingAssumption DEF Kinds
    <3>2. accounts[a] \in Int
      BY <1>1
    <3> QED
      BY <3>1, <3>2 DEF Signed, DebitNormal
  <2>2. k = [a \in Accounts |-> k[a]]
    BY DEF Signed
  <2> HIDE DEF k, debits, credits
  <2> QED
    BY <2>1, <2>2
<1>5. /\ SheetTotal(accounts, "Asset") = SumFunction(assets)
      /\ SheetTotal(accounts, "Expense") = SumFunction(expenses)
      /\ SheetTotal(accounts, "Liability") = SumFunction(liabilities)
      /\ SheetTotal(accounts, "Equity") = SumFunction(equity)
      /\ SheetTotal(accounts, "Revenue") = SumFunction(revenue)
      /\ SheetTotal(accounts, "Asset") \in Int /\ SheetTotal(accounts, "Expense") \in Int
      /\ SheetTotal(accounts, "Liability") \in Int /\ SheetTotal(accounts, "Equity") \in Int
      /\ SheetTotal(accounts, "Revenue") \in Int
  BY <1>1, KindTotal
<1>6. IsFiniteSet(Accounts)
  BY ChartAssumption
<1>7. /\ debits = [a \in Accounts |-> assets[a] + expenses[a]]
      /\ others = [a \in Accounts |-> liabilities[a] + equity[a]]
      /\ credits = [a \in Accounts |-> others[a] + revenue[a]]
  OBVIOUS
<1> HIDE DEF part, assets, expenses, liabilities, equity, revenue, debits, others, credits, k
<1>8. SumFunction(debits) = SumFunction(assets) + SumFunction(expenses)
  BY <1>2, <1>6, <1>7, SumPlus
<1>9. SumFunction(others) = SumFunction(liabilities) + SumFunction(equity)
  BY <1>2, <1>6, <1>7, SumPlus
<1>10. SumFunction(credits) = SumFunction(others) + SumFunction(revenue)
  BY <1>2, <1>3, <1>6, <1>7, SumPlus
<1>11. SumFunction(k) = SumFunction(debits) - SumFunction(credits)
  BY <1>3, <1>4, <1>6, SumMinus
<1> QED
  BY <1>1, <1>5, <1>8, <1>9, <1>10, <1>11 DEF SheetBalanced, NetOfBalances

LEMMA SidesEven ==
  ASSUME NEW accounts, Even(accounts)
  PROVE  Side(accounts, TRUE) = Side(accounts, FALSE)
<1> DEFINE k == Signed(accounts)
           p == [a \in Accounts |-> Positive(IF DebitNormal(a) = TRUE THEN accounts[a] ELSE -accounts[a])]
           q == [a \in Accounts |-> Positive(IF DebitNormal(a) = FALSE THEN accounts[a] ELSE -accounts[a])]
<1>1. accounts \in [Accounts -> Int] /\ SumFunction(k) = 0 /\ IsFiniteSet(Accounts)
  BY ChartAssumption DEF Even
<1>2. ASSUME NEW a \in Accounts
      PROVE  p[a] \in Int /\ q[a] \in Int /\ k[a] = p[a] - q[a]
  <2>1. accounts[a] \in Int /\ DebitNormal(a) \in BOOLEAN
    BY <1>1 DEF DebitNormal
  <2>2. CASE DebitNormal(a)
    <3>1. /\ p[a] = Positive(accounts[a]) /\ q[a] = Positive(-accounts[a]) /\ k[a] = accounts[a]
      BY <2>1, <2>2 DEF Signed
    <3> HIDE DEF p, q, k
    <3> QED
      BY <2>1, <3>1 DEF Positive
  <2>3. CASE ~DebitNormal(a)
    <3>1. /\ p[a] = Positive(-accounts[a]) /\ q[a] = Positive(accounts[a]) /\ k[a] = 0 - accounts[a]
      BY <2>1, <2>3 DEF Signed
    <3> HIDE DEF p, q, k
    <3> QED
      BY <2>1, <3>1 DEF Positive
  <2> QED
    BY <2>2, <2>3
<1>3. p = [a \in Accounts |-> p[a]] /\ q = [a \in Accounts |-> q[a]] /\ k = [a \in Accounts |-> k[a]]
  BY DEF Signed
<1>4. Side(accounts, TRUE) = SumFunction(p) /\ Side(accounts, FALSE) = SumFunction(q)
  BY DEF Side, TotalOf
<1> HIDE DEF p, q, k
<1>5. p \in [Accounts -> Int] /\ q \in [Accounts -> Int] /\ k = [a \in Accounts |-> p[a] - q[a]]
  BY <1>2, <1>3
<1>6. SumFunction(k) = SumFunction(p) - SumFunction(q)
  BY <1>1, <1>5, SumMinus
<1>7. SumFunction(p) \in Int /\ SumFunction(q) \in Int
  BY <1>1, <1>5, SumSplit
<1>8. SumFunction(p) = SumFunction(q)
  BY <1>1, <1>6, <1>7
<1> QED
  BY <1>4, <1>8, Zenon

-----------------------------------------------------------------------------
(* The cash that transactions move is the net change of a cash flow          *)
(* statement over them.                                                     *)

LEMMA NoChange ==
  ASSUME NEW S \in SUBSET Txns, IsFiniteSet(S), NEW a, \A t \in S : a \notin Mentioned(t)
  PROVE  ChangeIn(S, a) = 0
<1>1. [t \in S |-> Change(t, a)] = [t \in S |-> 0]
  BY DEF Change
<1>2. ChangeIn(S, a) = SumFunction([t \in S |-> Change(t, a)])
  BY DEF ChangeIn, TotalOf
<1> QED
  BY <1>1, <1>2, SumZero

\* The accounts of a kind that are listed, where no other moves.
LEMMA ListedTotal ==
  ASSUME NEW S \in SUBSET Txns, IsFiniteSet(S), AllListed(S), NEW kind, NEW names,
         kind \notin {"Revenue", "Expense"},
         \A a \in Accounts : (KindOf[a] = kind /\ Listed(a)) <=> a \in names
  PROVE  SheetTotal([a \in Accounts |-> ChangeIn(S, a)], kind)
           = SumFunction([a \in names \cap Accounts |-> ChangeIn(S, a)])
<1> DEFINE c == [a \in Accounts |-> ChangeIn(S, a)]
           f == [a \in Accounts |-> IF KindOf[a] = kind THEN c[a] ELSE 0]
           T == names \cap Accounts
<1>1. c \in [Accounts -> Int]
  BY ChangeInInt
<1>2. f \in [Accounts -> Int] /\ T \in SUBSET Accounts /\ IsFiniteSet(Accounts)
  BY <1>1, ChartAssumption
<1>3. ASSUME NEW a \in Accounts \ T
      PROVE  f[a] = 0
  <2>1. CASE KindOf[a] # kind
    BY <2>1
  <2>2. CASE KindOf[a] = kind
    <3>1. ~Listed(a) /\ KindOf[a] \notin {"Revenue", "Expense"}
      BY <2>2
    <3>2. \A t \in S : a \notin Mentioned(t)
      BY <3>1 DEF AllListed
    <3>3. ChangeIn(S, a) = 0
      BY <3>2, NoChange
    <3> QED
      BY <3>3
  <2> QED
    BY <2>1, <2>2
<1>4. Restrict(f, T) = [a \in T |-> ChangeIn(S, a)]
  BY DEF Restrict
<1>5. SheetTotal(c, kind) = SumFunction(f)
  <2> HIDE DEF c
  <2> QED
    BY <1>1, KindTotal
<1> HIDE DEF c, f, T
<1>6. SumFunction(f) = SumFunction(Restrict(f, T))
  BY <1>2, <1>3, SumZeros
<1> QED
  BY <1>4, <1>5, <1>6 DEF c, T

\* Names without an account move nothing.
LEMMA MovedTotal ==
  ASSUME NEW S \in SUBSET Txns, IsFiniteSet(S), NEW names, IsFiniteSet(names)
  PROVE  /\ SumFunction([a \in names \cap Accounts |-> ChangeIn(S, a)])
              = SumFunction([a \in names |-> Moved(S, a)])
         /\ [a \in names |-> Moved(S, a)] \in [names -> Int]
<1> DEFINE g == [a \in names |-> Moved(S, a)]
           T == names \cap Accounts
<1>1. g \in [names -> Int] /\ T \in SUBSET names /\ \A a \in names \ T : g[a] = 0
  BY ChangeInInt DEF Moved
<1>2. Restrict(g, T) = [a \in T |-> ChangeIn(S, a)]
  BY DEF Restrict, Moved
<1> HIDE DEF g, T
<1>3. SumFunction(g) = SumFunction(Restrict(g, T))
  BY <1>1, SumZeros
<1> QED
  BY <1>1, <1>2, <1>3 DEF g, T

\* The net income of transactions is that of the balances they leave.
LEMMA NetIs ==
  ASSUME NEW S \in SUBSET Txns, IsFiniteSet(S)
  PROVE  /\ NetOfBalances([a \in Accounts |-> ChangeIn(S, a)]) = NetIncome(S)
         /\ NetIncome(S) \in Int
<1> DEFINE c == [a \in Accounts |-> ChangeIn(S, a)]
<1>1. ASSUME NEW kind
      PROVE  SheetTotal(c, kind) = SumFunction([a \in OfKind(kind) |-> IncomeLine(S, a)])
  <2>1. [a \in OfKind(kind) |-> c[a]] = [a \in OfKind(kind) |-> IncomeLine(S, a)]
    BY DEF OfKind, IncomeLine
  <2> HIDE DEF c
  <2> QED
    BY <2>1 DEF SheetTotal, TotalOf
<1>2. c \in [Accounts -> Int]
  BY ChangeInInt
<1> HIDE DEF c
<1>3. SheetTotal(c, "Revenue") \in Int /\ SheetTotal(c, "Expense") \in Int
  BY <1>2, KindTotal
<1>4. NetOfBalances(c) = NetIncome(S)
  BY <1>1 DEF NetOfBalances, NetIncome, TotalOf
<1> QED
  BY <1>3, <1>4 DEF NetOfBalances, c

LEMMA CashMoved ==
  ASSUME NEW S \in SUBSET Txns, IsFiniteSet(S), \A t \in S : IsBalanced(t),
         AllListed(S), Undepreciated(S)
  PROVE  ChangeIn(S, "1000") = NetChange(S) /\ NetChange(S) \in Int
<1> DEFINE c == [a \in Accounts |-> ChangeIn(S, a)]
           debtNames == {"2000", "2010", "2020"}
           ownNames == {"3000"}
           laterNames == {"1030", "1040", "1050"}
           assetNames == (laterNames \cup {"1020"}) \cup {"1000"}
           moved(names) == [a \in names |-> Moved(S, a)]
<1>1. SheetBalanced(c) /\ c \in [Accounts -> Int]
  <2>1. Even(c)
    BY ChangeInEven
  <2> QED
    BY <2>1, SheetEven DEF Even
<1>2. \A a : Moved(S, a) \in Int
  BY ChangeInInt DEF Moved
<1>3. SheetTotal(c, "Asset") = SumFunction(moved(assetNames))
  <2>1. \A a \in Accounts : (KindOf[a] = "Asset" /\ Listed(a)) <=> a \in assetNames
    BY ChartAssumption DEF Listed, KindListed
  <2>2. SheetTotal(c, "Asset") = SumFunction([a \in assetNames \cap Accounts |-> ChangeIn(S, a)])
    <3> HIDE DEF assetNames
    <3> QED
      BY <2>1, ListedTotal
  <2>3. IsFiniteSet(assetNames)
    <3>1. IsFiniteSet(laterNames \cup {"1020"})
      BY FewAreFinite, FS_AddElement
    <3> HIDE DEF laterNames
    <3> QED
      BY <3>1, FS_AddElement
  <2> HIDE DEF assetNames
  <2> QED
    BY <2>2, <2>3, MovedTotal
<1>4. SumFunction(moved(assetNames))
        = Moved(S, "1000") + Moved(S, "1020") + Moved(S, "1030") + Moved(S, "1040") + Moved(S, "1050")
  <2> DEFINE fewer == laterNames \cup {"1020"}
             f == moved(assetNames)
             g == moved(fewer)
             h == moved(laterNames)
  <2>1. IsFiniteSet(laterNames) /\ IsFiniteSet(fewer)
    BY FewAreFinite, FS_AddElement
  <2>2. f \in [fewer \cup {"1000"} -> Int] /\ g \in [laterNames \cup {"1020"} -> Int]
    BY <1>2
  <2>3. Restrict(f, fewer) = g /\ Restrict(g, laterNames) = h
    BY DEF Restrict
  <2>4. f["1000"] = Moved(S, "1000") /\ g["1020"] = Moved(S, "1020")
    OBVIOUS
  <2>5. "1000" \notin fewer /\ "1020" \notin laterNames
    OBVIOUS
  <2>6. SumFunction(h) = h["1030"] + h["1040"] + h["1050"]
    <3>1. h["1030"] \in Int /\ h["1040"] \in Int /\ h["1050"] \in Int
      BY <1>2
    <3>2. DOMAIN h = {"1030", "1040", "1050"}
      OBVIOUS
    <3> HIDE DEF h
    <3> QED
      BY <3>1, <3>2, ThreeEntries
  <2>7. h["1030"] = Moved(S, "1030") /\ h["1040"] = Moved(S, "1040") /\ h["1050"] = Moved(S, "1050")
    OBVIOUS
  <2> HIDE DEF fewer, f, g, h, laterNames, moved
  <2>8. SumFunction(f) = f["1000"] + SumFunction(g)
    BY <2>1, <2>2, <2>3, <2>5, SumMore
  <2>9. SumFunction(g) = g["1020"] + SumFunction(h)
    BY <2>1, <2>2, <2>3, <2>5, SumMore
  <2>10. SumFunction(f)
           = Moved(S, "1000") + (Moved(S, "1020") + (Moved(S, "1030") + Moved(S, "1040") + Moved(S, "1050")))
    BY <2>4, <2>6, <2>7, <2>8, <2>9
  <2> QED
    BY <1>2, <2>10 DEF f
<1>5. SheetTotal(c, "Liability") = Moved(S, "2000") + Moved(S, "2010") + Moved(S, "2020")
  <2>1. \A a \in Accounts : (KindOf[a] = "Liability" /\ Listed(a)) <=> a \in debtNames
    BY ChartAssumption DEF Listed, KindListed
  <2>2. SheetTotal(c, "Liability") = SumFunction([a \in debtNames \cap Accounts |-> ChangeIn(S, a)])
    <3> HIDE DEF debtNames
    <3> QED
      BY <2>1, ListedTotal
  <2>3. IsFiniteSet(debtNames)
    BY FewAreFinite
  <2>4. SheetTotal(c, "Liability") = SumFunction(moved(debtNames))
    <3> HIDE DEF debtNames
    <3> QED
      BY <2>2, <2>3, MovedTotal
  <2> DEFINE h == moved(debtNames)
  <2>5. /\ DOMAIN h = {"2000", "2010", "2020"}
        /\ h["2000"] = Moved(S, "2000") /\ h["2010"] = Moved(S, "2010") /\ h["2020"] = Moved(S, "2020")
    OBVIOUS
  <2> HIDE DEF h
  <2>6. SumFunction(h) = h["2000"] + h["2010"] + h["2020"]
    BY <1>2, <2>5, ThreeEntries
  <2> QED
    BY <2>4, <2>5, <2>6 DEF h
<1>6. SheetTotal(c, "Equity") = Moved(S, "3000")
  <2>1. \A a \in Accounts : (KindOf[a] = "Equity" /\ Listed(a)) <=> a \in ownNames
    BY ChartAssumption DEF Listed, KindListed
  <2>2. SheetTotal(c, "Equity") = SumFunction([a \in ownNames \cap Accounts |-> ChangeIn(S, a)])
    <3> HIDE DEF ownNames
    <3> QED
      BY <2>1, ListedTotal
  <2>3. IsFiniteSet(ownNames)
    BY FS_Singleton
  <2>4. SheetTotal(c, "Equity") = SumFunction(moved(ownNames))
    <3> HIDE DEF ownNames
    <3> QED
      BY <2>2, <2>3, MovedTotal
  <2> DEFINE h == moved(ownNames)
             none == {}
  <2>5. h \in [none \cup {"3000"} -> Int] /\ h["3000"] = Moved(S, "3000")
    BY <1>2
  <2>6. IsFiniteSet(none) /\ "3000" \notin none /\ Restrict(h, none) \in [none -> Int]
    BY FS_EmptySet DEF Restrict
  <2> HIDE DEF h
  <2>7. SumFunction(Restrict(h, none)) = 0
    BY <2>6, SumNone
  <2> HIDE DEF none
  <2>8. SumFunction(h) = h["3000"] + SumFunction(Restrict(h, none))
    BY <2>5, <2>6, SumMore
  <2> QED
    BY <1>2, <2>4, <2>5, <2>7, <2>8 DEF h
<1>7. NetOfBalances(c) = NetIncome(S) /\ NetIncome(S) \in Int
  BY NetIs
<1>8. Moved(S, "1050") = 0
  <2>1. ChangeIn(S, "1050") = 0
    BY NoChange DEF Undepreciated
  <2> QED
    BY <2>1 DEF Moved
<1>9. ChangeIn(S, "1000") = Moved(S, "1000")
  BY ChartAssumption DEF Moved
<1> HIDE DEF c, debtNames, ownNames, laterNames, assetNames, moved
<1>10. Moved(S, "1000") + Moved(S, "1020") + Moved(S, "1030") + Moved(S, "1040") + Moved(S, "1050")
         = Moved(S, "2000") + Moved(S, "2010") + Moved(S, "2020") + Moved(S, "3000") + NetIncome(S)
  BY <1>1, <1>3, <1>4, <1>5, <1>6, <1>7 DEF SheetBalanced
<1>11. NetChange(S) = NetIncome(S) - Moved(S, "1020") - Moved(S, "1030") + Moved(S, "2000")
         + Moved(S, "2020") + Moved(S, "1050") - Moved(S, "1040") + (Moved(S, "2010") + Moved(S, "3000"))
  BY <1>2, <1>7 DEF NetChange, Operating, Investing, Financing
<1>12. /\ Moved(S, "1000") \in Int /\ Moved(S, "1020") \in Int /\ Moved(S, "1030") \in Int
       /\ Moved(S, "1040") \in Int /\ Moved(S, "2000") \in Int /\ Moved(S, "2010") \in Int
       /\ Moved(S, "2020") \in Int /\ Moved(S, "3000") \in Int
  BY <1>2
<1>13. NetIncome(S) \in Int
  BY <1>7
<1> QED
  BY <1>8, <1>9, <1>10, <1>11, <1>12, <1>13

-----------------------------------------------------------------------------
(* What the aging lists is what invoices and payments leave receivable.      *)

LEMMA DebitsAre ==
  ASSUME NEW t \in Txns
  PROVE  DebitsOf(t) \in Int
<1>1. IsFiniteSet(Mentioned(t)) /\ [a \in Mentioned(t) |-> Entries[t][a].debit] \in [Mentioned(t) -> Int]
  BY ChangesAre
<1>2. DebitsOf(t) = SumFunction([a \in Mentioned(t) |-> Entries[t][a].debit])
  BY DEF DebitsOf, TotalOf
<1> QED
  BY <1>1, <1>2, SumSplit

\* What remains of an invoice is what it is for, less what was paid.
LEMMA RemainingIs ==
  ASSUME NEW txns \in SUBSET Txns, NoneOverpaid(txns), NEW S \in SUBSET txns, IsFiniteSet(S),
         NEW i \in S, TypeOf[i] = "Invoice"
  PROVE  LET received == SumFunction([t \in PaymentsOf(S, i) |-> DebitsOf(t)])
         IN Remaining(S, i) = DebitsOf(i) - received /\ received \in Int
<1> DEFINE P == PaymentsOf(S, i)
           received == SumFunction([t \in P |-> DebitsOf(t)])
<1>1. P \in SUBSET PaymentsOf(txns, i) /\ P \in SUBSET S /\ P \in SUBSET Txns
  BY DEF PaymentsOf
<1>2. IsFiniteSet(P)
  BY <1>1, FS_Subset
<1>3. [t \in P |-> DebitsOf(t)] \in [P -> Int]
  BY <1>1, DebitsAre
<1> HIDE DEF P
<1>4. received \in Int
  BY <1>2, <1>3, SumSplit
<1>5. received = TotalOf(LAMBDA t : DebitsOf(t), P)
  BY DEF TotalOf
<1>6. received <= DebitsOf(i)
  BY <1>1, <1>2, <1>5 DEF NoneOverpaid
<1>7. DebitsOf(i) \in Int
  BY DebitsAre
<1>8. Remaining(S, i) = Positive(DebitsOf(i) - received)
  BY <1>5 DEF Remaining, P
<1> HIDE DEF received
<1>9. Positive(DebitsOf(i) - received) = DebitsOf(i) - received
  BY <1>4, <1>6, <1>7 DEF Positive
<1> QED
  BY <1>4, <1>8, <1>9 DEF received, P

\* Each invoice lies in one bucket.
LEMMA OutstandingIs ==
  ASSUME NEW S, IsFiniteSet(S), NEW asOf, \A i \in S : Remaining(S, i) \in Int
  PROVE  LET I == {i \in S : TypeOf[i] = "Invoice"}
         IN Outstanding(S, asOf) = SumFunction([i \in I |-> Remaining(S, i)])
<1> DEFINE I == {i \in S : TypeOf[i] = "Invoice"}
           f == [i \in I |-> Remaining(S, i)]
           group == [i \in I |-> Bucket(Age(i, asOf))]
           K == AgeBuckets
<1>1. IsFiniteSet(I)
  BY FS_Subset
<1>2. IsFiniteSet(K)
  <2>1. IsFiniteSet({"0-30", "31-60", "61-90"} \cup {"90+"})
    BY FewAreFinite, FS_AddElement
  <2>2. AgeBuckets = {"0-30", "31-60", "61-90"} \cup {"90+"}
    BY DEF AgeBuckets
  <2> QED
    BY <2>1, <2>2
<1>3. f \in [I -> Int] /\ group \in [I -> K]
  BY DEF Bucket, AgeBuckets
<1>4. ASSUME NEW b \in K
      PROVE  InBucket(S, asOf, b) = SumFunction([x \in {y \in I : group[y] = b} |-> f[x]])
  <2> DEFINE T == {i \in S : TypeOf[i] = "Invoice" /\ Bucket(Age(i, asOf)) = b}
  <2>1. T = {y \in I : group[y] = b}
    OBVIOUS
  <2>2. [x \in T |-> Remaining(S, x)] = [x \in T |-> f[x]]
    OBVIOUS
  <2>3. InBucket(S, asOf, b) = SumFunction([x \in T |-> Remaining(S, x)])
    BY DEF InBucket, TotalOf
  <2> HIDE DEF T, f, group, I
  <2> QED
    BY <2>1, <2>2, <2>3
<1>5. [b \in K |-> InBucket(S, asOf, b)]
        = [k \in K |-> SumFunction([x \in {y \in I : group[y] = k} |-> f[x]])]
  <2> HIDE DEF f, group, I, K
  <2> QED
    BY <1>4
<1>6. Outstanding(S, asOf) = SumFunction([b \in K |-> InBucket(S, asOf, b)])
  BY DEF Outstanding, TotalOf
<1> HIDE DEF f, group, I, K
<1>7. /\ \A k \in K : SumFunction([x \in {y \in I : group[y] = k} |-> f[x]]) \in Int
      /\ SumFunction([k \in K |-> SumFunction([x \in {y \in I : group[y] = k} |-> f[x]])])
           = SumFunction(f)
  BY <1>1, <1>2, <1>3, SumGroups
<1>8. Outstanding(S, asOf) = SumFunction(f)
  BY <1>5, <1>6, <1>7
<1> QED
  BY <1>8 DEF f, I

LEMMA AgingTotal ==
  ASSUME NEW txns \in SUBSET Txns, AllMarked(txns), NoneOverpaid(txns),
         NEW S \in SUBSET txns, IsFiniteSet(S),
         \A t \in S : InvoiceIn[t] \in S \cup {NoInvoice},
         NEW asOf
  PROVE  Outstanding(S, asOf) = ChangeIn(S, "1020")
<1> DEFINE I == {i \in S : TypeOf[i] = "Invoice"}
           P == {t \in S : TypeOf[t] = "Payment"}
           due == [i \in I |-> DebitsOf(i)]
           received == [t \in P |-> DebitsOf(t)]
           invoice == [t \in P |-> InvoiceIn[t]]
           paidOf == [i \in I |-> SumFunction([t \in {u \in P : invoice[u] = i} |-> received[t]])]
           left == [i \in I |-> Remaining(S, i)]
           in == [t \in S |-> IF TypeOf[t] = "Invoice" THEN DebitsOf(t) ELSE 0]
           out == [t \in S |-> IF TypeOf[t] = "Payment" THEN DebitsOf(t) ELSE 0]
           change == [t \in S |-> Change(t, "1020")]
<1>1. /\ IsFiniteSet(I) /\ IsFiniteSet(P) /\ S \in SUBSET Txns
      /\ I \in SUBSET S /\ P \in SUBSET S
  BY FS_Subset
<1>2. \A t \in S : DebitsOf(t) \in Int
  BY <1>1, DebitsAre
<1>3. /\ due \in [I -> Int] /\ received \in [P -> Int] /\ in \in [S -> Int] /\ out \in [S -> Int]
  BY <1>1, <1>2
<1>4. invoice \in [P -> I]
  <2>1. ASSUME NEW t \in P
        PROVE  InvoiceIn[t] \in I
    <3>1. InvoiceIn[t] \in txns /\ TypeOf[InvoiceIn[t]] = "Invoice"
      BY DEF AllMarked
    <3>2. InvoiceIn[t] \in S
      BY <3>1, StatementsAssumption
    <3> QED
      BY <3>1, <3>2
  <2> QED
    BY <2>1
<1>5. ASSUME NEW i \in I
      PROVE  /\ left[i] = due[i] - paidOf[i] /\ paidOf[i] \in Int
             /\ left[i] = Remaining(S, i)
  <2>1. PaymentsOf(S, i) = {u \in P : invoice[u] = i}
    BY DEF PaymentsOf
  <2>2. [t \in PaymentsOf(S, i) |-> DebitsOf(t)] = [t \in {u \in P : invoice[u] = i} |-> received[t]]
    BY <2>1
  <2>3. /\ Remaining(S, i) = DebitsOf(i) - SumFunction([t \in PaymentsOf(S, i) |-> DebitsOf(t)])
        /\ SumFunction([t \in PaymentsOf(S, i) |-> DebitsOf(t)]) \in Int
    BY RemainingIs
  <2>4. paidOf[i] = SumFunction([t \in PaymentsOf(S, i) |-> DebitsOf(t)])
    BY <2>2
  <2>5. left[i] = Remaining(S, i) /\ due[i] = DebitsOf(i)
    OBVIOUS
  <2> QED
    BY <2>3, <2>4, <2>5
<1>6. Outstanding(S, asOf) = SumFunction(left)
  <2>1. \A i \in S : Remaining(S, i) \in Int
    <3> SUFFICES ASSUME NEW i \in S
                 PROVE  Remaining(S, i) \in Int
      OBVIOUS
    <3> DEFINE q == SumFunction([t \in PaymentsOf(S, i) |-> DebitsOf(t)])
    <3>1. PaymentsOf(S, i) \in SUBSET S
      BY DEF PaymentsOf
    <3>2. IsFiniteSet(PaymentsOf(S, i)) /\ [t \in PaymentsOf(S, i) |-> DebitsOf(t)] \in [PaymentsOf(S, i) -> Int]
      BY <1>2, <3>1, FS_Subset
    <3>3. q \in Int
      BY <3>2, SumSplit
    <3>4. Remaining(S, i) = Positive(DebitsOf(i) - q)
      BY DEF Remaining, TotalOf
    <3> HIDE DEF q
    <3> QED
      BY <1>2, <3>3, <3>4 DEF Positive
  <2> QED
    BY <2>1, OutstandingIs
<1>7. /\ \A t \in S \ I : in[t] = 0
      /\ \A t \in S \ P : out[t] = 0
      /\ Restrict(in, I) = due /\ Restrict(out, P) = received
  BY DEF Restrict
<1>8. ASSUME NEW t \in S
      PROVE  change[t] = in[t] - out[t]
  <2>1. DebitsOf(t) \in Int /\ t \in txns
    BY <1>2
  <2>2. CASE TypeOf[t] = "Invoice"
    <3>1. in[t] = DebitsOf(t) /\ out[t] = 0 /\ change[t] = DebitsOf(t)
      BY <2>1, <2>2 DEF AllMarked
    <3> HIDE DEF in, out, change
    <3> QED
      BY <2>1, <3>1
  <2>3. CASE TypeOf[t] = "Payment"
    <3>1. in[t] = 0 /\ out[t] = DebitsOf(t) /\ change[t] = -DebitsOf(t)
      BY <2>1, <2>3 DEF AllMarked
    <3> HIDE DEF in, out, change
    <3> QED
      BY <2>1, <3>1
  <2>4. CASE TypeOf[t] \notin {"Invoice", "Payment"}
    <3>1. in[t] = 0 /\ out[t] = 0
      BY <2>4
    <3>2. change[t] = 0
      <4>1. Change(t, "1020") = 0
        BY <2>1, <2>4 DEF AllMarked
      <4> QED
        BY <4>1
    <3> HIDE DEF in, out, change
    <3> QED
      BY <3>1, <3>2
  <2> QED
    BY <2>2, <2>3, <2>4
<1>9. ChangeIn(S, "1020") = SumFunction(change) /\ change = [t \in S |-> change[t]]
  BY DEF ChangeIn, TotalOf
<1>10. left = [i \in I |-> left[i]] /\ paidOf = [i \in I |-> paidOf[i]]
  OBVIOUS
<1> DEFINE of == [i \in I |-> {t \in P : invoice[t] = i}]
<1>11. /\ of \in [I -> SUBSET P] /\ \A i \in I : \A t \in P : t \in of[i] <=> invoice[t] = i
       /\ \A i \in I : paidOf[i] = SumFunction(Restrict(received, of[i]))
  BY DEF Restrict
<1> HIDE DEF I, P, due, received, invoice, of, paidOf, left, in, out, change
<1>13. paidOf \in [I -> Int] /\ left = [i \in I |-> due[i] - paidOf[i]]
  BY <1>5, <1>10
<1>12. SumFunction(paidOf) = SumFunction(received)
  BY <1>1, <1>3, <1>4, <1>11, <1>13, SumGrouped
<1>14. SumFunction(left) = SumFunction(due) - SumFunction(paidOf)
  BY <1>1, <1>3, <1>13, SumMinus
<1>15. change = [t \in S |-> in[t] - out[t]]
  BY <1>8, <1>9
<1>16. SumFunction(change) = SumFunction(in) - SumFunction(out)
  BY <1>3, <1>15, SumMinus
<1>17. SumFunction(in) = SumFunction(Restrict(in, I))
  BY <1>1, <1>3, <1>7, SumZeros
<1>18. SumFunction(out) = SumFunction(Restrict(out, P))
  BY <1>1, <1>3, <1>7, SumZeros
<1> QED
  BY <1>6, <1>7, <1>9, <1>12, <1>14, <1>16, <1>17, <1>18

-----------------------------------------------------------------------------
(* Budgets that do not overlap count what an account moved once.             *)
LEMMA VarianceOnce ==
  ASSUME NEW some \in SUBSET Budgets, IsFiniteSet(some), NoneOverlap(some),
         NEW S \in SUBSET Txns, IsFiniteSet(S), NEW p \in Periods
  PROVE  LET over == {b \in some : Overlaps(b, p)}
         IN SumFunction([b \in over |-> ChangeIn(S, b.account)])
              = SumFunction([a \in {b.account : b \in over} |-> ChangeIn(S, a)])
<1> DEFINE over == {b \in some : Overlaps(b, p)}
           f == [a \in Accounts |-> ChangeIn(S, a)]
           name == [b \in over |-> b.account]
           names == {name[b] : b \in over}
<1>1. IsFiniteSet(over) /\ f \in [Accounts -> Int]
  BY FS_Subset, ChangeInInt
<1>2. name \in [over -> Accounts]
  BY StatementsAssumption
<1>3. \A x, y \in over : name[x] = name[y] => x = y
  BY DEF NoneOverlap
<1>4. [b \in over |-> f[name[b]]] = [b \in over |-> ChangeIn(S, b.account)]
  BY <1>2
<1>5. names = {b.account : b \in over} /\ names \subseteq Accounts
  BY <1>2
<1>6. [a \in names |-> f[a]] = [a \in {b.account : b \in over} |-> ChangeIn(S, a)]
  <2> HIDE DEF over, name, names
  <2> QED
    BY <1>5
<1> HIDE DEF over, f, name
<1>7. SumFunction([b \in over |-> f[name[b]]]) = SumFunction([a \in names |-> f[a]])
  BY <1>1, <1>2, <1>3, SumNames
<1> QED
  BY <1>4, <1>6, <1>7 DEF over

-----------------------------------------------------------------------------
(* The books and the reports made of them.                                  *)

(* The balances are what the transactions leave, the one that is being      *)
(* posted included.                                                         *)
BooksInv ==
  /\ mix \in Mixes
  /\ IsFiniteSet(stored) /\ stored \subseteq mix.txns
  /\ posting = {} \/ \E t \in mix.txns \ stored : posting = {t}
  /\ \A t \in stored \cup posting : IsBalanced(t) /\ InvoiceIn[t] \in stored \cup {NoInvoice}
  /\ balance = [a \in Accounts |-> ChangeIn(stored \cup posting, a)]
  /\ IsFiniteSet(budgets) /\ budgets \subseteq mix.budgets

ReportRecord ==
  [kind : ReportKinds, at : {"none", "accounts", "transactions", "done"}, period : Periods,
   accounts : [Accounts -> Int], seen : SUBSET Txns, cash : Int, control : Int, calm : BOOLEAN]

(* While nothing is posted, what a report has read is what there is.        *)
ReadInv ==
  /\ report \in ReportRecord
  /\ Even(report.accounts)
  /\ report.seen \subseteq stored
  /\ (report.calm /\ report.at \in {"accounts", "transactions"}) => posting = {}
  /\ (report.calm /\ report.at = "accounts" /\ report.kind # "aging") =>
       report.accounts = [a \in Accounts |-> ChangeIn(stored, a)]
  /\ report.at = "transactions" => report.kind = "cash flow"
  /\ (report.calm /\ report.at = "transactions") =>
       /\ report.seen = Within(report.period)
       /\ report.control = Moved({t \in stored : DayOf[t] < report.period.from}, "1000")

StatementInv ==
  /\ BooksInv /\ ReadInv
  /\ IncomeAgrees /\ CashExplained /\ AgingAgrees

\* A finite set of transactions, all balanced.
LEMMA BooksAre ==
  ASSUME BooksInv
  PROVE  /\ mix.txns \subseteq Txns /\ stored \in SUBSET Txns
         /\ stored \cup posting \in SUBSET Txns /\ IsFiniteSet(stored \cup posting)
         /\ posting \cap stored = {}
         /\ balance \in [Accounts -> Int] /\ Even(balance)
<1>1. mix.txns \subseteq Txns
  BY ReportsAssumption DEF BooksInv
<1>2. stored \in SUBSET Txns /\ stored \cup posting \in SUBSET Txns /\ posting \cap stored = {}
  BY <1>1 DEF BooksInv
<1>3. IsFiniteSet(stored \cup posting)
  <2>1. CASE posting = {}
    BY <2>1 DEF BooksInv
  <2>2. CASE posting # {}
    <3>1. PICK t : posting = {t}
      BY <2>2 DEF BooksInv
    <3> QED
      BY <3>1, FS_AddElement DEF BooksInv
  <2> QED
    BY <2>1, <2>2
<1> DEFINE S == stored \cup posting
<1>4. \A t \in S : IsBalanced(t)
  BY DEF BooksInv
<1>5. balance = [a \in Accounts |-> ChangeIn(S, a)]
  BY DEF BooksInv
<1> HIDE DEF S
<1>6. Even(balance)
  BY <1>2, <1>3, <1>4, <1>5, ChangeInEven DEF S
<1> QED
  BY <1>1, <1>2, <1>3, <1>6 DEF Even, S

LEMMA StatementsAtFirst ==
  ASSUME MixInit, StatementsInit
  PROVE  StatementInv
<1>1. /\ balance = [a \in Accounts |-> 0] /\ stored = {} /\ posting = {} /\ budgets = {}
      /\ report = NoReport /\ mix \in Mixes
  BY DEF StatementsInit, MixInit
<1>2. BooksInv
  <2>1. balance = [a \in Accounts |-> ChangeIn({}, a)]
    BY <1>1, ChangeInNone
  <2>2. stored \cup posting = {}
    BY <1>1
  <2> QED
    BY <1>1, <2>1, <2>2, FS_EmptySet DEF BooksInv
<1>3. AnyPeriod \in Periods
  BY StatementsAssumption DEF AnyPeriod
<1>4. /\ report.kind = "sheet" /\ report.at = "none" /\ report.seen = {}
      /\ report.accounts = [a \in Accounts |-> 0] /\ report \in ReportRecord
  BY <1>1, <1>3 DEF NoReport, ReportRecord, ReportKinds
<1>5. ReadInv
  BY <1>4, EvenZero DEF ReadInv
<1>6. IncomeAgrees /\ CashExplained /\ AgingAgrees
  BY <1>4 DEF IncomeAgrees, CashExplained, AgingAgrees, Done
<1> QED
  BY <1>2, <1>5, <1>6 DEF StatementInv

\* A report that is disturbed is not calm any more, unless it is done.
LEMMA DisturbedIs ==
  ASSUME report \in ReportRecord, report' = Disturbed(report)
  PROVE  /\ report' \in ReportRecord
         /\ report'.kind = report.kind /\ report'.at = report.at
         /\ report'.period = report.period /\ report'.accounts = report.accounts
         /\ report'.seen = report.seen /\ report'.cash = report.cash
         /\ report'.control = report.control
         /\ report'.calm => report.calm /\ report.at \in {"none", "done"}
<1>1. (report.calm /\ report.at \in {"none", "done"}) \in BOOLEAN
  OBVIOUS
<1> DEFINE c == report.calm /\ report.at \in {"none", "done"}
<1>2. c \in BOOLEAN /\ report' = [report EXCEPT !.calm = c]
  BY DEF Disturbed
<1>3. c => report.calm /\ report.at \in {"none", "done"}
  OBVIOUS
<1> HIDE DEF c
<1>4. report'.calm = c
  BY <1>2 DEF ReportRecord
<1>5. report' \in ReportRecord
  BY <1>2 DEF ReportRecord
<1>6. /\ report'.kind = report.kind /\ report'.at = report.at
      /\ report'.period = report.period /\ report'.accounts = report.accounts
      /\ report'.seen = report.seen /\ report'.cash = report.cash
      /\ report'.control = report.control
  BY <1>2 DEF ReportRecord
<1> QED
  BY <1>3, <1>4, <1>5, <1>6, Zenon

\* What is said of a report that is done stays true while it is not made anew.
LEMMA DoneStays ==
  ASSUME StatementInv, report' = Disturbed(report), mix' = mix,
         \/ stored' = stored
         \/ ~(stored' \subseteq stored) /\ stored \subseteq stored'
  PROVE  IncomeAgrees' /\ CashExplained' /\ AgingAgrees'
<1>1. report \in ReportRecord /\ report.seen \subseteq stored
  BY DEF StatementInv, ReadInv
<1>2. /\ report'.kind = report.kind /\ report'.at = report.at
      /\ report'.period = report.period /\ report'.accounts = report.accounts
      /\ report'.seen = report.seen /\ report'.cash = report.cash
      /\ report'.control = report.control
      /\ report'.calm => report.calm /\ report.at \in {"none", "done"}
  BY <1>1, DisturbedIs
<1>3. IncomeAgrees'
  <2> SUFFICES ASSUME Done("income")', report'.calm, report'.seen = stored'
               PROVE  NetIncome(report'.seen) = NetOfBalances(report'.accounts)
    BY DEF IncomeAgrees
  <2>1. Done("income") /\ report.calm
    BY <1>2 DEF Done
  <2>2. report.seen = stored
    BY <1>1, <1>2
  <2>3. NetIncome(report.seen) = NetOfBalances(report.accounts)
    BY <2>1, <2>2 DEF StatementInv, IncomeAgrees
  <2> QED
    BY <1>2, <2>3
<1>4. CashExplained'
  <2> SUFFICES ASSUME Done("cash flow")', Safe({"depreciation", "unlisted", "later"})', report'.calm
               PROVE  BeginningCash(report') = report'.control
    BY DEF CashExplained
  <2>1. Done("cash flow") /\ report.calm /\ Safe({"depreciation", "unlisted", "later"})
    BY <1>2 DEF Done, Safe
  <2>2. BeginningCash(report) = report.control
    BY <2>1 DEF StatementInv, CashExplained
  <2> QED
    BY <1>2, <2>2 DEF BeginningCash
<1>5. AgingAgrees'
  <2> SUFFICES ASSUME Done("aging")', report'.calm, Safe({"unmarked", "overpaid"})',
                      NEW asOf \in {p.to : p \in Periods}
               PROVE  Outstanding(report'.seen, asOf) = report'.control
    BY DEF AgingAgrees
  <2>1. Done("aging") /\ report.calm /\ Safe({"unmarked", "overpaid"})
    BY <1>2 DEF Done, Safe
  <2>2. Outstanding(report.seen, asOf) = report.control
    BY <2>1 DEF StatementInv, AgingAgrees
  <2> QED
    BY <1>2, <2>2
<1> QED
  BY <1>3, <1>4, <1>5

LEMMA BalancesPosted ==
  ASSUME StatementInv, NEW t \in Txns, PostBalances(t)
  PROVE  StatementInv'
<1>1. /\ t \in mix.txns \ stored /\ posting = {} /\ IsBalanced(t)
      /\ InvoiceIn[t] \in stored \cup {NoInvoice}
      /\ balance' = Posted(t) /\ posting' = {t} /\ report' = Disturbed(report)
      /\ mix' = mix /\ stored' = stored /\ budgets' = budgets
  BY DEF PostBalances
<1>2. BooksInv /\ ReadInv
  BY DEF StatementInv
<1>3. BooksInv'
  <2>1. \A u \in stored' \cup posting' : IsBalanced(u) /\ InvoiceIn[u] \in stored' \cup {NoInvoice}
    BY <1>1, <1>2 DEF BooksInv
  <2>2. balance' = [a \in Accounts |-> ChangeIn(stored' \cup posting', a)]
    <3>1. stored \in SUBSET Txns /\ IsFiniteSet(stored) /\ t \in Txns \ stored
      BY <1>1, <1>2, BooksAre DEF BooksInv
    <3>2. \A a : ChangeIn(stored \cup {t}, a) = ChangeIn(stored, a) + Change(t, a)
      BY <3>1, ChangeInGrows
    <3>3. \A a \in Accounts : balance[a] = ChangeIn(stored, a)
      <4>1. stored \cup posting = stored
        BY <1>1
      <4> QED
        BY <1>2, <4>1 DEF BooksInv
    <3> QED
      BY <1>1, <3>2, <3>3 DEF Posted
  <2>3. posting' = {} \/ \E u \in mix'.txns \ stored' : posting' = {u}
    BY <1>1
  <2> QED
    BY <1>1, <1>2, <2>1, <2>2, <2>3 DEF BooksInv
<1>4. /\ report' \in ReportRecord
      /\ report'.at = report.at /\ report'.accounts = report.accounts
      /\ report'.seen = report.seen /\ report'.kind = report.kind
      /\ report'.calm => report.at \in {"none", "done"}
  BY <1>1, <1>2, DisturbedIs DEF ReadInv
<1>5. ReadInv'
  BY <1>1, <1>2, <1>4 DEF ReadInv
<1> QED
  BY <1>1, <1>3, <1>5, DoneStays DEF StatementInv

LEMMA TransactionStored ==
  ASSUME StatementInv, StoreTransaction
  PROVE  StatementInv'
<1>1. /\ posting # {} /\ stored' = stored \cup posting /\ posting' = {}
      /\ report' = Disturbed(report)
      /\ mix' = mix /\ balance' = balance /\ budgets' = budgets
  BY DEF StoreTransaction
<1>2. BooksInv /\ ReadInv
  BY DEF StatementInv
<1>3. BooksInv'
  <2>1. stored' \cup posting' = stored \cup posting
    BY <1>1
  <2>2. IsFiniteSet(stored') /\ stored' \subseteq mix'.txns
    BY <1>1, <1>2, BooksAre DEF BooksInv
  <2>3. \A u \in stored' \cup posting' : IsBalanced(u) /\ InvoiceIn[u] \in stored' \cup {NoInvoice}
    BY <1>1, <1>2 DEF BooksInv
  <2>4. balance' = [a \in Accounts |-> ChangeIn(stored' \cup posting', a)]
    BY <1>1, <1>2, <2>1 DEF BooksInv
  <2> QED
    BY <1>1, <1>2, <2>2, <2>3, <2>4 DEF BooksInv
<1>4. /\ report' \in ReportRecord
      /\ report'.at = report.at /\ report'.accounts = report.accounts
      /\ report'.seen = report.seen /\ report'.kind = report.kind
      /\ report'.calm => report.at \in {"none", "done"}
  BY <1>1, <1>2, DisturbedIs DEF ReadInv
<1>5. ReadInv'
  BY <1>1, <1>2, <1>4 DEF ReadInv
<1>6. ~(stored' \subseteq stored) /\ stored \subseteq stored'
  BY <1>1, <1>2, BooksAre
<1> QED
  BY <1>1, <1>3, <1>5, <1>6, DoneStays DEF StatementInv

LEMMA BudgetAdded ==
  ASSUME StatementInv, NEW b \in Budgets, AddBudget(b)
  PROVE  StatementInv'
<1>1. /\ b \in mix.budgets /\ budgets' = budgets \cup {b} /\ report' = NoReport
      /\ mix' = mix /\ balance' = balance /\ stored' = stored /\ posting' = posting
  BY DEF AddBudget
<1>2. BooksInv
  BY DEF StatementInv
<1>3. BooksInv'
  <2>1. IsFiniteSet(budgets') /\ budgets' \subseteq mix'.budgets
    BY <1>1, <1>2, FS_AddElement DEF BooksInv
  <2> QED
    BY <1>1, <1>2, <2>1 DEF BooksInv
<1>4. AnyPeriod \in Periods
  BY StatementsAssumption DEF AnyPeriod
<1>5. /\ report'.kind = "sheet" /\ report'.at = "none" /\ report'.seen = {}
      /\ report'.accounts = [a \in Accounts |-> 0] /\ report' \in ReportRecord
  BY <1>1, <1>4 DEF NoReport, ReportRecord, ReportKinds
<1>6. ReadInv'
  BY <1>5, EvenZero DEF ReadInv
<1>7. IncomeAgrees' /\ CashExplained' /\ AgingAgrees'
  BY <1>5 DEF IncomeAgrees, CashExplained, AgingAgrees, Done
<1> QED
  BY <1>3, <1>6, <1>7 DEF StatementInv

LEMMA AccountsRead ==
  ASSUME StatementInv, NEW kind \in ReportKinds, NEW p \in Periods, ReadAccounts(kind, p)
  PROVE  StatementInv'
<1>1. /\ report' =
           [kind |-> kind, at |-> IF kind = "sheet" THEN "done" ELSE "accounts", period |-> p,
            accounts |-> IF kind = "aging" THEN NoReport.accounts ELSE balance,
            seen |-> {}, cash |-> 0, control |-> 0, calm |-> posting = {}]
      /\ mix' = mix /\ balance' = balance /\ stored' = stored /\ posting' = posting
      /\ budgets' = budgets
  BY DEF ReadAccounts
<1>2. BooksInv
  BY DEF StatementInv
<1>3. BooksInv'
  BY <1>1, <1>2 DEF BooksInv
<1>4. Even(balance) /\ Even(NoReport.accounts)
  BY <1>2, BooksAre, EvenZero DEF NoReport
<1>5. /\ report'.kind = kind /\ report'.seen = {}
      /\ report'.at = IF kind = "sheet" THEN "done" ELSE "accounts"
      /\ report'.accounts = IF kind = "aging" THEN NoReport.accounts ELSE balance
      /\ report'.calm = (posting = {})
  BY <1>1
<1>6. report'.accounts \in [Accounts -> Int] /\ Even(report'.accounts)
  BY <1>4, <1>5 DEF Even
<1>7. report' \in ReportRecord
  <2> DEFINE at == IF kind = "sheet" THEN "done" ELSE "accounts"
             accounts == IF kind = "aging" THEN NoReport.accounts ELSE balance
             calm == posting = {}
  <2>1. calm \in BOOLEAN /\ at \in {"none", "accounts", "transactions", "done"}
        /\ accounts \in [Accounts -> Int]
    BY <1>5, <1>6
  <2>2. report' = [kind |-> kind, at |-> at, period |-> p, accounts |-> accounts,
                   seen |-> {}, cash |-> 0, control |-> 0, calm |-> calm]
    BY <1>1
  <2> HIDE DEF at, accounts, calm
  <2> QED
    BY <2>1, <2>2 DEF ReportRecord
<1>8. (kind # "aging" /\ posting = {}) => report'.accounts = [a \in Accounts |-> ChangeIn(stored, a)]
  <2>1. posting = {} => stored \cup posting = stored
    OBVIOUS
  <2> QED
    BY <1>2, <1>5, <2>1 DEF BooksInv
<1>9. ReadInv'
  BY <1>1, <1>5, <1>6, <1>7, <1>8 DEF ReadInv
<1>10. ~Done("income")' /\ ~Done("cash flow")' /\ ~Done("aging")'
  BY <1>5 DEF Done
<1> QED
  BY <1>3, <1>9, <1>10 DEF StatementInv, IncomeAgrees, CashExplained, AgingAgrees

\* What is read while nothing is posted agrees with what was read before.
LEMMA TransactionsRead ==
  ASSUME StatementInv, ReadTransactions
  PROVE  StatementInv'
<1> DEFINE before == {t \in stored : DayOf[t] < report.period.from}
           at == IF report.kind = "cash flow" THEN "transactions" ELSE "done"
           seen == IF report.kind = "aging" THEN stored ELSE Within(report.period)
           control == IF report.kind = "aging" THEN balance["1020"] ELSE Moved(before, "1000")
<1>1. /\ report.at = "accounts"
      /\ report' = [kind |-> report.kind, period |-> report.period, accounts |-> report.accounts,
                    at |-> at, seen |-> seen, control |-> control,
                    cash |-> report.cash, calm |-> report.calm]
      /\ mix' = mix /\ balance' = balance /\ stored' = stored /\ posting' = posting
      /\ budgets' = budgets
  BY DEF ReadTransactions
<1>2. BooksInv /\ ReadInv /\ report \in ReportRecord
  BY DEF StatementInv, ReadInv
<1>3. BooksInv'
  BY <1>1, <1>2 DEF BooksInv
<1>4. stored \in SUBSET Txns /\ IsFiniteSet(stored) /\ seen \in SUBSET stored /\ before \in SUBSET stored
  BY <1>2, BooksAre DEF BooksInv, Within
<1>5. control \in Int
  <2>1. balance["1020"] \in Int
    BY <1>2, BooksAre, ChartAssumption
  <2>2. IsFiniteSet(before)
    BY <1>4, FS_Subset
  <2> HIDE DEF before
  <2>3. Moved(before, "1000") \in Int
    BY <1>4, <2>2, ChangeInInt DEF Moved
  <2> QED
    BY <2>1, <2>3
<1>6. /\ report'.kind = report.kind /\ report'.period = report.period
      /\ report'.accounts = report.accounts /\ report'.at = at /\ report'.seen = seen
      /\ report'.control = control /\ report'.calm = report.calm
  <2> HIDE DEF at, seen, control
  <2> QED
    BY <1>1
<1>7. report' \in ReportRecord
  <2>1. at \in {"none", "accounts", "transactions", "done"} /\ seen \in SUBSET Txns
    BY <1>4
  <2>2. /\ report.kind \in ReportKinds /\ report.period \in Periods
        /\ report.accounts \in [Accounts -> Int] /\ report.cash \in Int /\ report.calm \in BOOLEAN
    BY <1>2 DEF ReportRecord
  <2> HIDE DEF at, seen, control
  <2> QED
    BY <1>1, <1>5, <2>1, <2>2 DEF ReportRecord
<1>8. report.calm => posting = {} /\ stored \cup posting = stored
  BY <1>1, <1>2 DEF ReadInv
<1>9. ReadInv'
  <2>1. Even(report'.accounts) /\ report'.seen \subseteq stored'
    BY <1>1, <1>2, <1>4, <1>6 DEF ReadInv
  <2>2. report'.at # "accounts" /\ (report'.at = "transactions" => report'.kind = "cash flow")
    BY <1>6
  <2>3. (report'.calm /\ report'.at \in {"accounts", "transactions"}) => posting' = {}
    BY <1>1, <1>6, <1>8
  <2>4. report'.at = "transactions" =>
          /\ report'.seen = Within(report.period)'
          /\ report'.control = Moved({t \in stored' : DayOf[t] < report'.period.from}, "1000")
    <3>1. Within(report.period)' = Within(report.period)
      BY <1>1, <1>6 DEF Within
    <3>2. {t \in stored' : DayOf[t] < report'.period.from} = before
      BY <1>1, <1>6
    <3>3. report'.at = "transactions" => seen = Within(report.period) /\ control = Moved(before, "1000")
      BY <1>6
    <3> HIDE DEF at, seen, control, before
    <3> QED
      BY <1>6, <3>1, <3>2, <3>3
  <2> QED
    BY <1>7, <2>1, <2>2, <2>3, <2>4 DEF ReadInv
<1>10. IncomeAgrees'
  <2> SUFFICES ASSUME Done("income")', report'.calm, report'.seen = stored'
               PROVE  NetIncome(report'.seen) = NetOfBalances(report'.accounts)
    BY DEF IncomeAgrees
  <2>1. report.kind = "income" /\ report.calm /\ report'.seen = stored
    BY <1>1, <1>6 DEF Done
  <2>2. report.accounts = [a \in Accounts |-> ChangeIn(stored, a)]
    BY <1>1, <1>2, <2>1 DEF ReadInv
  <2>3. NetOfBalances([a \in Accounts |-> ChangeIn(stored, a)]) = NetIncome(stored)
    BY <1>4, NetIs
  <2> QED
    BY <1>6, <2>1, <2>2, <2>3
<1>11. CashExplained'
  BY <1>6 DEF CashExplained, Done
<1>12. AgingAgrees'
  <2> SUFFICES ASSUME Done("aging")', report'.calm, Safe({"unmarked", "overpaid"})',
                      NEW asOf \in {p.to : p \in Periods}
               PROVE  Outstanding(report'.seen, asOf) = report'.control
    BY DEF AgingAgrees
  <2>1. report.kind = "aging" /\ report.calm
    BY <1>6 DEF Done
  <2>2. report'.seen = stored /\ report'.control = balance["1020"]
    BY <1>6, <2>1
  <2>3. balance["1020"] = ChangeIn(stored, "1020")
    BY <1>2, <1>8, <2>1, ChartAssumption DEF BooksInv
  <2>4. AllMarked(mix.txns) /\ NoneOverpaid(mix.txns)
    BY <1>1, <1>2, ReportsAssumption DEF Safe, BooksInv
  <2>5. \A t \in stored : InvoiceIn[t] \in stored \cup {NoInvoice}
    BY <1>2 DEF BooksInv
  <2>6. mix.txns \in SUBSET Txns /\ stored \in SUBSET mix.txns
    BY <1>2, BooksAre DEF BooksInv
  <2>7. Outstanding(stored, asOf) = ChangeIn(stored, "1020")
    BY <1>4, <2>4, <2>5, <2>6, AgingTotal
  <2> QED
    BY <2>2, <2>3, <2>7
<1> QED
  BY <1>3, <1>9, <1>10, <1>11, <1>12 DEF StatementInv

LEMMA CashRead ==
  ASSUME StatementInv, ReadCash
  PROVE  StatementInv'
<1>1. /\ report.at = "transactions"
      /\ report' = [kind |-> report.kind, at |-> "done", period |-> report.period,
                    accounts |-> report.accounts, seen |-> report.seen, cash |-> balance["1000"],
                    control |-> report.control, calm |-> report.calm]
      /\ mix' = mix /\ balance' = balance /\ stored' = stored /\ posting' = posting
      /\ budgets' = budgets
  BY DEF ReadCash
<1>2. BooksInv /\ ReadInv /\ report \in ReportRecord
  BY DEF StatementInv, ReadInv
<1>3. BooksInv'
  BY <1>1, <1>2 DEF BooksInv
<1>4. balance["1000"] \in Int
  BY <1>2, BooksAre, ChartAssumption
<1>5. /\ report'.kind = report.kind /\ report'.period = report.period /\ report'.at = "done"
      /\ report'.accounts = report.accounts /\ report'.seen = report.seen
      /\ report'.control = report.control /\ report'.calm = report.calm
      /\ report'.cash = balance["1000"]
  BY <1>1
<1>6. report' \in ReportRecord
  <2>1. /\ report.kind \in ReportKinds /\ report.period \in Periods /\ report.seen \in SUBSET Txns
        /\ report.accounts \in [Accounts -> Int] /\ report.control \in Int /\ report.calm \in BOOLEAN
    BY <1>2 DEF ReportRecord
  <2> QED
    BY <1>1, <1>4, <2>1 DEF ReportRecord
<1>7. ReadInv'
  BY <1>1, <1>2, <1>5, <1>6 DEF ReadInv
<1>8. report.kind = "cash flow"
  BY <1>1, <1>2 DEF ReadInv
<1>9. CashExplained'
  <2> SUFFICES ASSUME Safe({"depreciation", "unlisted", "later"})', report'.calm
               PROVE  BeginningCash(report') = report'.control
    BY DEF CashExplained
  <2> DEFINE before == {t \in stored : DayOf[t] < report.period.from}
             S == report.seen
  <2>1. report.calm /\ posting = {} /\ stored \cup posting = stored
    BY <1>1, <1>2, <1>5 DEF ReadInv
  <2>2. S = Within(report.period) /\ report.control = Moved(before, "1000")
    BY <1>1, <1>2, <2>1 DEF ReadInv
  <2>3. balance["1000"] = ChangeIn(stored, "1000")
    BY <1>2, <2>1, ChartAssumption DEF BooksInv
  <2>4. Undepreciated(mix.txns) /\ AllListed(mix.txns) /\ NoneLater(mix.txns)
    BY <1>1, <1>2, ReportsAssumption DEF Safe, BooksInv
  <2>5. stored \subseteq mix.txns /\ stored \in SUBSET Txns /\ IsFiniteSet(stored)
    BY <1>2, BooksAre DEF BooksInv
  <2>6. report.period \in Periods
    BY <1>2 DEF ReportRecord
  <2>7. stored \ before = S
    <3>1. ASSUME NEW t \in stored
          PROVE  t \notin before <=> t \in Within(report.period)
      <4>1. DayOf[t] \in Nat /\ report.period.from \in Nat /\ report.period.to \in Nat
        BY <2>5, <2>6, StatementsAssumption
      <4>2. DayOf[t] <= report.period.to
        BY <2>4, <2>5, <2>6 DEF NoneLater
      <4> QED
        BY <4>1, <4>2 DEF Within
    <3>2. Within(report.period) \subseteq stored
      BY DEF Within
    <3> QED
      BY <2>2, <3>1, <3>2
  <2>8. before \in SUBSET stored /\ S \in SUBSET stored
    BY <2>7
  <2>9. IsFiniteSet(before) /\ IsFiniteSet(S)
    BY <2>5, <2>8, FS_Subset
  <2>10. Undepreciated(S) /\ AllListed(S) /\ \A t \in S : IsBalanced(t)
    BY <1>2, <2>4, <2>5, <2>8 DEF Undepreciated, AllListed, BooksInv
  <2> HIDE DEF before, S
  <2>11. ChangeIn(stored, "1000") = ChangeIn(before, "1000") + ChangeIn(S, "1000")
    BY <2>5, <2>7, <2>8, ChangeInParts
  <2>12. ChangeIn(S, "1000") = NetChange(S) /\ NetChange(S) \in Int
    BY <2>5, <2>8, <2>9, <2>10, CashMoved
  <2>13. report.control = ChangeIn(before, "1000") /\ ChangeIn(before, "1000") \in Int
    BY <2>2, <2>5, <2>8, <2>9, ChangeInInt, ChartAssumption DEF Moved
  <2>14. BeginningCash(report') = balance["1000"] - NetChange(S)
    BY <1>5 DEF BeginningCash, S
  <2>15. report'.control = report.control
    BY <1>5
  <2> QED
    BY <2>3, <2>11, <2>12, <2>13, <2>14, <2>15
<1>10. IncomeAgrees' /\ AgingAgrees'
  BY <1>5, <1>8 DEF IncomeAgrees, AgingAgrees, Done
<1> QED
  BY <1>3, <1>7, <1>9, <1>10 DEF StatementInv

LEMMA StatementsKept ==
  ASSUME StatementInv, mix' = mix, StatementsNext \/ UNCHANGED statementVars
  PROVE  StatementInv'
<1>1. CASE UNCHANGED statementVars
  BY <1>1 DEF statementVars, StatementInv, BooksInv, ReadInv, IncomeAgrees, CashExplained,
              AgingAgrees, Done, Safe, BeginningCash, Within
<1>2. CASE StatementsNext
  BY <1>2, BalancesPosted, TransactionStored, BudgetAdded, AccountsRead, TransactionsRead, CashRead
     DEF StatementsNext
<1> QED
  BY <1>1, <1>2

LEMMA StatementsSound ==
  ASSUME StatementInv
  PROVE  /\ StatementsTypeOK
         /\ SheetsBalance /\ IncomeAgrees /\ CashExplained /\ AgingAgrees /\ VarianceCountsOnce
<1>1. BooksInv /\ ReadInv /\ report \in ReportRecord
  BY DEF StatementInv, ReadInv
<1>2. StatementsTypeOK
  <2>1. Cardinality(posting) <= 1
    <3>1. CASE posting = {}
      BY <3>1, FS_EmptySet
    <3>2. CASE posting # {}
      <4>1. PICK t : posting = {t}
        BY <1>1, <3>2 DEF BooksInv
      <4>2. Cardinality({t}) = 1
        BY FS_Singleton
      <4> QED
        BY <4>1, <4>2
    <3> QED
      BY <3>1, <3>2
  <2>2. posting \subseteq Txns \ stored /\ stored \subseteq Txns /\ balance \in [Accounts -> Int]
    BY <1>1, BooksAre
  <2>3. budgets \subseteq Budgets
    BY <1>1, ReportsAssumption DEF BooksInv
  <2>4. report.kind \in ReportKinds /\ report.seen \subseteq stored
    BY <1>1 DEF ReadInv, ReportRecord
  <2> QED
    BY <2>1, <2>2, <2>3, <2>4 DEF StatementsTypeOK
<1>3. SheetsBalance
  <2>1. Even(report.accounts)
    BY <1>1 DEF ReadInv
  <2>2. Side(report.accounts, TRUE) = Side(report.accounts, FALSE)
    BY <2>1, SidesEven
  <2>3. SheetBalanced(report.accounts)
    BY <2>1, SheetEven
  <2> QED
    BY <2>2, <2>3, Zenon DEF SheetsBalance
<1>4. VarianceCountsOnce
  <2> SUFFICES ASSUME Safe({"overlap"})
               PROVE  TotalActual(report) =
                        TotalOf(LAMBDA a : IncomeLine(report.seen, a),
                          {b.account : b \in {b \in budgets :
                             \E day \in b.from..b.to : report.period.from <= day /\ day <= report.period.to}})
    BY DEF VarianceCountsOnce
  <2> DEFINE p == report.period
             S == report.seen
             over == {b \in budgets : Overlaps(b, p)}
             met == {b \in budgets : \E day \in b.from..b.to : p.from <= day /\ day <= p.to}
  <2>1. p \in Periods /\ S \in SUBSET Txns /\ IsFiniteSet(S)
    BY <1>1, FS_Subset DEF ReportRecord, ReadInv, BooksInv
  <2>2. budgets \in SUBSET Budgets /\ IsFiniteSet(budgets) /\ NoneOverlap(budgets)
    <3>1. NoneOverlap(mix.budgets) /\ mix.budgets \subseteq Budgets
      BY <1>1, ReportsAssumption DEF Safe, BooksInv
    <3> QED
      BY <1>1, <3>1 DEF BooksInv, NoneOverlap
  <2>3. over = met
    <3>1. ASSUME NEW b \in budgets
          PROVE  Overlaps(b, p) <=> \E day \in b.from..b.to : p.from <= day /\ day <= p.to
      <4>1. b.from \in Nat /\ b.to \in Nat /\ b.from <= b.to
        BY <2>2, StatementsAssumption
      <4>2. p.from \in Nat /\ p.to \in Nat /\ p.from <= p.to
        BY <2>1, StatementsAssumption
      <4> HIDE DEF p
      <4>3. ASSUME Overlaps(b, p)
            PROVE  \E day \in b.from..b.to : p.from <= day /\ day <= p.to
        <5>1. CASE b.from <= p.from
          <6>1. p.from \in b.from..b.to
            BY <4>1, <4>2, <4>3, <5>1 DEF Overlaps
          <6> QED
            BY <4>2, <6>1
        <5>2. CASE p.from <= b.from
          <6>1. b.from \in b.from..b.to
            BY <4>1
          <6> QED
            BY <4>3, <5>2, <6>1 DEF Overlaps
        <5> QED
          BY <4>1, <4>2, <5>1, <5>2
      <4>4. ASSUME NEW day \in b.from..b.to, p.from <= day, day <= p.to
            PROVE  Overlaps(b, p)
        BY <4>1, <4>2, <4>4 DEF Overlaps
      <4> QED
        BY <4>3, <4>4
    <3> QED
      BY <3>1
  <2>4. TotalActual(report) = SumFunction([b \in over |-> ChangeIn(S, b.account)])
    BY DEF TotalActual, TotalOf, Actual, IncomeLine
  <2>5. TotalOf(LAMBDA a : IncomeLine(S, a), {b.account : b \in met})
          = SumFunction([a \in {b.account : b \in met} |-> ChangeIn(S, a)])
    BY DEF TotalOf, IncomeLine
  <2>6. SumFunction([b \in over |-> ChangeIn(S, b.account)])
          = SumFunction([a \in {b.account : b \in over} |-> ChangeIn(S, a)])
    BY <2>1, <2>2, VarianceOnce
  <2>7. TotalActual(report) = TotalOf(LAMBDA a : IncomeLine(S, a), {b.account : b \in met})
    <3> HIDE DEF over, met, S, p
    <3> QED
      BY <2>3, <2>4, <2>5, <2>6
  <2> QED
    BY <2>7
<1> QED
  BY <1>2, <1>3, <1>4 DEF StatementInv

-----------------------------------------------------------------------------
(* Brackets that follow each other.                                         *)

\* The bracket that a unit of an amount lies in.
Holds(b, unit) == b.lower < unit /\ (b.upper = None \/ unit <= b.upper)

AreBrackets(brackets) ==
  brackets \in Seq(TaxBracket) /\ brackets # << >> /\ Contiguous(brackets)

LEMMA BracketsAre ==
  ASSUME NEW brackets, AreBrackets(brackets)
  PROVE  /\ Len(brackets) \in Nat \ {0} /\ DOMAIN brackets = 1 .. Len(brackets)
         /\ \A i \in 1 .. Len(brackets) :
              /\ brackets[i].lower \in Nat /\ brackets[i].rate \in Nat
              /\ IF i = Len(brackets) THEN brackets[i].upper = None
                 ELSE /\ brackets[i].upper \in Nat /\ brackets[i].upper = brackets[i + 1].lower
                      /\ brackets[i].lower < brackets[i].upper
         /\ brackets[1].lower = 0
<1>0. Len(brackets) \in Nat \ {0}
  BY EmptySeq DEF AreBrackets
<1>1. DOMAIN brackets = 1 .. Len(brackets)
  BY DEF AreBrackets
<1>2. \A i \in 1 .. Len(brackets) : brackets[i] \in TaxBracket
  BY <1>0 DEF AreBrackets
<1>3. \A i \in 1 .. Len(brackets) : brackets[i].lower \in Nat /\ brackets[i].rate \in Nat
  BY <1>2 DEF TaxBracket
<1>4. \A i \in 1 .. Len(brackets) :
        IF i = Len(brackets) THEN brackets[i].upper = None
        ELSE brackets[i].upper = brackets[i + 1].lower /\ brackets[i].lower < brackets[i].upper
  BY <1>1 DEF Contiguous, AreBrackets
<1>5. ASSUME NEW i \in 1 .. Len(brackets), i # Len(brackets)
      PROVE  brackets[i].upper \in Nat
  <2>1. i + 1 \in 1 .. Len(brackets)
    BY <1>0, <1>5
  <2>2. brackets[i].upper = brackets[i + 1].lower
    BY <1>4, <1>5
  <2> QED
    BY <1>3, <2>1, <2>2
<1>6. brackets[1].lower = 0
  BY DEF Contiguous, AreBrackets
<1> QED
  BY <1>0, <1>1, <1>3, <1>4, <1>5, <1>6

\* A bracket ends before the next ones begin.
LEMMA BracketsApart ==
  ASSUME NEW brackets, AreBrackets(brackets)
  PROVE  \A j \in 1 .. Len(brackets) : \A i \in 1 .. j - 1 :
           brackets[i].upper \in Nat /\ brackets[i].upper <= brackets[j].lower
<1> DEFINE N == Len(brackets)
           S == {j \in Nat : j \in 1 .. N =>
                   \A i \in 1 .. j - 1 : brackets[i].upper \in Nat /\ brackets[i].upper <= brackets[j].lower}
<1>1. /\ N \in Nat \ {0}
      /\ \A i \in 1 .. N :
           /\ brackets[i].lower \in Nat
           /\ i # N => /\ brackets[i].upper \in Nat /\ brackets[i].upper = brackets[i + 1].lower
                       /\ brackets[i].lower < brackets[i].upper
  BY BracketsAre
<1>2. 0 \in S
  OBVIOUS
<1>3. ASSUME NEW j \in Nat, j \in S
      PROVE  j + 1 \in S
  <2> SUFFICES ASSUME j + 1 \in 1 .. N, NEW i \in 1 .. j
               PROVE  brackets[i].upper \in Nat /\ brackets[i].upper <= brackets[j + 1].lower
    OBVIOUS
  <2> HIDE DEF N
  <2>1. j \in 1 .. N /\ j # N /\ i \in 1 .. N /\ i # N
    BY <1>1
  <2>2. /\ brackets[j].upper = brackets[j + 1].lower /\ brackets[j].lower < brackets[j].upper
        /\ brackets[j].upper \in Nat /\ brackets[j].lower \in Nat
    BY <1>1, <2>1
  <2>3. CASE i = j
    BY <2>2, <2>3
  <2>4. CASE i # j
    <3>1. i \in 1 .. j - 1
      BY <2>4
    <3>2. brackets[i].upper \in Nat /\ brackets[i].upper <= brackets[j].lower
      BY <1>3, <2>1, <3>1
    <3> QED
      BY <2>2, <3>2
  <2> QED
    BY <2>3, <2>4
<1> HIDE DEF S
<1>4. Nat \subseteq S
  BY <1>2, <1>3, Induct
<1> QED
  BY <1>1, <1>4 DEF S

\* Each unit lies in one of them.
LEMMA OneBracket ==
  ASSUME NEW brackets, AreBrackets(brackets),
         NEW unit \in Nat \ {0}
  PROVE  \E k \in 1 .. Len(brackets) :
           /\ Holds(brackets[k], unit)
           /\ \A i \in 1 .. Len(brackets) : Holds(brackets[i], unit) => i = k
           /\ RateAt(brackets, unit) = brackets[k].rate
<1> DEFINE N == Len(brackets)
           T == {i \in 1 .. N : brackets[i].upper = None \/ unit <= brackets[i].upper}
<1>0. DOMAIN brackets = 1 .. N
  BY BracketsAre
<1>1. /\ N \in Nat \ {0}
      /\ brackets[1].lower = 0 /\ brackets[N].upper = None
      /\ \A i \in 1 .. N :
           /\ brackets[i].lower \in Nat
           /\ i # N => brackets[i].upper \in Nat /\ brackets[i].upper = brackets[i + 1].lower
  BY BracketsAre
<1>2. \A j \in 1 .. N : \A i \in 1 .. j - 1 :
        brackets[i].upper \in Nat /\ brackets[i].upper <= brackets[j].lower
  BY BracketsApart
<1>3. N \in T /\ T \in SUBSET Nat
  <2>1. N \in 1 .. N /\ brackets[N].upper = None
    BY <1>1
  <2> HIDE DEF N
  <2> QED
    BY <2>1
<1>4. PICK k \in T : \A i \in T : k <= i
  <2> HIDE DEF T
  <2> QED
    BY <1>3, LeastElement
<1>5. k \in 1 .. N
  OBVIOUS
<1> HIDE DEF N
<1>6. brackets[k].lower < unit
  <2>1. CASE k = 1
    BY <1>1, <2>1
  <2>2. CASE k # 1
    <3>1. k - 1 \in 1 .. N /\ k - 1 # N /\ k - 1 \in Nat /\ (k - 1) + 1 = k
      BY <1>1, <1>5, <2>2
    <3>2. k - 1 \notin T
      BY <1>4, <1>5, <3>1
    <3>3. brackets[k - 1].upper \in Nat /\ brackets[k - 1].upper = brackets[k].lower
      BY <1>1, <3>1
    <3>4. brackets[k - 1].upper # None /\ ~(unit <= brackets[k - 1].upper)
      BY <3>1, <3>2
    <3> QED
      BY <3>3, <3>4
  <2> QED
    BY <2>1, <2>2
<1>7. Holds(brackets[k], unit)
  BY <1>4, <1>6 DEF Holds
<1>8. ASSUME NEW i \in 1 .. N, Holds(brackets[i], unit)
      PROVE  i = k
  <2>1. i \in T /\ brackets[i].lower < unit /\ brackets[i].lower \in Nat
    BY <1>1, <1>8 DEF Holds
  <2>2. k <= i
    BY <1>4, <2>1
  <2>3. CASE k < i
    <3>1. k \in 1 .. i - 1
      BY <1>1, <1>5, <2>3
    <3>2. brackets[k].upper \in Nat /\ brackets[k].upper <= brackets[i].lower
      BY <1>2, <3>1
    <3>3. brackets[k].upper # None
      BY <3>2 DEF None
    <3>4. unit <= brackets[k].upper
      BY <1>4, <3>3
    <3> QED
      BY <2>1, <3>2, <3>4
  <2> QED
    BY <1>1, <1>5, <2>2, <2>3
<1>9. RateAt(brackets, unit) = brackets[k].rate
  <2> DEFINE choice == CHOOSE i \in DOMAIN brackets :
                         /\ brackets[i].lower < unit
                         /\ brackets[i].upper = None \/ unit <= brackets[i].upper
  <2>1. k \in DOMAIN brackets /\ brackets[k].lower < unit
        /\ (brackets[k].upper = None \/ unit <= brackets[k].upper)
    BY <1>0, <1>5, <1>7 DEF Holds
  <2>2. choice \in DOMAIN brackets /\ Holds(brackets[choice], unit)
    BY <2>1 DEF Holds
  <2>3. choice = k
    <3> HIDE DEF choice
    <3> QED
      BY <1>0, <1>8, <2>2
  <2> QED
    BY <2>3 DEF RateAt
<1> QED
  BY <1>5, <1>7, <1>8, <1>9 DEF N

\* The part of an amount in a bracket grows with its units there only.
LEMMA PartGrows ==
  ASSUME NEW b, b.lower \in Nat, b.upper \in Nat \cup {None}, b.upper = None \/ b.lower < b.upper,
         NEW n \in Nat \ {0}
  PROVE  /\ InBracket(b, n) \in Int /\ InBracket(b, n - 1) \in Int
         /\ Holds(b, n) => InBracket(b, n) = InBracket(b, n - 1) + 1
         /\ ~Holds(b, n) => InBracket(b, n) = InBracket(b, n - 1)
         /\ InBracket(b, 0) = 0
  BY DEF InBracket, Holds, None

LEMMA UnitTaxed ==
  ASSUME NEW brackets, AreBrackets(brackets)
  PROVE  /\ ProgressiveTax(brackets, 0) = 0
         /\ \A n \in Nat \ {0} :
              ProgressiveTax(brackets, n) - ProgressiveTax(brackets, n - 1) = RateAt(brackets, n)
<1> DEFINE D == 1 .. Len(brackets)
           tax(n) == [i \in D |-> InBracket(brackets[i], n) * brackets[i].rate]
<1>0. DOMAIN brackets = D
  BY BracketsAre
<1>1. IsFiniteSet(D)
  <2>1. Len(brackets) \in Nat
    BY BracketsAre
  <2> QED
    BY <2>1, FS_Interval
<1>2. ASSUME NEW i \in D, NEW n \in Nat \ {0}
      PROVE  /\ InBracket(brackets[i], n) \in Int /\ InBracket(brackets[i], n - 1) \in Int
             /\ Holds(brackets[i], n) => InBracket(brackets[i], n) = InBracket(brackets[i], n - 1) + 1
             /\ ~Holds(brackets[i], n) => InBracket(brackets[i], n) = InBracket(brackets[i], n - 1)
             /\ InBracket(brackets[i], 0) = 0
             /\ brackets[i].rate \in Int
  <2> DEFINE b == brackets[i]
  <2>1. /\ b.lower \in Nat /\ b.upper \in Nat \cup {None} /\ (b.upper = None \/ b.lower < b.upper)
        /\ b.rate \in Int
    BY BracketsAre
  <2> HIDE DEF b
  <2>2. /\ InBracket(b, n) \in Int /\ InBracket(b, n - 1) \in Int
        /\ Holds(b, n) => InBracket(b, n) = InBracket(b, n - 1) + 1
        /\ ~Holds(b, n) => InBracket(b, n) = InBracket(b, n - 1)
        /\ InBracket(b, 0) = 0
    BY <2>1, PartGrows
  <2> QED
    BY <2>1, <2>2 DEF b
<1>3. \A n : ProgressiveTax(brackets, n) = SumFunction(tax(n))
  BY <1>0 DEF ProgressiveTax
<1>4. ProgressiveTax(brackets, 0) = 0
  <2>1. \A i \in D : InBracket(brackets[i], 0) * brackets[i].rate = 0
    <3>1. \A i \in D : InBracket(brackets[i], 0) = 0 /\ brackets[i].rate \in Int
      <4>1. 1 \in Nat \ {0}
        OBVIOUS
      <4> QED
        BY <1>2, <4>1
    <3>2. \A r \in Int : 0 * r = 0
      OBVIOUS
    <3> QED
      BY <3>1, <3>2
  <2>2. tax(0) = [i \in D |-> 0]
    BY <2>1
  <2> QED
    BY <1>1, <1>3, <2>2, SumZero
<1>5. ASSUME NEW n \in Nat \ {0}
      PROVE  ProgressiveTax(brackets, n) - ProgressiveTax(brackets, n - 1) = RateAt(brackets, n)
  <2> DEFINE f == tax(n)
             g == tax(n - 1)
  <2>1. PICK k \in D : /\ Holds(brackets[k], n)
                       /\ \A i \in D : Holds(brackets[i], n) => i = k
                       /\ RateAt(brackets, n) = brackets[k].rate
    BY OneBracket
  <2>2. \A x, r \in Int : (x + 1) * r - x * r = r /\ x * r - x * r = 0 /\ x * r \in Int /\ (x + 1) * r \in Int
    OBVIOUS
  <2>3. ASSUME NEW i \in D
        PROVE  f[i] \in Int /\ g[i] \in Int /\ f[i] - g[i] = IF i = k THEN brackets[k].rate ELSE 0
    <3> DEFINE x == InBracket(brackets[i], n - 1)
               y == InBracket(brackets[i], n)
               r == brackets[i].rate
    <3>1. x \in Int /\ r \in Int /\ y = IF i = k THEN x + 1 ELSE x
      BY <1>2, <2>1
    <3>2. f[i] = y * r /\ g[i] = x * r
      OBVIOUS
    <3>3. i = k => r = brackets[k].rate
      OBVIOUS
    <3> HIDE DEF x, y, r, f, g
    <3>4. CASE i = k
      BY <2>2, <3>1, <3>2, <3>3, <3>4
    <3>5. CASE i # k
      BY <2>2, <3>1, <3>2, <3>5
    <3> QED
      BY <3>4, <3>5
  <2> DEFINE d == brackets[k].rate
  <2>4. d \in Int /\ k \in D
    BY <1>2, <2>1
  <2>5. f \in [D -> Int] /\ g \in [D -> Int]
    BY <2>3
  <2>6. \A i \in D : f[i] - g[i] = IF i = k THEN d ELSE 0
    BY <2>3
  <2>7. SumFunction(f) - SumFunction(g) = d
    <3> HIDE DEF f, g, D, d
    <3> QED
      BY <1>1, <2>4, <2>5, <2>6, SumDiffers
  <2> HIDE DEF f, g, D
  <2>8. ProgressiveTax(brackets, n) = SumFunction(f) /\ ProgressiveTax(brackets, n - 1) = SumFunction(g)
    BY <1>3 DEF f, g
  <2> QED
    BY <2>1, <2>7, <2>8
<1> QED
  BY <1>4, <1>5

-----------------------------------------------------------------------------
(* The tax calculator.                                                      *)

FilingStatus == {"not started", "in progress", "cancelled", "filed", "paid"}
FilingRecord == [status : FilingStatus, payment : BOOLEAN]

TaxTypes ==
  /\ DOMAIN jurisdictions \subseteq Jurisdiction /\ DOMAIN jurisdictionsByCode \subseteq Code
  /\ \A id \in DOMAIN jurisdictions :
       jurisdictions[id].code \in Code /\ jurisdictions[id].table \in RateTable
  /\ DOMAIN filings \subseteq FilingId /\ paid \subseteq DOMAIN filings
  /\ \A f \in DOMAIN filings : filings[f] \in FilingRecord
  /\ \A c \in copies : c.id \in FilingId /\ c.filing \in FilingRecord

TaxInv == TaxTypes /\ CodesAgree /\ PaymentsKept

LEMMA TaxesAtFirst ==
  ASSUME TaxesInit
  PROVE  TaxInv
<1> DEFINE plain == CHOOSE t \in RateTable : t.brackets = << >>
           codes == Range(Defaults)
           holder(c) == CHOOSE id \in DOMAIN Defaults : Defaults[id] = c
<1>1. /\ jurisdictions = [id \in DOMAIN Defaults |-> [code |-> Defaults[id], table |-> plain]]
      /\ jurisdictionsByCode = [c \in codes |-> holder(c)]
  BY DEF TaxesInit, TaxesInitialized
<1>2. plain \in RateTable
  BY TaxAssumption
<1>3. codes = {Defaults[id] : id \in DOMAIN Defaults}
  BY DEF Range
<1>4. \A id \in DOMAIN Defaults : Defaults[id] \in codes
  BY <1>3
<1>5. ASSUME NEW c \in codes
      PROVE  holder(c) \in DOMAIN Defaults /\ Defaults[holder(c)] = c
  BY <1>3
<1> HIDE DEF plain, holder, codes
<1>6. \A id \in DOMAIN Defaults : holder(Defaults[id]) = id
  BY <1>4, <1>5, TaxAssumption
<1>7. DOMAIN Defaults \subseteq Jurisdiction /\ codes \subseteq Code
  BY TaxAssumption DEF codes
<1>8. filings = << >> /\ DOMAIN filings = {} /\ copies = {} /\ paid = {}
  BY DEF TaxesInit
<1>9. TaxTypes
  BY <1>1, <1>2, <1>4, <1>7, <1>8 DEF TaxTypes
<1>10. CodesAgree
  BY <1>1, <1>4, <1>5, <1>6 DEF CodesAgree
<1>11. PaymentsKept
  BY <1>8 DEF PaymentsKept
<1> QED
  BY <1>9, <1>10, <1>11 DEF TaxInv

(* A jurisdiction is created, or changed and found under its code alone.    *)
LEMMA JurisdictionsKept ==
  ASSUME TaxInv, mix' = mix, UNCHANGED <<filings, copies, paid>>,
         NEW id \in Jurisdiction, NEW code \in Code, NEW given \in RateTable,
         CreateJurisdiction(id, code, given) \/ UpdateJurisdiction(id, code, given)
  PROVE  TaxInv'
<1> DEFINE one == [code |-> code, table |-> given]
<1>1. /\ DOMAIN jurisdictions' = DOMAIN jurisdictions \cup {id}
      /\ jurisdictions'[id] = one
      /\ \A y \in DOMAIN jurisdictions : y # id => jurisdictions'[y] = jurisdictions[y]
  BY DEF CreateJurisdiction, UpdateJurisdiction, Put
<1>2. one.code = code /\ one.table = given
  OBVIOUS
<1> HIDE DEF one
<1>3. CASE /\ id \notin DOMAIN jurisdictions /\ code \notin DOMAIN jurisdictionsByCode
           /\ jurisdictionsByCode' = Put(jurisdictionsByCode, code, id)
  <2>1. /\ DOMAIN jurisdictionsByCode' = DOMAIN jurisdictionsByCode \cup {code}
        /\ jurisdictionsByCode'[code] = id
        /\ \A y \in DOMAIN jurisdictionsByCode : jurisdictionsByCode'[y] = jurisdictionsByCode[y]
    BY <1>3 DEF Put
  <2>2. TaxTypes'
    BY <1>1, <1>2, <2>1 DEF TaxInv, TaxTypes
  <2>3. CodesAgree'
    BY <1>1, <1>2, <1>3, <2>1 DEF TaxInv, CodesAgree, Safe
  <2> QED
    BY <2>2, <2>3 DEF TaxInv, PaymentsKept, Safe
<1>4. CASE id \in DOMAIN jurisdictions /\ jurisdictions[id].code = code /\ UNCHANGED jurisdictionsByCode
  <2>1. TaxTypes'
    BY <1>1, <1>2, <1>4 DEF TaxInv, TaxTypes
  <2>2. CodesAgree'
    BY <1>1, <1>2, <1>4 DEF TaxInv, CodesAgree, Safe
  <2> QED
    BY <2>1, <2>2 DEF TaxInv, PaymentsKept, Safe
<1>5. CASE /\ id \in DOMAIN jurisdictions /\ jurisdictions[id].code # code
           /\ code \notin DOMAIN jurisdictionsByCode /\ jurisdictionsByCode' = Recoded(id, code)
  <2> DEFINE old == jurisdictions[id].code
  <2>1. /\ DOMAIN jurisdictionsByCode' = (DOMAIN jurisdictionsByCode \ {old}) \cup {code}
        /\ jurisdictionsByCode'[code] = id
        /\ \A y \in DOMAIN jurisdictionsByCode \ {old} : jurisdictionsByCode'[y] = jurisdictionsByCode[y]
    BY <1>5 DEF Recoded, Put, Without
  <2>2. TaxTypes'
    BY <1>1, <1>2, <2>1 DEF TaxInv, TaxTypes
  <2>3. CodesAgree'
    BY <1>1, <1>2, <1>5, <2>1 DEF TaxInv, CodesAgree, Safe
  <2> QED
    BY <2>2, <2>3 DEF TaxInv, PaymentsKept, Safe
<1>6. CASE Risk("unknown_id") /\ UNCHANGED jurisdictionsByCode
  <2>1. TaxTypes'
    BY <1>1, <1>2, <1>6 DEF TaxInv, TaxTypes
  <2>2. CodesAgree'
    BY <1>6 DEF CodesAgree, Safe, Risk
  <2> QED
    BY <2>1, <2>2 DEF TaxInv, PaymentsKept, Safe
<1> QED
  BY <1>3, <1>4, <1>5, <1>6 DEF CreateJurisdiction, UpdateJurisdiction

LEMMA JurisdictionDeleted ==
  ASSUME TaxInv, mix' = mix, NEW id, DeleteJurisdiction(id)
  PROVE  TaxInv'
<1> DEFINE old == jurisdictions[id].code
<1>1. /\ id \in DOMAIN jurisdictions /\ DOMAIN jurisdictions' = DOMAIN jurisdictions \ {id}
      /\ \A y \in DOMAIN jurisdictions' : jurisdictions'[y] = jurisdictions[y]
      /\ DOMAIN jurisdictionsByCode' = DOMAIN jurisdictionsByCode \ {old}
      /\ \A y \in DOMAIN jurisdictionsByCode' : jurisdictionsByCode'[y] = jurisdictionsByCode[y]
      /\ UNCHANGED <<filings, copies, paid>>
  BY DEF DeleteJurisdiction, Uncoded, Without
<1>2. TaxTypes'
  BY <1>1 DEF TaxInv, TaxTypes
<1>3. CodesAgree'
  BY <1>1 DEF TaxInv, CodesAgree, Safe
<1> QED
  BY <1>1, <1>2, <1>3 DEF TaxInv, PaymentsKept, Safe

(* A filing, whatever is done to it, keeps the record of its payment.       *)
LEMMA FilingsKept ==
  ASSUME TaxInv, mix' = mix, NEW f \in FilingId,
         CreateFiling(f) \/ GetFiling(f) \/ DeleteFiling(f) \/ MarkAsFiled(f) \/ MarkAsPaid(f)
  PROVE  TaxInv'
<1>1. CodesAgree'
  BY DEF TaxInv, CodesAgree, Safe, CreateFiling, GetFiling, DeleteFiling, MarkAsFiled, MarkAsPaid
<1>2. TaxTypes
  BY DEF TaxInv
<1>3. CASE CreateFiling(f)
  <2>1. /\ DOMAIN filings' = DOMAIN filings \cup {f} /\ f \notin DOMAIN filings
        /\ filings'[f] \in FilingRecord
        /\ \A y \in DOMAIN filings : filings'[y] = filings[y]
    BY <1>3 DEF CreateFiling, Put, NewFiling, FilingRecord, FilingStatus
  <2>2. UNCHANGED <<jurisdictions, jurisdictionsByCode, copies, paid>>
    BY <1>3 DEF CreateFiling
  <2>3. TaxTypes' /\ PaymentsKept'
    BY <1>2, <2>1, <2>2 DEF TaxInv, TaxTypes, PaymentsKept, Safe
  <2> QED
    BY <1>1, <2>3 DEF TaxInv
<1>4. CASE GetFiling(f)
  <2>1. /\ f \in DOMAIN filings
        /\ copies' = copies \cup {[id |-> f, filing |-> filings[f]]}
        /\ UNCHANGED <<jurisdictions, jurisdictionsByCode, filings, paid>>
    BY <1>4 DEF GetFiling
  <2>2. TaxTypes' /\ PaymentsKept'
    BY <1>2, <2>1 DEF TaxInv, TaxTypes, PaymentsKept, Safe
  <2> QED
    BY <1>1, <2>2 DEF TaxInv
<1>5. CASE DeleteFiling(f)
  <2>1. /\ DOMAIN filings' = DOMAIN filings \ {f} /\ paid' = paid \ {f}
        /\ \A y \in DOMAIN filings' : filings'[y] = filings[y]
        /\ UNCHANGED <<jurisdictions, jurisdictionsByCode, copies>>
    BY <1>5 DEF DeleteFiling, Without
  <2>2. TaxTypes' /\ PaymentsKept'
    BY <1>2, <2>1 DEF TaxInv, TaxTypes, PaymentsKept, Safe
  <2> QED
    BY <1>1, <2>2 DEF TaxInv
<1>6. CASE MarkAsFiled(f)
  <2>1. /\ f \in DOMAIN filings /\ DOMAIN filings' = DOMAIN filings
        /\ filings'[f] = Filed(filings[f])
        /\ \A y \in DOMAIN filings : y # f => filings'[y] = filings[y]
        /\ UNCHANGED <<jurisdictions, jurisdictionsByCode, copies, paid>>
    BY <1>6 DEF MarkAsFiled
  <2>2. Filed(filings[f]) \in FilingRecord /\ Filed(filings[f]).payment = filings[f].payment
    BY <1>2, <2>1 DEF Filed, FilingRecord, FilingStatus, TaxTypes
  <2>3. TaxTypes' /\ PaymentsKept'
    BY <1>2, <2>1, <2>2 DEF TaxInv, TaxTypes, PaymentsKept, Safe
  <2> QED
    BY <1>1, <2>3 DEF TaxInv
<1>7. CASE MarkAsPaid(f)
  <2>1. /\ f \in DOMAIN filings /\ DOMAIN filings' = DOMAIN filings
        /\ filings'[f] = [status |-> "paid", payment |-> TRUE]
        /\ \A y \in DOMAIN filings : y # f => filings'[y] = filings[y]
        /\ paid' = paid \cup {f}
        /\ UNCHANGED <<jurisdictions, jurisdictionsByCode, copies>>
    BY <1>7 DEF MarkAsPaid
  <2>2. filings'[f] \in FilingRecord /\ filings'[f].payment
    BY <2>1 DEF FilingRecord, FilingStatus
  <2>3. TaxTypes' /\ PaymentsKept'
    BY <1>2, <2>1, <2>2 DEF TaxInv, TaxTypes, PaymentsKept, Safe
  <2> QED
    BY <1>1, <2>3 DEF TaxInv
<1> QED
  BY <1>3, <1>4, <1>5, <1>6, <1>7

LEMMA FilingUpdated ==
  ASSUME TaxInv, mix' = mix, NEW c \in copies, NEW status \in FilingStatus, UpdateFiling(c, status)
  PROVE  TaxInv'
<1> DEFINE new == [c.filing EXCEPT !.status = status]
<1>1. /\ c.id \in FilingId /\ c.filing \in FilingRecord /\ TaxTypes
  BY DEF TaxInv, TaxTypes
<1>2. new \in FilingRecord /\ new.payment = c.filing.payment
  BY <1>1 DEF FilingRecord
<1>3. /\ DOMAIN filings' = DOMAIN filings \cup {c.id} /\ filings'[c.id] = new
      /\ \A y \in DOMAIN filings : y # c.id => filings'[y] = filings[y]
      /\ copies' \subseteq copies
      /\ UNCHANGED <<jurisdictions, jurisdictionsByCode, paid>>
      /\ \/ c.id \in DOMAIN filings /\ filings[c.id] = c.filing
         \/ Risk("stale_copy")
  BY DEF UpdateFiling, Put
<1> HIDE DEF new
<1>4. TaxTypes'
  BY <1>1, <1>2, <1>3 DEF TaxTypes
<1>5. PaymentsKept'
  <2>1. CASE Risk("stale_copy")
    BY <2>1 DEF PaymentsKept, Safe, Risk
  <2>2. CASE c.id \in DOMAIN filings /\ filings[c.id] = c.filing
    BY <1>2, <1>3, <2>2 DEF TaxInv, PaymentsKept, Safe
  <2> QED
    BY <1>3, <2>1, <2>2
<1> QED
  BY <1>3, <1>4, <1>5 DEF TaxInv, CodesAgree, Safe

LEMMA TaxesKept ==
  ASSUME TaxInv, mix' = mix, TaxesNext \/ UNCHANGED taxVars
  PROVE  TaxInv'
<1>1. CASE UNCHANGED taxVars
  BY <1>1 DEF taxVars, TaxInv, TaxTypes, CodesAgree, PaymentsKept, Safe
<1>2. CASE \E id \in Jurisdiction, code \in Code, given \in RateTable :
             CreateJurisdiction(id, code, given) \/ UpdateJurisdiction(id, code, given)
  <2>1. UNCHANGED <<filings, copies, paid>>
    BY <1>2 DEF CreateJurisdiction, UpdateJurisdiction
  <2> QED
    BY <1>2, <2>1, JurisdictionsKept
<1>3. CASE \E id \in Jurisdiction : DeleteJurisdiction(id)
  BY <1>3, JurisdictionDeleted
<1>4. CASE \E f \in FilingId :
             CreateFiling(f) \/ GetFiling(f) \/ DeleteFiling(f) \/ MarkAsFiled(f) \/ MarkAsPaid(f)
  BY <1>4, FilingsKept
<1>5. CASE \E c \in copies : \E status \in {"in progress", "cancelled"} : UpdateFiling(c, status)
  BY <1>5, FilingUpdated DEF FilingStatus
<1> QED
  BY <1>1, <1>2, <1>3, <1>4, <1>5 DEF TaxesNext

LEMMA TaxesSound ==
  ASSUME TaxInv
  PROVE  TaxesTypeOK /\ CodesAgree /\ EachUnitTaxedOnce /\ PaymentsKept
<1>1. TaxesTypeOK
  BY DEF TaxInv, TaxTypes, TaxesTypeOK
<1>2. EachUnitTaxedOnce
  <2> SUFFICES ASSUME NEW c \in DOMAIN jurisdictionsByCode, NEW kind \in TaxKind,
                      CalculateTax(c, kind, 0) # None,
                      jurisdictions[jurisdictionsByCode[c]].table.brackets # << >>,
                      Contiguous(jurisdictions[jurisdictionsByCode[c]].table.brackets)
               PROVE  /\ CalculateTax(c, kind, 0) = 0
                      /\ \A n \in 1 .. Income :
                           CalculateTax(c, kind, n) - CalculateTax(c, kind, n - 1)
                             = RateAt(jurisdictions[jurisdictionsByCode[c]].table.brackets, n)
    BY DEF EachUnitTaxedOnce
  <2> DEFINE brackets == jurisdictions[jurisdictionsByCode[c]].table.brackets
  <2>1. jurisdictionsByCode[c] \in DOMAIN jurisdictions
    BY DEF CalculateTax
  <2>2. brackets \in Seq(TaxBracket)
    BY <2>1, TaxAssumption DEF TaxInv, TaxTypes
  <2>3. \A n : CalculateTax(c, kind, n) = ProgressiveTax(brackets, n)
    BY <2>1 DEF CalculateTax
  <2>4. AreBrackets(brackets)
    BY <2>2 DEF AreBrackets
  <2> HIDE DEF brackets
  <2>5. /\ ProgressiveTax(brackets, 0) = 0
        /\ \A n \in Nat \ {0} :
             ProgressiveTax(brackets, n) - ProgressiveTax(brackets, n - 1) = RateAt(brackets, n)
    BY <2>4, UnitTaxed
  <2>6. \A n \in 1 .. Income : n \in Nat \ {0}
    BY TaxAssumption
  <2>7. CalculateTax(c, kind, 0) = 0
    BY <2>3, <2>5
  <2>8. ASSUME NEW n \in 1 .. Income
        PROVE  CalculateTax(c, kind, n) - CalculateTax(c, kind, n - 1) = RateAt(brackets, n)
    <3>1. n \in Nat \ {0}
      BY <2>6
    <3>2. ProgressiveTax(brackets, n) - ProgressiveTax(brackets, n - 1) = RateAt(brackets, n)
      BY <2>5, <3>1
    <3>3. CalculateTax(c, kind, n) = ProgressiveTax(brackets, n)
          /\ CalculateTax(c, kind, n - 1) = ProgressiveTax(brackets, n - 1)
      BY <2>3
    <3> QED
      BY <3>2, <3>3
  <2> QED
    BY <2>7, <2>8 DEF brackets
<1> QED
  BY <1>1, <1>2 DEF TaxInv

-----------------------------------------------------------------------------
(* Statement lines and the transactions they are matched with.              *)

Pairs(n) == [line : 1 .. n, id : BookIds]

LEMMA BookIs ==
  /\ Len(Book) \in Nat /\ DOMAIN Book = 1 .. Len(Book)
  /\ \A i \in DOMAIN Book : i \in Nat /\ Book[i].cents \in Nat /\ Book[i].day \in Nat
                            /\ Book[i].id \in BookIds
<1>1. Len(Book) \in Nat /\ DOMAIN Book = 1 .. Len(Book)
  BY ReconciliationAssumption
<1>2. \A i \in DOMAIN Book : Book[i] \in Range(Book) /\ Book[i].id \in BookIds
  BY DEF Range, BookIds
<1> QED
  BY <1>1, <1>2, ReconciliationAssumption

LEMMA BookOfIs ==
  ASSUME NEW i \in DOMAIN Book
  PROVE  BookOf(Book[i].id) = Book[i]
<1>1. \A t \in Range(Book) : t.id = Book[i].id => t = Book[i]
  BY ReconciliationAssumption DEF Range
<1>2. Book[i] \in Range(Book)
  BY DEF Range
<1> QED
  BY <1>1, <1>2 DEF BookOf

\* What a line and a transaction may score.
LEMMA ScoreIs ==
  ASSUME NEW l, IsLine(l), NEW i \in DOMAIN Book
  PROVE  Score(l, Book[i]) \in 0 .. 210 /\ Apart(l, Book[i]) \in Nat
<1> DEFINE t == Book[i]
<1>1. l.cents \in Nat /\ l.day \in Nat /\ t.cents \in Nat /\ t.day \in Nat
  BY BookIs DEF IsLine
<1> HIDE DEF t
<1>2. AmountScore(l, t) \in 0 .. 100
  BY DEF AmountScore
<1>3. DescriptionScore(l, t) \in 0 .. 50
  BY DEF DescriptionScore
<1>4. ReferenceScore(l, t) \in 0 .. 40
  BY DEF ReferenceScore
<1>5. DateScore(l, t) \in 0 .. 20
  BY DEF DateScore
<1>6. Apart(l, t) \in Nat
  BY <1>1 DEF Apart
<1>7. Score(l, t) \in 0 .. 210
  <2>1. ASSUME NEW w \in 0 .. 100, NEW x \in 0 .. 50, NEW y \in 0 .. 40, NEW z \in 0 .. 20
        PROVE  w + x + y + z \in 0 .. 210
    OBVIOUS
  <2>2. AmountScore(l, t) + DescriptionScore(l, t) + ReferenceScore(l, t) + DateScore(l, t) \in 0 .. 210
    BY <1>2, <1>3, <1>4, <1>5, <2>1
  <2> QED
    BY <2>2 DEF Score
<1> QED
  BY <1>6, <1>7 DEF t

\* The best candidate is one, and none has a higher score.
LEMMA BestIs ==
  ASSUME NEW l, IsLine(l), NEW among \in SUBSET DOMAIN Book, among # {}
  PROVE  /\ Best(l, among) \in among
         /\ \A j \in among : Score(l, Book[j]) <= Score(l, Book[Best(l, among)])
<1> DEFINE score == [i \in among |-> Score(l, Book[i])]
           b == Best(l, among)
<1>1. score \in [among -> 0 .. 210]
  BY ScoreIs
<1>2. among \in SUBSET Nat
  BY BookIs
<1>3. \E i \in among : \A j \in among : score[i] > score[j] \/ (score[i] = score[j] /\ i <= j)
  <2> HIDE DEF score
  <2> QED
    BY <1>1, <1>2, FirstHighest
<1>4. \E i \in among : \A j \in among :
        \/ Score(l, Book[i]) > Score(l, Book[j])
        \/ Score(l, Book[i]) = Score(l, Book[j]) /\ i <= j
  BY <1>3
<1>5. b \in among /\ \A j \in among :
        Score(l, Book[b]) > Score(l, Book[j]) \/ Score(l, Book[b]) = Score(l, Book[j])
  BY <1>4 DEF Best
<1> HIDE DEF b
<1>6. ASSUME NEW j \in among
      PROVE  Score(l, Book[j]) <= Score(l, Book[b])
  <2>1. Score(l, Book[j]) = score[j] /\ Score(l, Book[b]) = score[b]
    BY <1>5
  <2>2. score[b] > score[j] \/ score[b] = score[j]
    BY <1>5, <2>1
  <2> HIDE DEF score
  <2>4. score[b] \in Int /\ score[j] \in Int
    BY <1>1, <1>5
  <2>3. score[j] <= score[b]
    BY <2>2, <2>4
  <2> QED
    BY <2>1, <2>3
<1> QED
  BY <1>5, <1>6 DEF b

\* What holds of the pairs of the first n lines.
WellMatched(lines, n, pairs) ==
  /\ pairs \in SUBSET Pairs(n)
  /\ \A p, q \in pairs : p.line = q.line \/ p.id = q.id => p = q
  /\ \A k \in 1 .. n, i \in DOMAIN Book :
       (k \notin {p.line : p \in pairs} /\ Book[i].id \notin Matched(pairs)) =>
         Apart(lines[k], Book[i]) > Tolerance
  /\ \A p \in pairs, i \in DOMAIN Book :
       (Book[i].id \notin Matched(pairs) /\ Apart(lines[p.line], Book[i]) <= Tolerance) =>
         Score(lines[p.line], Book[i]) <= Score(lines[p.line], BookOf(p.id))

AfterLine(lines, n, pairs) ==
  LET among == Candidates(lines[n], Matched(pairs))
  IN IF among = {} THEN pairs
     ELSE pairs \cup {[line |-> n, id |-> Book[Best(lines[n], among)].id]}

LEMMA LineMatched ==
  ASSUME NEW lines, NEW n \in Nat, \A k \in 1 .. n + 1 : IsLine(lines[k]),
         NEW pairs, WellMatched(lines, n, pairs)
  PROVE  WellMatched(lines, n + 1, AfterLine(lines, n + 1, pairs))
<1> DEFINE l == lines[n + 1]
           among == Candidates(l, Matched(pairs))
           b == Best(l, among)
           new == [line |-> n + 1, id |-> Book[b].id]
           after == AfterLine(lines, n + 1, pairs)
<1>1. n + 1 \in 1 .. n + 1 /\ IsLine(l)
  OBVIOUS
<1>2. among = {i \in DOMAIN Book : Book[i].id \notin Matched(pairs) /\ Apart(l, Book[i]) <= Tolerance}
  BY DEF Candidates
<1>3. pairs \in SUBSET Pairs(n + 1) /\ \A p \in pairs : p.line \in 1 .. n /\ p.line # n + 1
  BY DEF WellMatched, Pairs
<1>4. CASE among = {}
  <2>1. after = pairs
    BY <1>4 DEF AfterLine
  <2>2. ASSUME NEW k \in 1 .. n + 1, NEW i \in DOMAIN Book,
               k \notin {p.line : p \in pairs}, Book[i].id \notin Matched(pairs)
        PROVE  Apart(lines[k], Book[i]) > Tolerance
    <3>1. CASE k \in 1 .. n
      BY <2>2, <3>1 DEF WellMatched
    <3>2. CASE k = n + 1
      <4>1. ~(Apart(l, Book[i]) <= Tolerance)
        BY <1>2, <1>4, <2>2
      <4>2. Apart(l, Book[i]) \in Nat
        BY <1>1, ScoreIs
      <4> HIDE DEF l
      <4>3. Apart(l, Book[i]) > Tolerance
        BY <4>1, <4>2 DEF Tolerance
      <4> QED
        BY <3>2, <4>3 DEF l
    <3> QED
      BY <3>1, <3>2
  <2> HIDE DEF after
  <2>3. WellMatched(lines, n + 1, pairs)
    BY <1>3, <2>2 DEF WellMatched
  <2> QED
    BY <2>1, <2>3 DEF after
<1>5. CASE among # {}
  <2>1. after = pairs \cup {new}
    BY <1>5 DEF AfterLine
  <2>2. b \in among /\ \A j \in among : Score(l, Book[j]) <= Score(l, Book[b])
    <3>1. among \in SUBSET DOMAIN Book
      BY <1>2
    <3> HIDE DEF among, l
    <3> QED
      BY <1>1, <1>5, <3>1, BestIs
  <2> HIDE DEF b
  <2>3. b \in DOMAIN Book /\ Book[b].id \notin Matched(pairs) /\ Book[b].id \in BookIds
    BY <1>2, <2>2, BookIs
  <2>4. new \in Pairs(n + 1) /\ new.line = n + 1 /\ new.id = Book[b].id
    BY <1>1, <2>3 DEF Pairs
  <2>5. Matched(after) = Matched(pairs) \cup {Book[b].id}
    BY <2>1, <2>4 DEF Matched
  <2>6. \A p \in after : p = new \/ p \in pairs
    BY <2>1
  <2>7. \A p \in pairs : p \in after /\ p.id \in Matched(pairs)
    BY <2>1 DEF Matched
  <2>8. new \in after
    BY <2>1
  <2> HIDE DEF new, after, among, l
  <2>9. after \in SUBSET Pairs(n + 1)
    BY <1>3, <2>4, <2>6
  <2>10. ASSUME NEW p \in after, NEW q \in after, p.line = q.line \/ p.id = q.id
         PROVE  p = q
    BY <1>3, <2>3, <2>4, <2>6, <2>7, <2>10 DEF WellMatched
  <2>11. ASSUME NEW k \in 1 .. n + 1, NEW i \in DOMAIN Book,
                k \notin {p.line : p \in after}, Book[i].id \notin Matched(after)
         PROVE  Apart(lines[k], Book[i]) > Tolerance
    <3>1. k # n + 1 /\ k \notin {p.line : p \in pairs} /\ Book[i].id \notin Matched(pairs)
      BY <2>4, <2>5, <2>7, <2>8, <2>11
    <3>2. k \in 1 .. n
      BY <3>1
    <3> QED
      BY <3>1, <3>2 DEF WellMatched
  <2>12. ASSUME NEW p \in after, NEW i \in DOMAIN Book,
                Book[i].id \notin Matched(after), Apart(lines[p.line], Book[i]) <= Tolerance
         PROVE  Score(lines[p.line], Book[i]) <= Score(lines[p.line], BookOf(p.id))
    <3>1. Book[i].id \notin Matched(pairs)
      BY <2>5, <2>12
    <3>2. CASE p \in pairs
      BY <2>12, <3>1, <3>2 DEF WellMatched
    <3>3. CASE p = new
      <4>1. i \in among
        BY <1>2, <2>4, <2>12, <3>1, <3>3 DEF l
      <4>2. Score(l, Book[i]) <= Score(l, Book[b])
        BY <2>2, <4>1
      <4>3. BookOf(p.id) = Book[b] /\ lines[p.line] = l
        BY <2>3, <2>4, <3>3, BookOfIs DEF l
      <4> QED
        BY <4>2, <4>3
    <3> QED
      BY <2>6, <3>2, <3>3
  <2> QED
    BY <2>9, <2>10, <2>11, <2>12 DEF WellMatched, after
<1> QED
  BY <1>4, <1>5

LEMMA AfterLineIs ==
  ASSUME NEW lines, NEW n \in Nat \ {0}, IsLine(lines[n]), NEW N, N \in Nat, n <= N,
         NEW pairs \in SUBSET Pairs(N)
  PROVE  AfterLine(lines, n, pairs) \in SUBSET Pairs(N)
<1> DEFINE among == Candidates(lines[n], Matched(pairs))
           b == Best(lines[n], among)
<1>1. among \in SUBSET DOMAIN Book
  BY DEF Candidates
<1>2. CASE among = {}
  BY <1>2 DEF AfterLine
<1>3. CASE among # {}
  <2>1. AfterLine(lines, n, pairs) = pairs \cup {[line |-> n, id |-> Book[b].id]}
    BY <1>3 DEF AfterLine
  <2>2. b \in among
    <3> DEFINE l == lines[n]
    <3> HIDE DEF among, l
    <3>1. Best(l, among) \in among
      BY <1>1, <1>3, BestIs DEF l
    <3> QED
      BY <3>1 DEF l
  <2> HIDE DEF b, among
  <2>3. Book[b].id \in BookIds
    BY <1>1, <2>2, BookIs
  <2>4. n \in 1 .. N
    OBVIOUS
  <2>5. [line |-> n, id |-> Book[b].id] \in Pairs(N)
    BY <2>3, <2>4 DEF Pairs
  <2> QED
    BY <2>1, <2>5
<1> QED
  BY <1>2, <1>3

\* The lines are matched one after the other.
LEMMA MatchUnfolds ==
  ASSUME NEW lines, Len(lines) \in Nat, \A n \in 1 .. Len(lines) : IsLine(lines[n])
  PROVE  \E f : /\ MatchTransactions(lines) = f[Len(lines)] /\ f[0] = {}
                /\ \A n \in 1 .. Len(lines) : f[n] = AfterLine(lines, n, f[n - 1])
<1> DEFINE N == Len(lines)
           Y == SUBSET Pairs(N)
           step == [n \in 1 .. N |-> [pairs \in Y |-> AfterLine(lines, n, pairs)]]
           Unfolded(f) == f = [n \in 0 .. Len(lines) |->
                     IF n = 0 THEN {}
                     ELSE LET pairs == f[n - 1]
                              among == Candidates(lines[n], Matched(pairs))
                          IN IF among = {} THEN pairs
                             ELSE pairs \cup {[line |-> n, id |-> Book[Best(lines[n], among)].id]}]
           upTo == CHOOSE f : Unfolded(f)
<1>1. \E f : Unfolded(f)
  <2> DEFINE base == {}
  <2>1. step \in [1 .. N -> [Y -> Y]]
    BY AfterLineIs
  <2>2. base \in Y
    OBVIOUS
  <2> HIDE DEF step, Y
  <2>3. StepsIn(step, N, Y)
    BY <2>1 DEF StepsIn
  <2>4. PICK f : Recurses(f, N, Y, base, step)
    <3> HIDE DEF N, base, Unfolded
    <3>1. N \in Nat
      BY DEF N
    <3> QED
      BY <2>2, <2>3, <3>1, Recursion
  <2>5. f \in [0 .. N -> Y] /\ f[0] = base
        /\ \A n \in 1 .. N : f[n] = step[n][f[n - 1]]
    BY <2>4 DEF Recurses
  <2>6. ASSUME NEW n \in 0 .. N
        PROVE  f[n] = IF n = 0 THEN {} ELSE AfterLine(lines, n, f[n - 1])
    <3>1. CASE n = 0
      BY <2>5, <3>1
    <3>2. CASE n # 0
      <4>1. n \in 1 .. N /\ n - 1 \in 0 .. N
        BY <3>2
      <4>2. f[n - 1] \in Y
        BY <2>5, <4>1
      <4>3. step[n] = [pairs \in Y |-> AfterLine(lines, n, pairs)]
        BY <4>1 DEF step
      <4>4. step[n][f[n - 1]] = AfterLine(lines, n, f[n - 1])
        BY <4>2, <4>3
      <4> QED
        BY <2>5, <3>2, <4>1, <4>4
    <3> QED
      BY <3>1, <3>2
  <2>7. f = [n \in 0 .. N |-> f[n]]
    BY <2>5
  <2>8. f = [n \in 0 .. N |-> IF n = 0 THEN {} ELSE AfterLine(lines, n, f[n - 1])]
    BY <2>6, <2>7
  <2>9. Unfolded(f)
    BY <2>8 DEF AfterLine
  <2> QED
    BY <2>9
<1>2. Unfolded(upTo)
  <2> HIDE DEF Unfolded
  <2> QED
    BY <1>1
<1>3. MatchTransactions(lines) = upTo[N]
  BY DEF MatchTransactions
<1> HIDE DEF upTo
<1>4. upTo = [n \in 0 .. N |-> IF n = 0 THEN {} ELSE AfterLine(lines, n, upTo[n - 1])]
  BY <1>2 DEF AfterLine
<1>5. upTo[0] = {} /\ \A n \in 1 .. N : upTo[n] = AfterLine(lines, n, upTo[n - 1])
  <2> HIDE DEF Unfolded
  <2>1. 0 \in 0 .. N /\ \A n \in 1 .. N : n \in 0 .. N /\ n # 0
    OBVIOUS
  <2> QED
    BY <1>4, <2>1
<1> QED
  BY <1>3, <1>5

\* All lines are matched as well as the first of them.
LEMMA MatchIs ==
  ASSUME NEW lines, Len(lines) \in Nat, \A n \in 1 .. Len(lines) : IsLine(lines[n])
  PROVE  WellMatched(lines, Len(lines), MatchTransactions(lines))
<1> DEFINE N == Len(lines)
<1>1. PICK f : /\ MatchTransactions(lines) = f[N] /\ f[0] = {}
               /\ \A n \in 1 .. N : f[n] = AfterLine(lines, n, f[n - 1])
  BY MatchUnfolds
<1> DEFINE S == {n \in Nat : n <= N => WellMatched(lines, n, f[n])}
<1>2. 0 \in S
  <2>1. WellMatched(lines, 0, {})
    BY DEF WellMatched
  <2> QED
    BY <1>1, <2>1
<1>3. ASSUME NEW n \in Nat, n \in S
      PROVE  n + 1 \in S
  <2> SUFFICES ASSUME n + 1 <= N
               PROVE  WellMatched(lines, n + 1, f[n + 1])
    OBVIOUS
  <2> HIDE DEF N
  <2>0. N \in Nat
    BY DEF N
  <2>1. WellMatched(lines, n, f[n])
    BY <1>3, <2>0
  <2>2. n + 1 \in 1 .. N /\ (n + 1) - 1 = n
    BY <2>0
  <2>3. f[n + 1] = AfterLine(lines, n + 1, f[n])
    BY <1>1, <2>2
  <2>4. \A k \in 1 .. n + 1 : k \in 1 .. N
    BY <2>0
  <2>5. \A k \in 1 .. n + 1 : IsLine(lines[k])
    BY <2>4 DEF N
  <2> DEFINE pairs == f[n]
  <2> HIDE DEF pairs
  <2>6. WellMatched(lines, n, pairs)
    BY <2>1 DEF pairs
  <2>7. WellMatched(lines, n + 1, AfterLine(lines, n + 1, pairs))
    BY <2>5, <2>6, LineMatched
  <2> QED
    BY <2>3, <2>7 DEF pairs
<1> HIDE DEF S
<1>4. Nat \subseteq S
  BY <1>2, <1>3, Induct
<1>5. N \in S
  BY <1>4
<1> QED
  BY <1>1, <1>5 DEF S

-----------------------------------------------------------------------------
(* The reconciliation processor.                                            *)

ReconStatus == {"in progress", "completed", "needs review"}
ReconRecord ==
  [account : Bank, day : Nat, start : Int, ending : Int, end : Int,
   reconciled : SUBSET BookIds, outstanding : SUBSET BookIds,
   difference : Int, status : ReconStatus]

\* What holds of a reconciliation by itself.
Kept(r) ==
  /\ r \in ReconRecord
  /\ r.ending + r.difference = r.end
  /\ r.reconciled \cap r.outstanding = {}

ReconTypes ==
  /\ DOMAIN recons \subseteq Nat /\ IsFiniteSet(DOMAIN recons)
  /\ \A id \in DOMAIN recons : Kept(recons[id])
  /\ ofAccount \in [Bank -> Seq(Nat)]
  /\ IsFiniteSet(matches)
  /\ \A m \in matches :
       m.recon \in Nat /\ m.statement \in Statement /\ m.pairs = MatchTransactions(LinesOf(m))

CompletedAddUp ==
  \A m \in matches :
    LET s == StatementOf[m.statement] IN
    m.recon \in DOMAIN recons /\ recons[m.recon].status = "completed" => s.end = Ending(s, m.pairs)

ReconInv == ReconTypes /\ CompletedAddUp /\ OneADay

LEMMA ReconAtFirst ==
  ASSUME ReconciliationInit
  PROVE  ReconInv
<1>1. recons = << >> /\ DOMAIN recons = {} /\ matches = {} /\ IsFiniteSet({})
  BY FS_EmptySet DEF ReconciliationInit
<1>2. ofAccount = [a \in Bank |-> << >>] /\ ofAccount \in [Bank -> Seq(Nat)]
  BY DEF ReconciliationInit
<1>3. \A a \in Bank : DOMAIN ofAccount[a] = {}
  BY <1>2
<1>4. \A a \in Bank : Range(ofAccount[a]) = {} /\ IsInjective(ofAccount[a])
  BY <1>3 DEF Range, IsInjective
<1>5. ReconTypes /\ CompletedAddUp
  BY <1>1, <1>2 DEF ReconTypes, CompletedAddUp
<1>6. OneADay
  BY <1>1, <1>4 DEF OneADay
<1> QED
  BY <1>5, <1>6 DEF ReconInv

\* What the lines of a statement are.
LEMMA StatementIs ==
  ASSUME NEW name \in Statement
  PROVE  LET s == StatementOf[name] IN
         /\ s.account \in Bank /\ s.day \in Nat /\ s.start \in Int /\ s.end \in Int
         /\ Len(s.lines) \in Nat /\ DOMAIN s.lines = 1 .. Len(s.lines)
         /\ \A n \in 1 .. Len(s.lines) : IsLine(s.lines[n])
<1> DEFINE s == StatementOf[name]
           lines == s.lines
<1>1. /\ s.account \in Bank /\ s.day \in Nat /\ s.start \in Int /\ s.end \in Int
      /\ lines \in Seq(Range(lines)) /\ \A l \in Range(lines) : IsLine(l)
  BY ReconciliationAssumption
<1> HIDE DEF lines
<1>2. Len(lines) \in Nat /\ DOMAIN lines = 1 .. Len(lines)
      /\ \A n \in 1 .. Len(lines) : lines[n] \in Range(lines)
  BY <1>1
<1> QED
  BY <1>1, <1>2 DEF lines

LEMMA SignedSumIs ==
  ASSUME NEW name \in Statement, NEW ns \in SUBSET DOMAIN StatementOf[name].lines
  PROVE  LET lines == StatementOf[name].lines IN
         /\ SignedSum(lines, ns) \in Int
         /\ SignedSum(lines, DOMAIN lines) = SignedSum(lines, ns) + SignedSum(lines, DOMAIN lines \ ns)
<1> DEFINE lines == StatementOf[name].lines
           D == DOMAIN lines
           f == [n \in D |-> lines[n].sign * lines[n].cents]
<1>1. IsFiniteSet(D)
  <2>1. Len(lines) \in Nat /\ D = 1 .. Len(lines)
    BY StatementIs
  <2>2. IsFiniteSet(1 .. Len(lines))
    <3> HIDE DEF lines
    <3> QED
      BY <2>1, FS_Interval
  <2> QED
    BY <2>1, <2>2
<1>2. ASSUME NEW n \in D
      PROVE  lines[n].sign * lines[n].cents \in Int
  <2>1. lines[n].sign \in {1, -1} /\ lines[n].cents \in Nat
    BY StatementIs DEF IsLine
  <2> QED
    BY <2>1
<1>3. f \in [D -> Int]
  BY <1>2
<1>4. \A T \in SUBSET D : SignedSum(lines, T) = SumFunction(Restrict(f, T))
  <2>1. \A T \in SUBSET D : Restrict(f, T) = [n \in T |-> lines[n].sign * lines[n].cents]
    BY DEF Restrict
  <2> QED
    BY <2>1 DEF SignedSum
<1>5. SignedSum(lines, D) = SumFunction(f)
  BY DEF SignedSum
<1> HIDE DEF f, D
<1>6. SumFunction(f) = SumFunction(Restrict(f, ns)) + SumFunction(Restrict(f, D \ ns))
      /\ SumFunction(Restrict(f, ns)) \in Int
  <2>1. ns \in SUBSET D
    BY DEF D
  <2> QED
    BY <1>1, <1>3, <2>1, SumParts
<1>7. SignedSum(lines, ns) = SumFunction(Restrict(f, ns))
      /\ SignedSum(lines, D \ ns) = SumFunction(Restrict(f, D \ ns))
  BY <1>4 DEF D
<1> QED
  BY <1>5, <1>6, <1>7 DEF D

\* A new id was not given before.
LEMMA NextReconIs ==
  ASSUME ReconTypes
  PROVE  /\ NextRecon \in Nat /\ NextRecon \notin DOMAIN recons
         /\ \A m \in matches : m.recon # NextRecon
<1> DEFINE given == {m.recon : m \in matches} \cup DOMAIN recons
<1>1. IsFiniteSet({m.recon : m \in matches})
  <2> DEFINE T == {m.recon : m \in matches}
             f == [m \in matches |-> m.recon]
  <2>1. IsFiniteSet(matches)
    BY DEF ReconTypes
  <2>2. f \in Surjection(matches, T)
    BY DEF Surjection
  <2> HIDE DEF f, T
  <2>3. IsFiniteSet(T)
    BY <2>1, <2>2, FS_Surjection
  <2> QED
    BY <2>3 DEF T
<1>2. IsFiniteSet(given)
  BY <1>1, FS_Union DEF ReconTypes
<1>3. given \in SUBSET Nat
  BY DEF ReconTypes
<1>4. NextRecon = Max({0} \cup given) + 1
  <2>1. {0} \cup {m.recon : m \in matches} \cup DOMAIN recons = {0} \cup given
    OBVIOUS
  <2> QED
    BY <2>1 DEF NextRecon
<1> HIDE DEF given
<1>5. Max({0} \cup given) \in Nat /\ \A y \in given : y <= Max({0} \cup given)
  BY <1>2, <1>3, HighestIs
<1>6. NextRecon \in Nat /\ NextRecon \notin given
  BY <1>3, <1>4, <1>5
<1> QED
  BY <1>6 DEF given

\* A reconciliation is new, under a new id, and what it was matched by, if
\* it was matched, with it.
LEMMA ReconAdded ==
  ASSUME ReconInv, mix' = mix, NEW r, Kept(r), ~Exists(r.account, r.day),
         recons' = WithRecon(NextRecon, r), ofAccount' = Indexed(NextRecon, r.account),
         \/ matches' = matches
         \/ \E name \in Statement :
              /\ matches' = matches \cup
                   {[recon |-> NextRecon, statement |-> name,
                     pairs |-> MatchTransactions(StatementOf[name].lines)]}
              /\ r.status = "completed" =>
                   StatementOf[name].end =
                     Ending(StatementOf[name], MatchTransactions(StatementOf[name].lines))
  PROVE  ReconInv'
<1> DEFINE id == NextRecon
           a == r.account
<1>1. id \in Nat /\ id \notin DOMAIN recons /\ \A m \in matches : m.recon # id
  BY NextReconIs DEF ReconInv
<1> HIDE DEF id
<1>2. /\ DOMAIN recons' = DOMAIN recons \cup {id} /\ recons'[id] = r
      /\ \A x \in DOMAIN recons : recons'[x] = recons[x]
  BY <1>1 DEF WithRecon, id
<1>3. a \in Bank /\ ofAccount[a] \in Seq(Nat)
  BY DEF Kept, ReconRecord, ReconInv, ReconTypes
<1>4. /\ ofAccount' \in [Bank -> Seq(Nat)] /\ ofAccount'[a] = Append(ofAccount[a], id)
      /\ \A b \in Bank : b # a => ofAccount'[b] = ofAccount[b]
  <2>1. Append(ofAccount[a], id) \in Seq(Nat)
    BY <1>1, <1>3
  <2> QED
    BY <1>3, <2>1 DEF Indexed, id, ReconInv, ReconTypes
<1>5. IsFiniteSet(matches') /\ \A m \in matches' :
        /\ m.recon \in Nat /\ m.statement \in Statement
        /\ m.pairs = MatchTransactions(LinesOf(m))
        /\ m \notin matches => m.recon = id
        /\ (m \notin matches /\ r.status = "completed") =>
             StatementOf[m.statement].end = Ending(StatementOf[m.statement], m.pairs)
  <2>1. CASE matches' = matches
    BY <2>1 DEF ReconInv, ReconTypes
  <2>2. CASE matches' # matches
    <3>1. PICK name \in Statement :
            /\ matches' = matches \cup
                 {[recon |-> id, statement |-> name,
                   pairs |-> MatchTransactions(StatementOf[name].lines)]}
            /\ r.status = "completed" =>
                 StatementOf[name].end =
                   Ending(StatementOf[name], MatchTransactions(StatementOf[name].lines))
      BY <2>2 DEF id
    <3> DEFINE new == [recon |-> id, statement |-> name,
                       pairs |-> MatchTransactions(StatementOf[name].lines)]
    <3>2. /\ new.recon = id /\ new.statement = name /\ new.pairs = MatchTransactions(LinesOf(new))
          /\ r.status = "completed" =>
               StatementOf[new.statement].end = Ending(StatementOf[new.statement], new.pairs)
      BY <3>1 DEF LinesOf
    <3>3. matches' = matches \cup {new}
      BY <3>1
    <3> HIDE DEF new
    <3>4. IsFiniteSet(matches')
      BY <3>3, FS_AddElement DEF ReconInv, ReconTypes
    <3> QED
      BY <1>1, <3>2, <3>3, <3>4 DEF ReconInv, ReconTypes
  <2> QED
    BY <2>1, <2>2
<1>6. ReconTypes'
  <2>1. IsFiniteSet(DOMAIN recons')
    BY <1>2, FS_AddElement DEF ReconInv, ReconTypes
  <2>2. \A x \in DOMAIN recons' : Kept(recons'[x])
    BY <1>2 DEF ReconInv, ReconTypes
  <2>3. DOMAIN recons' \subseteq Nat
    BY <1>1, <1>2 DEF ReconInv, ReconTypes
  <2>4. \A x \in DOMAIN recons' : (Kept(recons[x]))'
    BY <2>2 DEF Kept
  <2>5. \A m \in matches' : (LinesOf(m))' = LinesOf(m)
    BY DEF LinesOf
  <2> QED
    BY <1>4, <1>5, <2>1, <2>3, <2>4 DEF ReconTypes, LinesOf
<1>7. CompletedAddUp'
  <2> SUFFICES ASSUME NEW m \in matches', m.recon \in DOMAIN recons',
                      recons'[m.recon].status = "completed"
               PROVE  StatementOf[m.statement].end = Ending(StatementOf[m.statement], m.pairs)
    BY DEF CompletedAddUp
  <2>1. CASE m \in matches
    <3>1. m.recon \in DOMAIN recons
      BY <1>1, <1>2, <2>1
    <3> QED
      BY <1>2, <2>1, <3>1 DEF ReconInv, CompletedAddUp
  <2>2. CASE m \notin matches
    BY <1>2, <1>5, <2>2
  <2> QED
    BY <2>1, <2>2
<1>8. ASSUME Safe({"edit"})
      PROVE  /\ \A x, y \in DOMAIN recons' :
                  (recons'[x].account = recons'[y].account /\ recons'[x].day = recons'[y].day) => x = y
             /\ \A b \in Bank :
                  /\ Range(ofAccount'[b]) = {x \in DOMAIN recons' : recons'[x].account = b}
                  /\ IsInjective(ofAccount'[b])
  <2>1. /\ \A x, y \in DOMAIN recons :
             (recons[x].account = recons[y].account /\ recons[x].day = recons[y].day) => x = y
        /\ \A b \in Bank :
             /\ Range(ofAccount[b]) = {x \in DOMAIN recons : recons[x].account = b}
             /\ IsInjective(ofAccount[b])
    BY <1>8 DEF ReconInv, OneADay
  <2>2. \A x \in DOMAIN recons : recons[x].account = a => recons[x].day # r.day
    <3>1. SUFFICES ASSUME NEW x \in DOMAIN recons, recons[x].account = a, recons[x].day = r.day
                   PROVE  FALSE
      OBVIOUS
    <3>2. x \in Range(ofAccount[a])
      BY <1>3, <2>1, <3>1
    <3>3. PICK i \in DOMAIN ofAccount[a] : ofAccount[a][i] = x
      BY <3>2 DEF Range
    <3> QED
      BY <3>1, <3>3 DEF Exists
  <2>3. \A x, y \in DOMAIN recons' :
          (recons'[x].account = recons'[y].account /\ recons'[x].day = recons'[y].day) => x = y
    BY <1>2, <2>1, <2>2
  <2>4. ASSUME NEW b \in Bank
        PROVE  /\ Range(ofAccount'[b]) = {x \in DOMAIN recons' : recons'[x].account = b}
               /\ IsInjective(ofAccount'[b])
    <3>1. CASE b # a
      BY <1>1, <1>2, <1>4, <2>1, <3>1
    <3>2. CASE b = a
      <4> DEFINE s == ofAccount[a]
                 t == Append(s, id)
                 L == Len(s)
      <4>1. /\ L \in Nat /\ DOMAIN t = 1 .. L + 1 /\ DOMAIN s = 1 .. L
            /\ t[L + 1] = id /\ \A k \in 1 .. L : t[k] = s[k]
        BY <1>1, <1>3
      <4>2. Range(s) = {x \in DOMAIN recons : recons[x].account = a} /\ IsInjective(s)
        BY <1>3, <2>1
      <4>3. id \notin Range(s)
        BY <1>1, <4>2
      <4> HIDE DEF s, t, L
      <4>4. \A k \in 1 .. L + 1 : k = L + 1 \/ k \in 1 .. L
        BY <4>1
      <4>5. L + 1 \in 1 .. L + 1 /\ \A k \in 1 .. L : k \in 1 .. L + 1
        BY <4>1
      <4>6. \A k \in 1 .. L : s[k] # id
        BY <4>1, <4>3 DEF Range
      <4>7. Range(t) = Range(s) \cup {id}
        BY <4>1, <4>4, <4>5 DEF Range
      <4>8. IsInjective(t)
        BY <4>1, <4>2, <4>4, <4>6 DEF IsInjective
      <4>9. Range(t) = {x \in DOMAIN recons' : recons'[x].account = a}
        BY <1>1, <1>2, <4>2, <4>7
      <4>10. ofAccount'[b] = t
        BY <1>4, <3>2 DEF s, t
      <4> QED
        BY <3>2, <4>8, <4>9, <4>10
    <3> QED
      BY <3>1, <3>2
  <2> QED
    BY <2>3, <2>4
<1>9. OneADay'
  BY <1>8 DEF OneADay, Safe
<1> QED
  BY <1>6, <1>7, <1>9 DEF ReconInv

\* A reconciliation is marked, or moved by a caller, and is not completed by it.
LEMMA ReconChanged ==
  ASSUME ReconInv, mix' = mix, NEW id \in DOMAIN recons, NEW r, Kept(r),
         r.status = "completed" => recons[id].status = "completed",
         \/ r.account = recons[id].account /\ r.day = recons[id].day
         \/ Risk("edit"),
         recons' = [recons EXCEPT ![id] = r], UNCHANGED <<ofAccount, matches>>
  PROVE  ReconInv'
<1>1. /\ DOMAIN recons' = DOMAIN recons /\ recons'[id] = r
      /\ \A x \in DOMAIN recons : x # id => recons'[x] = recons[x]
  OBVIOUS
<1>2. ReconTypes'
  <2>1. \A x \in DOMAIN recons' : Kept(recons'[x])
    BY <1>1 DEF ReconInv, ReconTypes
  <2>2. \A x \in DOMAIN recons' : (Kept(recons[x]))'
    BY <2>1 DEF Kept
  <2> QED
    BY <1>1, <2>2 DEF ReconInv, ReconTypes, LinesOf
<1>3. CompletedAddUp'
  BY <1>1 DEF ReconInv, CompletedAddUp
<1>4. OneADay'
  <2>1. CASE Risk("edit")
    BY <2>1 DEF OneADay, Safe, Risk
  <2>2. CASE r.account = recons[id].account /\ r.day = recons[id].day
    <3>1. \A x \in DOMAIN recons :
            recons'[x].account = recons[x].account /\ recons'[x].day = recons[x].day
      BY <1>1, <2>2
    <3> QED
      BY <1>1, <3>1 DEF ReconInv, OneADay, Safe
  <2> QED
    BY <2>1, <2>2
<1> QED
  BY <1>2, <1>3, <1>4 DEF ReconInv

LEMMA ReconDeleted ==
  ASSUME ReconInv, mix' = mix, NEW id \in DOMAIN recons, DeleteReconciliation(id)
  PROVE  ReconInv'
<1> DEFINE a == recons[id].account
           s == ofAccount[a]
           I == {i \in DOMAIN s : s[i] # id}
           t == Those(s, I)
<1>1. /\ DOMAIN recons' = DOMAIN recons \ {id}
      /\ \A x \in DOMAIN recons' : recons'[x] = recons[x]
      /\ matches' = matches
  BY DEF DeleteReconciliation
<1>2. a \in Bank /\ s \in Seq(Nat) /\ I \in SUBSET DOMAIN s
  BY DEF Kept, ReconRecord, ReconInv, ReconTypes
<1>3. t \in Seq(Nat) /\ \E g : IsThose(s, I, t, g)
  <2> HIDE DEF s, I
  <2> QED
    BY <1>2, ThoseAre
<1>4. /\ ofAccount' \in [Bank -> Seq(Nat)] /\ ofAccount'[a] = t
      /\ \A b \in Bank : b # a => ofAccount'[b] = ofAccount[b]
  <2>1. ofAccount' = [ofAccount EXCEPT ![a] = t]
    BY DEF DeleteReconciliation, Removed
  <2> HIDE DEF t
  <2> QED
    BY <1>2, <1>3, <2>1 DEF ReconInv, ReconTypes
<1>5. PICK g : IsThose(s, I, t, g)
  BY <1>3
<1>6. Range(t) = Range(s) \ {id} /\ (IsInjective(s) => IsInjective(t))
  <2> HIDE DEF t, s
  <2>1. Len(t) \in Nat /\ DOMAIN t = 1 .. Len(t)
    BY <1>3
  <2>2. /\ \A k \in DOMAIN t : g[k] \in I /\ t[k] = s[g[k]]
        /\ \A j, k \in DOMAIN t : j < k => g[j] < g[k]
        /\ \A i \in I : \E k \in DOMAIN t : g[k] = i
    BY <1>5, <2>1 DEF IsThose
  <2>3. Range(t) = Range(s) \ {id}
    BY <2>2 DEF Range
  <2>4. ASSUME IsInjective(s), NEW j \in DOMAIN t, NEW k \in DOMAIN t, t[j] = t[k]
        PROVE  j = k
    <3>1. g[j] = g[k]
      BY <2>2, <2>4 DEF IsInjective
    <3>2. g[j] \in Nat /\ g[k] \in Nat
      <4>1. DOMAIN s \subseteq Nat
        BY <1>2
      <4> QED
        BY <2>2, <4>1
    <3>3. ~(j < k) /\ ~(k < j)
      BY <2>2, <3>1, <3>2
    <3> QED
      BY <2>1, <3>3
  <2> QED
    BY <2>3, <2>4 DEF IsInjective
<1> HIDE DEF t, s, I
<1>7. ReconTypes'
  <2>1. IsFiniteSet(DOMAIN recons')
    BY <1>1, FS_Subset DEF ReconInv, ReconTypes
  <2>2. \A x \in DOMAIN recons' : Kept(recons'[x])
    BY <1>1 DEF ReconInv, ReconTypes
  <2>3. \A x \in DOMAIN recons' : (Kept(recons[x]))'
    BY <2>2 DEF Kept
  <2>4. DOMAIN recons' \subseteq Nat
    BY <1>1 DEF ReconInv, ReconTypes
  <2> QED
    BY <1>1, <1>4, <2>1, <2>3, <2>4 DEF ReconInv, ReconTypes, LinesOf
<1>8. CompletedAddUp'
  BY <1>1 DEF ReconInv, CompletedAddUp
<1>9. ASSUME Safe({"edit"})
      PROVE  /\ \A x, y \in DOMAIN recons' :
                  (recons'[x].account = recons'[y].account /\ recons'[x].day = recons'[y].day) => x = y
             /\ \A b \in Bank :
                  /\ Range(ofAccount'[b]) = {x \in DOMAIN recons' : recons'[x].account = b}
                  /\ IsInjective(ofAccount'[b])
  <2>1. /\ \A x, y \in DOMAIN recons :
             (recons[x].account = recons[y].account /\ recons[x].day = recons[y].day) => x = y
        /\ \A b \in Bank :
             /\ Range(ofAccount[b]) = {x \in DOMAIN recons : recons[x].account = b}
             /\ IsInjective(ofAccount[b])
    BY <1>9 DEF ReconInv, OneADay
  <2>2. ASSUME NEW b \in Bank
        PROVE  /\ Range(ofAccount'[b]) = {x \in DOMAIN recons' : recons'[x].account = b}
               /\ IsInjective(ofAccount'[b])
    <3>1. CASE b = a
      BY <1>1, <1>2, <1>4, <1>6, <2>1, <3>1 DEF s
    <3>2. CASE b # a
      BY <1>1, <1>4, <2>1, <3>2
    <3> QED
      BY <3>1, <3>2
  <2> QED
    BY <1>1, <2>1, <2>2
<1>10. OneADay'
  BY <1>9 DEF OneADay, Safe
<1> QED
  BY <1>7, <1>8, <1>10 DEF ReconInv

LEMMA ReconsKept ==
  ASSUME ReconInv, mix' = mix, ReconciliationNext \/ UNCHANGED reconVars
  PROVE  ReconInv'
<1>1. CASE UNCHANGED reconVars
  <2>1. ReconTypes'
    BY <1>1 DEF reconVars, ReconInv, ReconTypes, Kept, LinesOf
  <2>2. CompletedAddUp' /\ OneADay'
    BY <1>1 DEF reconVars, ReconInv, CompletedAddUp, OneADay, Safe
  <2> QED
    BY <2>1, <2>2 DEF ReconInv
<1>2. ASSUME NEW a \in Bank, NEW name \in Statement, CreateReconciliation(a, StatementOf[name].day)
      PROVE  ReconInv'
  <2> DEFINE s == [account |-> a, day |-> StatementOf[name].day, start |-> 0, end |-> 0]
             r == New(s, 0, {}, {}, "in progress")
  <2>1. StatementOf[name].day \in Nat
    BY StatementIs
  <2>2. Kept(r) /\ r.account = a /\ r.day = StatementOf[name].day
    BY <2>1 DEF New, Difference, Kept, ReconRecord, ReconStatus
  <2>3. /\ ~Exists(r.account, r.day) /\ recons' = WithRecon(NextRecon, r)
        /\ ofAccount' = Indexed(NextRecon, r.account) /\ matches' = matches
    BY <1>2, <2>2 DEF CreateReconciliation
  <2> HIDE DEF r
  <2> QED
    BY <2>2, <2>3, ReconAdded
<1>3. ASSUME NEW name \in Statement, ReconcileAccount(name)
      PROVE  ReconInv'
  <2> DEFINE s == StatementOf[name]
             pairs == MatchTransactions(s.lines)
             ending == Ending(s, pairs)
             status == IF s.end = ending THEN "completed" ELSE "needs review"
             r == New(s, ending, Matched(pairs), BookIds \ Matched(pairs), status)
  <2>1. /\ s.account \in Bank /\ s.day \in Nat /\ s.start \in Int /\ s.end \in Int
        /\ Len(s.lines) \in Nat /\ DOMAIN s.lines = 1 .. Len(s.lines)
        /\ \A n \in 1 .. Len(s.lines) : IsLine(s.lines[n])
    BY StatementIs
  <2>2. WellMatched(s.lines, Len(s.lines), pairs)
    <3> DEFINE lines == s.lines
    <3> HIDE DEF lines
    <3>1. Len(lines) \in Nat /\ \A n \in 1 .. Len(lines) : IsLine(lines[n])
      BY <2>1 DEF lines
    <3>2. WellMatched(lines, Len(lines), MatchTransactions(lines))
      BY <3>1, MatchIs
    <3> QED
      BY <3>2 DEF lines
  <2>3. Matched(pairs) \in SUBSET BookIds /\ {p.line : p \in pairs} \in SUBSET DOMAIN s.lines
    <3> HIDE DEF pairs, s
    <3> QED
      BY <2>1, <2>2 DEF WellMatched, Pairs, Matched
  <2>4. ending \in Int
    <3> DEFINE ns == {p.line : p \in pairs}
    <3>1. ns \in SUBSET DOMAIN StatementOf[name].lines
      BY <2>3
    <3> HIDE DEF ns
    <3>2. SignedSum(StatementOf[name].lines, ns) \in Int
      BY <3>1, SignedSumIs
    <3> QED
      BY <2>1, <3>2 DEF Ending, ns
  <2>5. /\ ~Exists(s.account, s.day) /\ recons' = WithRecon(NextRecon, r)
        /\ ofAccount' = Indexed(NextRecon, s.account)
        /\ matches' = matches \cup {[recon |-> NextRecon, statement |-> name, pairs |-> pairs]}
    BY <1>3 DEF ReconcileAccount
  <2>6. status \in ReconStatus /\ (status = "completed" => s.end = ending)
    BY DEF ReconStatus
  <2> HIDE DEF ending, status, pairs
  <2>7. Kept(r) /\ r.account = s.account /\ r.day = s.day /\ r.status = status
    BY <2>1, <2>3, <2>4, <2>6 DEF New, Difference, Kept, ReconRecord
  <2> HIDE DEF r
  <2>8. \E n \in Statement :
          /\ matches' = matches \cup
               {[recon |-> NextRecon, statement |-> n,
                 pairs |-> MatchTransactions(StatementOf[n].lines)]}
          /\ r.status = "completed" =>
               StatementOf[n].end = Ending(StatementOf[n], MatchTransactions(StatementOf[n].lines))
    <3> WITNESS name \in Statement
    <3> QED
      BY <2>5, <2>6, <2>7 DEF pairs, ending
  <2>9. ~Exists(r.account, r.day) /\ ofAccount' = Indexed(NextRecon, r.account)
    BY <2>5, <2>7
  <2> QED
    BY <2>5, <2>7, <2>8, <2>9, ReconAdded
<1>4. ASSUME NEW id \in DOMAIN recons, AutoMatch(id)
      PROVE  ReconInv'
  <2> DEFINE r == [recons[id] EXCEPT !.status = "needs review"]
  <2>1. recons[id] \in ReconRecord /\ Kept(recons[id])
    BY DEF ReconInv, ReconTypes, Kept
  <2>2. Kept(r) /\ r.status = "needs review" /\ r.account = recons[id].account /\ r.day = recons[id].day
    BY <2>1 DEF Kept, ReconRecord, ReconStatus
  <2>3. recons' = [recons EXCEPT ![id] = r] /\ UNCHANGED <<ofAccount, matches>>
    BY <1>4 DEF AutoMatch
  <2> HIDE DEF r
  <2>4. r.status = "completed" => recons[id].status = "completed"
    BY <2>2
  <2> QED
    BY <2>2, <2>3, <2>4, ReconChanged
<1>5. ASSUME NEW id \in DOMAIN recons, NEW t \in BookIds, MarkTransactionReconciled(id, t)
      PROVE  ReconInv'
  <2> DEFINE r == Reconciled(recons[id], t)
  <2>1. recons[id] \in ReconRecord /\ Kept(recons[id])
    BY DEF ReconInv, ReconTypes, Kept
  <2>2. Kept(r) /\ r.status = recons[id].status /\ r.account = recons[id].account /\ r.day = recons[id].day
    BY <2>1 DEF Kept, ReconRecord, Reconciled
  <2>3. recons' = [recons EXCEPT ![id] = r] /\ UNCHANGED <<ofAccount, matches>>
    BY <1>5 DEF MarkTransactionReconciled
  <2> HIDE DEF r
  <2> QED
    BY <2>2, <2>3, ReconChanged
<1>6. ASSUME NEW id \in DOMAIN recons, NEW t \in BookIds, MarkTransactionUnreconciled(id, t)
      PROVE  ReconInv'
  <2> DEFINE r == Unreconciled(recons[id], t)
  <2>1. recons[id] \in ReconRecord /\ Kept(recons[id])
    BY DEF ReconInv, ReconTypes, Kept
  <2>2. Kept(r) /\ r.status = recons[id].status /\ r.account = recons[id].account /\ r.day = recons[id].day
    BY <2>1 DEF Kept, ReconRecord, Unreconciled
  <2>3. recons' = [recons EXCEPT ![id] = r] /\ UNCHANGED <<ofAccount, matches>>
    BY <1>6 DEF MarkTransactionUnreconciled
  <2> HIDE DEF r
  <2> QED
    BY <2>2, <2>3, ReconChanged
<1>7. ASSUME NEW id \in DOMAIN recons, NEW a \in Bank, NEW name \in Statement,
             UpdateReconciliation(id, a, StatementOf[name].day)
      PROVE  ReconInv'
  <2> DEFINE moved == [recons[id] EXCEPT !.account = a]
             r == [moved EXCEPT !.day = StatementOf[name].day]
  <2>1. recons[id] \in ReconRecord /\ Kept(recons[id]) /\ StatementOf[name].day \in Nat
    BY StatementIs DEF ReconInv, ReconTypes, Kept
  <2>2. Kept(r) /\ r.status = recons[id].status
    BY <2>1 DEF Kept, ReconRecord
  <2>3. /\ Risk("edit") /\ recons' = [recons EXCEPT ![id] = r]
        /\ UNCHANGED <<ofAccount, matches>>
    BY <1>7 DEF UpdateReconciliation
  <2> HIDE DEF r
  <2> QED
    BY <2>2, <2>3, ReconChanged
<1> QED
  BY <1>1, <1>2, <1>3, <1>4, <1>5, <1>6, <1>7, ReconDeleted DEF ReconciliationNext

LEMMA ReconsSound ==
  ASSUME ReconInv
  PROVE  /\ ReconciliationTypeOK
         /\ MatchedOnce /\ NothingLeftToMatch /\ NoBetterLeft
         /\ CompletedHidesNothing /\ NotBoth /\ OneADay
<1>1. ReconTypes /\ CompletedAddUp /\ OneADay
  BY DEF ReconInv
<1>2. ASSUME NEW m \in matches
      PROVE  /\ Len(LinesOf(m)) \in Nat /\ DOMAIN LinesOf(m) = 1 .. Len(LinesOf(m))
             /\ WellMatched(LinesOf(m), Len(LinesOf(m)), m.pairs)
  <2> DEFINE lines == LinesOf(m)
  <2>1. m.statement \in Statement /\ m.pairs = MatchTransactions(lines)
    BY <1>1 DEF ReconTypes
  <2>2. /\ Len(lines) \in Nat /\ DOMAIN lines = 1 .. Len(lines)
        /\ \A n \in 1 .. Len(lines) : IsLine(lines[n])
    BY <2>1, StatementIs DEF LinesOf
  <2> HIDE DEF lines
  <2>3. WellMatched(lines, Len(lines), MatchTransactions(lines))
    BY <2>2, MatchIs
  <2> QED
    BY <2>1, <2>2, <2>3 DEF lines
<1>3. MatchedOnce
  BY <1>2 DEF MatchedOnce, WellMatched
<1>4. NothingLeftToMatch
  BY <1>2 DEF NothingLeftToMatch, WellMatched
<1>5. NoBetterLeft
  BY <1>2 DEF NoBetterLeft, WellMatched
<1>6. CompletedHidesNothing
  <2> SUFFICES ASSUME NEW m \in matches, m.recon \in DOMAIN recons,
                      recons[m.recon].status = "completed",
                      StatementOf[m.statement].end - StatementOf[m.statement].start
                        = SignedSum(LinesOf(m), DOMAIN LinesOf(m))
               PROVE  SignedSum(LinesOf(m), DOMAIN LinesOf(m) \ {p.line : p \in m.pairs}) = 0
    BY DEF CompletedHidesNothing, LinesOf
  <2> DEFINE name == m.statement
             s == StatementOf[name]
             ns == {p.line : p \in m.pairs}
  <2>1. name \in Statement /\ s.end = Ending(s, m.pairs)
    BY <1>1 DEF ReconTypes, CompletedAddUp
  <2>2. s.start \in Int /\ s.end \in Int
    BY <2>1, StatementIs
  <2>3. ns \in SUBSET DOMAIN StatementOf[name].lines
    <3>1. DOMAIN StatementOf[name].lines = 1 .. Len(LinesOf(m))
      BY <1>2 DEF LinesOf
    <3>2. m.pairs \in SUBSET Pairs(Len(LinesOf(m)))
      BY <1>2 DEF WellMatched
    <3> QED
      BY <3>1, <3>2 DEF Pairs
  <2> DEFINE lines == s.lines
             all == SignedSum(lines, DOMAIN lines)
             rest == SignedSum(lines, DOMAIN lines \ ns)
             some == SignedSum(lines, ns)
  <2>4. s.end = s.start + some /\ s.end - s.start = all
    BY <2>1 DEF Ending, LinesOf
  <2>5. some \in Int /\ all = some + rest
    <3> HIDE DEF name, ns
    <3> QED
      BY <2>1, <2>3, SignedSumIs
  <2>6. rest \in Int
    <3> DEFINE others == DOMAIN lines \ ns
    <3>1. others \in SUBSET DOMAIN StatementOf[name].lines
      OBVIOUS
    <3> HIDE DEF name, others
    <3>2. SignedSum(StatementOf[name].lines, others) \in Int
      BY <2>1, <3>1, SignedSumIs
    <3> QED
      BY <3>2 DEF others
  <2> HIDE DEF rest, some, all, s
  <2>7. rest = 0
    BY <2>2, <2>4, <2>5, <2>6
  <2> QED
    BY <2>7 DEF rest, s, LinesOf
<1>7. ReconciliationTypeOK /\ NotBoth
  BY <1>1 DEF ReconTypes, Kept, ReconRecord, ReconciliationTypeOK, NotBoth
<1> QED
  BY <1>1, <1>3, <1>4, <1>5, <1>6, <1>7

-----------------------------------------------------------------------------
(* Leap years.                                                              *)

LEMMA LeapIs ==
  ASSUME NEW y \in Int
  PROVE  /\ LeapDays(y) \in Int
         /\ LeapDays(y) - LeapDays(y - 1) = IF IsLeapYear(y) THEN 1 ELSE 0
         /\ LongYear(y) <=> IsLeapYear(y)
<1>1. LeapDays(y) \in Int /\ LeapDays(y - 1) \in Int
  BY DEF LeapDays
<1>2. LeapDays(y) - LeapDays(y - 1) =
        (IF y % 4 = 0 THEN 1 ELSE 0) - (IF y % 100 = 0 THEN 1 ELSE 0) + (IF y % 400 = 0 THEN 1 ELSE 0)
  BY LeapStep DEF LeapDays
<1>3. LeapDays(y) - LeapDays(y - 1) = IF IsLeapYear(y) THEN 1 ELSE 0
  BY <1>2, LeapStep DEF IsLeapYear
<1> QED
  BY <1>1, <1>3 DEF LongYear

-----------------------------------------------------------------------------
(* Months and years follow each other.                                      *)

LEMMA TwelveMonths ==
  /\ MonthLengths[1] = 31 /\ MonthLengths[2] = 28 /\ MonthLengths[3] = 31 /\ MonthLengths[4] = 30
  /\ MonthLengths[5] = 31 /\ MonthLengths[6] = 30 /\ MonthLengths[7] = 31 /\ MonthLengths[8] = 31
  /\ MonthLengths[9] = 30 /\ MonthLengths[10] = 31 /\ MonthLengths[11] = 30 /\ MonthLengths[12] = 31
  /\ DaysBefore[1] = 0 /\ DaysBefore[2] = 31 /\ DaysBefore[3] = 59 /\ DaysBefore[4] = 90
  /\ DaysBefore[5] = 120 /\ DaysBefore[6] = 151 /\ DaysBefore[7] = 181 /\ DaysBefore[8] = 212
  /\ DaysBefore[9] = 243 /\ DaysBefore[10] = 273 /\ DaysBefore[11] = 304 /\ DaysBefore[12] = 334
  /\ \A m \in 1 .. 12 : m \in {1, 2, 3, 4, 5, 6, 7, 8, 9, 10, 11, 12}
  BY DEF MonthLengths, DaysBefore

LEMMA MonthsFollow ==
  /\ \A m \in 1 .. 12 : MonthLengths[m] \in 28 .. 31 /\ DaysBefore[m] \in Nat
  /\ \A m, k \in 1 .. 12 : m < k => DaysBefore[m] + MonthLengths[m] <= DaysBefore[k]
  /\ \A m \in 1 .. 11 : DaysBefore[m] + MonthLengths[m] = DaysBefore[m + 1]
<1>1. ASSUME NEW m \in 1 .. 12
      PROVE  /\ MonthLengths[m] \in 28 .. 31 /\ DaysBefore[m] \in Nat
             /\ \A k \in 1 .. 12 : m < k => DaysBefore[m] + MonthLengths[m] <= DaysBefore[k]
             /\ m # 12 => DaysBefore[m] + MonthLengths[m] = DaysBefore[m + 1]
  BY TwelveMonths
<1> QED
  BY <1>1

\* A month within its year.
LEMMA MonthIs ==
  ASSUME NEW y \in Nat
  PROVE  /\ YearStart(y) \in Int /\ YearStart(y + 1) \in Int
         /\ YearStart(y + 1) = YearStart(y) + 365 + (IF LongYear(y) THEN 1 ELSE 0)
         /\ MonthStart(y, 1) = YearStart(y) /\ MonthStart(y, 12) + MonthLength(y, 12) = YearStart(y + 1)
         /\ \A m \in 1 .. 12 : MonthStart(y, m) \in Int /\ MonthLength(y, m) \in 28 .. 31
         /\ \A m, k \in 1 .. 12 : m < k => MonthStart(y, m) + MonthLength(y, m) <= MonthStart(y, k)
         /\ \A m \in 1 .. 11 : MonthStart(y, m + 1) = MonthStart(y, m) + MonthLength(y, m)
<1> DEFINE long == IF LongYear(y) THEN 1 ELSE 0
<1>1. LeapDays(y) \in Int /\ LeapDays(y - 1) \in Int /\ LeapDays(y) - LeapDays(y - 1) = long
  BY LeapIs
<1>2. YearStart(y) \in Int /\ YearStart(y + 1) = YearStart(y) + 365 + long
  <2>1. (y + 1) - 1 = y
    OBVIOUS
  <2> QED
    BY <1>1, <2>1 DEF YearStart
<1>3. \A m : /\ MonthStart(y, m) = YearStart(y) + DaysBefore[m] + (IF m > 2 THEN long ELSE 0)
             /\ MonthLength(y, m) = MonthLengths[m] + (IF m = 2 THEN long ELSE 0)
  BY DEF MonthStart, MonthLength
<1>4. long \in 0 .. 1
  OBVIOUS
<1> HIDE DEF long
<1>5. \A m \in 1 .. 12 : MonthStart(y, m) \in Int /\ MonthLength(y, m) \in 28 .. 31
  <2> SUFFICES ASSUME NEW m \in 1 .. 12
               PROVE  MonthStart(y, m) \in Int /\ MonthLength(y, m) \in 28 .. 31
    OBVIOUS
  <2>1. m = 2 => MonthLengths[m] = 28
    BY TwelveMonths
  <2>2. MonthLengths[m] \in 28 .. 31 /\ DaysBefore[m] \in Nat
    BY MonthsFollow
  <2> QED
    BY <1>2, <1>3, <1>4, <2>1, <2>2
<1>6. ASSUME NEW m \in 1 .. 12, NEW k \in 1 .. 12, m < k
      PROVE  MonthStart(y, m) + MonthLength(y, m) <= MonthStart(y, k)
  <2>1. DaysBefore[m] + MonthLengths[m] <= DaysBefore[k]
    BY <1>6, MonthsFollow
  <2>2. DaysBefore[m] \in Int /\ DaysBefore[k] \in Int /\ MonthLengths[m] \in Int
    BY MonthsFollow
  <2> QED
    BY <1>2, <1>3, <1>4, <1>6, <2>1, <2>2
<1>7. ASSUME NEW m \in 1 .. 11
      PROVE  MonthStart(y, m + 1) = MonthStart(y, m) + MonthLength(y, m)
  <2>1. DaysBefore[m] + MonthLengths[m] = DaysBefore[m + 1] /\ m \in 1 .. 12 /\ m + 1 \in 1 .. 12
    BY MonthsFollow
  <2>2. DaysBefore[m] \in Int /\ DaysBefore[m + 1] \in Int /\ MonthLengths[m] \in Int
    BY <2>1, MonthsFollow
  <2> QED
    BY <1>2, <1>3, <1>4, <2>1, <2>2
<1>8. MonthStart(y, 1) = YearStart(y) /\ MonthStart(y, 12) + MonthLength(y, 12) = YearStart(y + 1)
  BY <1>2, <1>3, <1>4, TwelveMonths
<1> QED
  BY <1>2, <1>4, <1>5, <1>6, <1>7, <1>8 DEF long

LEMMA YearZero == YearStart(0) \in Int /\ YearStart(0) = 0 - 1
<1>1. PICK a \in Int : a = 0 - 1
  OBVIOUS
<1>2. a \in Int /\ a < 0 /\ a + 1 = 0
  BY <1>1
<1>3. a \div 4 = a
  BY <1>2
<1>4. a \div 100 = a
  BY <1>2
<1>5. a \div 400 = a
  BY <1>2
<1>6. LeapDays(a) = a
  BY <1>2, <1>3, <1>4, <1>5 DEF LeapDays
<1>7. YearStart(0) = 365 * 0 + LeapDays(0 - 1)
  BY DEF YearStart
<1> QED
  BY <1>1, <1>6, <1>7

\* Years follow each other.
LEMMA YearOrder ==
  ASSUME NEW y \in Nat
  PROVE  \A k \in Nat : YearStart(y) + 365 * k <= YearStart(y + k)
                        /\ YearStart(y + k) <= YearStart(y) + 366 * k
<1> DEFINE S == {k \in Nat : YearStart(y) + 365 * k <= YearStart(y + k)
                             /\ YearStart(y + k) <= YearStart(y) + 366 * k}
<1>1. 0 \in S
  <2>1. y + 0 = y /\ YearStart(y) \in Int
    BY MonthIs
  <2> QED
    BY <2>1
<1>2. ASSUME NEW k \in Nat, k \in S
      PROVE  k + 1 \in S
  <2>1. y + k \in Nat /\ y + (k + 1) = (y + k) + 1
    OBVIOUS
  <2>2. /\ YearStart(y + k) \in Int /\ YearStart(y) \in Int /\ YearStart((y + k) + 1) \in Int
        /\ YearStart((y + k) + 1) - YearStart(y + k) \in 365 .. 366
    BY <2>1, MonthIs
  <2>3. 365 * (k + 1) = 365 * k + 365 /\ 366 * (k + 1) = 366 * k + 366
    OBVIOUS
  <2> DEFINE a == YearStart(y)
             b == YearStart(y + k)
             c == YearStart((y + k) + 1)
  <2>4. a + 365 * k <= b /\ b <= a + 366 * k
    BY <1>2
  <2>5. YearStart(y + (k + 1)) = c
    BY <2>1
  <2> HIDE DEF a, b, c
  <2>6. a \in Int /\ b \in Int /\ c \in Int /\ c - b \in 365 .. 366
    BY <2>2 DEF a, b, c
  <2>7. a + 365 * (k + 1) <= c /\ c <= a + 366 * (k + 1)
    BY <2>4, <2>6
  <2> QED
    BY <2>5, <2>7 DEF a
<1> HIDE DEF S
<1>3. Nat \subseteq S
  BY <1>1, <1>2, Induct
<1> QED
  BY <1>3 DEF S

-----------------------------------------------------------------------------
(* Dates and their numbers.                                                 *)

LEMMA DatesAre ==
  ASSUME NEW x \in Dates
  PROVE  /\ x.y \in Nat /\ x.m \in 1 .. 12 /\ x.d \in 1 .. 31 /\ x.d <= MonthLength(x.y, x.m)
         /\ MonthLength(x.y, x.m) \in 28 .. 31
         /\ x = Date(x.y, x.m, x.d) /\ x # Panic
<1>1. x \in [y : Nat, m : 1 .. 12, d : 1 .. 31] /\ x.d <= MonthLength(x.y, x.m)
  BY DEF Dates
<1>2. x = [y |-> x.y, m |-> x.m, d |-> x.d] /\ x.y \in Nat /\ x.m \in 1 .. 12 /\ x.d \in 1 .. 31
  BY <1>1
<1>3. x # Panic
  <2>1. DOMAIN x = {"y", "m", "d"} /\ DOMAIN Panic = {"panic"}
    BY <1>1 DEF Panic
  <2> QED
    BY <2>1
<1>4. MonthLength(x.y, x.m) \in 28 .. 31
  BY <1>2, MonthIs
<1> QED
  BY <1>1, <1>2, <1>3, <1>4 DEF Date

LEMMA DateIs ==
  ASSUME NEW y \in Nat, NEW m \in 1 .. 12, NEW d \in Nat \ {0}, d <= MonthLength(y, m)
  PROVE  Date(y, m, d) \in Dates /\ Date(y, m, d).y = y /\ Date(y, m, d).m = m /\ Date(y, m, d).d = d
<1>1. d \in 1 .. 31
  <2>1. MonthLength(y, m) \in 28 .. 31
    BY MonthIs
  <2> QED
    BY <2>1
<1> QED
  BY <1>1 DEF Date, Dates

LEMMA NumberIs ==
  ASSUME NEW x \in Dates
  PROVE  /\ Number(x) \in Nat /\ Number(x) = MonthStart(x.y, x.m) + x.d
         /\ MonthStart(x.y, x.m) \in Int
         /\ MonthStart(x.y, x.m) < Number(x)
         /\ Number(x) <= MonthStart(x.y, x.m) + MonthLength(x.y, x.m)
         /\ YearStart(x.y) < Number(x) /\ Number(x) <= YearStart(x.y + 1)
<1> DEFINE y == x.y
           m == x.m
           d == x.d
<1>1. y \in Nat /\ m \in 1 .. 12 /\ d \in 1 .. 31 /\ d <= MonthLength(y, m)
  BY DatesAre
<1>2. Number(x) = MonthStart(y, m) + d
  BY DEF Number
<1> HIDE DEF y, m, d
<1>3. /\ MonthStart(y, m) \in Int /\ MonthLength(y, m) \in 28 .. 31
      /\ YearStart(y) \in Int /\ YearStart(y + 1) \in Int
      /\ MonthStart(y, 1) = YearStart(y) /\ MonthStart(y, 12) + MonthLength(y, 12) = YearStart(y + 1)
      /\ 1 < m => MonthStart(y, 1) + MonthLength(y, 1) <= MonthStart(y, m)
      /\ m < 12 => MonthStart(y, m) + MonthLength(y, m) <= MonthStart(y, 12)
      /\ MonthStart(y, 12) \in Int /\ MonthLength(y, 1) \in 28 .. 31 /\ MonthLength(y, 12) \in 28 .. 31
  BY <1>1, MonthIs
<1>4. YearStart(y) <= MonthStart(y, m)
  <2>1. CASE m = 1
    BY <1>3, <2>1
  <2>2. CASE m # 1
    BY <1>1, <1>3, <2>2
  <2> QED
    BY <2>1, <2>2
<1>5. MonthStart(y, m) + MonthLength(y, m) <= YearStart(y + 1)
  <2>1. CASE m = 12
    BY <1>3, <2>1
  <2>2. CASE m # 12
    BY <1>1, <1>3, <2>2
  <2> QED
    BY <2>1, <2>2
<1>6. -1 <= YearStart(y)
  <2>1. YearStart(0) = 0 - 1
    BY YearZero
  <2>2. 0 + y = y /\ YearStart(0) + 365 * y <= YearStart(0 + y)
    BY <1>1, YearOrder
  <2> QED
    BY <1>1, <1>3, <2>1, <2>2
<1>7. /\ Number(x) \in Nat /\ MonthStart(y, m) < Number(x)
      /\ Number(x) <= MonthStart(y, m) + MonthLength(y, m)
      /\ YearStart(y) < Number(x) /\ Number(x) <= YearStart(y + 1)
  BY <1>1, <1>2, <1>3, <1>4, <1>5, <1>6
<1> QED
  BY <1>2, <1>3, <1>7 DEF y, m, d

NotAfter(x, z) ==
  \/ x.y < z.y
  \/ x.y = z.y /\ x.m < z.m
  \/ x.y = z.y /\ x.m = z.m /\ x.d <= z.d

\* The order of the numbers is that of the dates.
LEMMA NumberOrder ==
  ASSUME NEW x \in Dates, NEW z \in Dates
  PROVE  /\ Number(x) <= Number(z) <=> NotAfter(x, z)
         /\ Number(x) = Number(z) => x = z
<1>1. ASSUME NEW a \in Dates, NEW b \in Dates, NotAfter(a, b), a # b
      PROVE  Number(a) < Number(b)
  <2>0. /\ a.y \in Nat /\ b.y \in Nat /\ a.m \in 1 .. 12 /\ b.m \in 1 .. 12
        /\ a.d \in Nat /\ b.d \in Nat
        /\ a = Date(a.y, a.m, a.d) /\ b = Date(b.y, b.m, b.d)
    BY DatesAre
  <2>1. CASE a.y < b.y
    <3> DEFINE k == b.y - (a.y + 1)
    <3>1. k \in Nat /\ a.y + 1 \in Nat /\ (a.y + 1) + k = b.y
      BY <2>0, <2>1
    <3>2. YearStart(a.y + 1) + 365 * k <= YearStart((a.y + 1) + k)
      BY <3>1, YearOrder
    <3>3. Number(a) <= YearStart(a.y + 1) /\ YearStart(b.y) < Number(b)
          /\ Number(a) \in Int /\ Number(b) \in Int
      BY NumberIs
    <3>4. YearStart(a.y + 1) \in Int /\ YearStart(b.y) \in Int
      BY <2>0, MonthIs
    <3> HIDE DEF k
    <3>5. YearStart(a.y + 1) <= YearStart(b.y)
      BY <3>1, <3>2, <3>4
    <3> QED
      BY <3>3, <3>4, <3>5
  <2>2. CASE a.y = b.y /\ a.m < b.m
    <3>1. MonthStart(a.y, a.m) + MonthLength(a.y, a.m) <= MonthStart(a.y, b.m)
          /\ MonthStart(a.y, b.m) \in Int /\ MonthStart(a.y, a.m) \in Int
          /\ MonthLength(a.y, a.m) \in 28 .. 31
      <4> DEFINE y == a.y
      <4> HIDE DEF y
      <4>1. y \in Nat
        BY <2>0 DEF y
      <4>2. \A m \in 1 .. 12 : MonthStart(y, m) \in Int /\ MonthLength(y, m) \in 28 .. 31
        BY <4>1, MonthIs
      <4>3. \A m, k \in 1 .. 12 : m < k => MonthStart(y, m) + MonthLength(y, m) <= MonthStart(y, k)
        BY <4>1, MonthIs
      <4>4. /\ MonthStart(y, a.m) + MonthLength(y, a.m) <= MonthStart(y, b.m)
            /\ MonthStart(y, b.m) \in Int /\ MonthStart(y, a.m) \in Int
            /\ MonthLength(y, a.m) \in 28 .. 31
        BY <2>0, <2>2, <4>2, <4>3
      <4> QED
        BY <4>4 DEF y
    <3>2. Number(a) <= MonthStart(a.y, a.m) + MonthLength(a.y, a.m) /\ MonthStart(a.y, b.m) < Number(b)
          /\ Number(a) \in Int /\ Number(b) \in Int
      BY <2>2, NumberIs
    <3> QED
      BY <3>1, <3>2
  <2>3. CASE a.y = b.y /\ a.m = b.m /\ a.d <= b.d
    <3>1. a.d # b.d
      BY <1>1, <2>0, <2>3
    <3>2. Number(a) = MonthStart(a.y, a.m) + a.d /\ Number(b) = MonthStart(a.y, a.m) + b.d
          /\ MonthStart(a.y, a.m) \in Int
      BY <2>3, NumberIs
    <3> QED
      BY <2>0, <2>3, <3>1, <3>2
  <2> QED
    BY <1>1, <2>1, <2>2, <2>3 DEF NotAfter
<1>2. Number(x) \in Int /\ Number(z) \in Int
  BY NumberIs
<1>3. NotAfter(x, z) \/ NotAfter(z, x)
  <2>1. /\ x.y \in Nat /\ z.y \in Nat /\ x.m \in 1 .. 12 /\ z.m \in 1 .. 12
        /\ x.d \in 1 .. 31 /\ z.d \in 1 .. 31
    BY DatesAre
  <2> QED
    BY <2>1 DEF NotAfter
<1>4. NotAfter(x, x)
  BY DatesAre DEF NotAfter
<1>5. CASE x = z
  BY <1>2, <1>4, <1>5
<1>6. CASE x # z /\ NotAfter(x, z)
  BY <1>1, <1>2, <1>6
<1>7. CASE x # z /\ ~NotAfter(x, z)
  <2>1. Number(z) < Number(x)
    BY <1>1, <1>3, <1>7
  <2> QED
    BY <1>2, <1>7, <2>1
<1> QED
  BY <1>5, <1>6, <1>7

\* Each number is one of a date.
LEMMA OfNumberIs ==
  ASSUME NEW n \in Nat
  PROVE  OfNumber(n) \in Dates /\ Number(OfNumber(n)) = n
<1> DEFINE Y == (n \div 366 - 1) .. (n \div 365)
           y == CHOOSE y \in Y : YearStart(y) < n /\ n <= YearStart(y + 1)
           m == CHOOSE m \in 1 .. 12 :
                  MonthStart(y, m) < n /\ (m = 12 \/ n <= MonthStart(y, m + 1))
           d == n - MonthStart(y, m)
<1>0. YearStart(0) = 0 - 1
  BY YearZero
<1>1. \E k \in Y : YearStart(k) < n /\ n <= YearStart(k + 1)
  <2> DEFINE T == {k \in Nat : n <= YearStart(k + 1)}
  <2>1. n \in T
    <3>1. n + 1 \in Nat /\ 0 + (n + 1) = n + 1 /\ 365 * (n + 1) = 365 * n + 365
      OBVIOUS
    <3>2. YearStart(0) + 365 * (n + 1) <= YearStart(0 + (n + 1))
      BY <3>1, YearOrder
    <3>3. YearStart(n + 1) \in Int
      BY <3>1, MonthIs
    <3> QED
      BY <1>0, <3>1, <3>2, <3>3
  <2>2. PICK k \in T : \A i \in T : k <= i
    <3>1. T \in SUBSET Nat /\ T # {}
      BY <2>1
    <3> HIDE DEF T
    <3> QED
      BY <3>1, LeastElement
  <2>3. k \in Nat /\ n <= YearStart(k + 1) /\ YearStart(k) \in Int /\ YearStart(k + 1) \in Int
    BY <2>2, MonthIs
  <2>4. YearStart(k) < n
    <3>1. CASE k = 0
      BY <1>0, <3>1
    <3>2. CASE k # 0
      <4>1. k - 1 \in Nat /\ (k - 1) + 1 = k /\ ~(k <= k - 1)
        BY <2>3, <3>2
      <4>2. k - 1 \notin T
        BY <2>2, <4>1
      <4> QED
        BY <2>3, <4>1, <4>2
    <3> QED
      BY <3>1, <3>2
  <2>5. 365 * k - 1 <= YearStart(k) /\ YearStart(k + 1) <= 366 * (k + 1) - 1
    <3>0. 0 \in Nat /\ k + 1 \in Nat
      BY <2>3
    <3>3. \A j \in Nat : YearStart(0) + 365 * j <= YearStart(0 + j)
                         /\ YearStart(0 + j) <= YearStart(0) + 366 * j
      BY <3>0, YearOrder
    <3>1. YearStart(0) + 365 * k <= YearStart(0 + k) /\ YearStart(0 + (k + 1)) <= YearStart(0) + 366 * (k + 1)
      BY <2>3, <3>0, <3>3
    <3>2. 0 + k = k /\ 0 + (k + 1) = k + 1
      BY <2>3
    <3> QED
      BY <1>0, <2>3, <3>1, <3>2
  <2>6. 365 * k <= n /\ n <= 366 * k + 365
    BY <2>3, <2>4, <2>5
  <2>7. k <= n \div 365 /\ n \div 366 - 1 <= k
    BY <2>3, <2>6
  <2>8. k \in Y
    BY <2>3, <2>7
  <2> QED
    BY <2>3, <2>4, <2>8
<1>2. y \in Y /\ YearStart(y) < n /\ n <= YearStart(y + 1)
  <2> HIDE DEF Y
  <2> QED
    BY <1>1
<1>3. OfNumber(n) = Date(y, m, d)
  BY DEF OfNumber
<1> HIDE DEF y
<1>4. y \in Nat
  <2>1. y \in Int /\ n \div 366 - 1 <= y /\ n \div 366 >= 0
    BY <1>2
  <2>2. y # -1
    BY <1>0, <1>2
  <2> QED
    BY <2>1, <2>2
<1>5. \E k \in 1 .. 12 : MonthStart(y, k) < n /\ (k = 12 \/ n <= MonthStart(y, k + 1))
  <2> DEFINE T == {k \in 1 .. 12 : k = 12 \/ n <= MonthStart(y, k + 1)}
  <2>1. PICK k \in T : \A i \in T : k <= i
    <3>1. T \in SUBSET Nat /\ 12 \in T
      OBVIOUS
    <3> HIDE DEF T
    <3> QED
      BY <3>1, LeastElement
  <2>2. MonthStart(y, k) < n
    <3>1. CASE k = 1
      BY <1>2, <1>4, <3>1, MonthIs
    <3>2. CASE k # 1
      <4>1. k - 1 \in 1 .. 12 /\ (k - 1) + 1 = k /\ k - 1 # 12 /\ ~(k <= k - 1)
        BY <3>2
      <4>2. k - 1 \notin T
        BY <2>1, <4>1
      <4>3. MonthStart(y, k) \in Int
        BY <1>4, MonthIs
      <4> QED
        BY <4>1, <4>2, <4>3
    <3> QED
      BY <3>1, <3>2
  <2> QED
    BY <2>1, <2>2
<1>6. m \in 1 .. 12 /\ MonthStart(y, m) < n /\ (m = 12 \/ n <= MonthStart(y, m + 1))
  BY <1>5
<1> HIDE DEF m
<1>7. MonthStart(y, m) \in Int /\ n <= MonthStart(y, m) + MonthLength(y, m)
      /\ MonthLength(y, m) \in 28 .. 31
  <2>1. MonthStart(y, m) \in Int /\ MonthLength(y, m) \in 28 .. 31
    BY <1>4, <1>6, MonthIs
  <2>2. CASE m = 12
    BY <1>2, <1>4, <2>1, <2>2, MonthIs
  <2>3. CASE m # 12
    <3>1. m \in 1 .. 11
      BY <1>6, <2>3
    <3>2. MonthStart(y, m + 1) = MonthStart(y, m) + MonthLength(y, m)
      BY <1>4, <3>1, MonthIs
    <3> QED
      BY <1>6, <2>1, <2>3, <3>2
  <2> QED
    BY <2>2, <2>3
<1>8. d \in Nat \ {0} /\ d <= MonthLength(y, m)
  BY <1>6, <1>7
<1>9. MonthStart(y, m) + d = n
  BY <1>7
<1> HIDE DEF d
<1>10. Date(y, m, d) \in Dates /\ Number(Date(y, m, d)) = MonthStart(y, m) + d
  BY <1>4, <1>6, <1>8, DateIs DEF Number
<1> QED
  BY <1>3, <1>9, <1>10

\* So that a date is shifted to another by so many days.
LEMMA ShiftedIs ==
  ASSUME NEW x \in Dates, NEW k \in Int, Number(x) + k >= 0
  PROVE  /\ Shifted(x, k) \in Dates /\ Number(Shifted(x, k)) = Number(x) + k
         /\ \A z \in Dates : Number(z) = Number(x) + k => Shifted(x, k) = z
<1>1. Number(x) + k \in Nat
  BY NumberIs
<1> DEFINE n == Number(x) + k
<1>2. Shifted(x, k) = OfNumber(n)
  BY DEF Shifted
<1> HIDE DEF n
<1>3. OfNumber(n) \in Dates /\ Number(OfNumber(n)) = n
  BY <1>1, OfNumberIs DEF n
<1>4. \A z \in Dates : Number(z) = n => OfNumber(n) = z
  BY <1>3, NumberOrder
<1> QED
  BY <1>2, <1>3, <1>4 DEF n

-----------------------------------------------------------------------------
(* What the functions answer.                                               *)

\* chrono finds the days of the month.
LEMMA YmdIs ==
  ASSUME NEW y \in Nat, NEW m \in 1 .. 12, NEW d \in Nat \ {0}
  PROVE  /\ d <= MonthLength(y, m) => Ymd(y, m, d) = Date(y, m, d) /\ Ymd(y, m, d) \in Dates
         /\ ~(d <= MonthLength(y, m)) => Ymd(y, m, d) = Panic
         /\ d <= 28 => d <= MonthLength(y, m)
<1>1. MonthLength(y, m) \in 28 .. 31
  BY MonthIs
<1>2. d <= MonthLength(y, m) => Ymd(y, m, d) = Date(y, m, d) /\ Date(y, m, d) \in Dates
  BY DateIs DEF Ymd
<1>3. ~(d <= MonthLength(y, m)) => Ymd(y, m, d) = Panic
  BY DEF Ymd
<1> QED
  BY <1>1, <1>2, <1>3

\* The day before is the one whose number is one less.
LEMMA BeforeIs ==
  ASSUME NEW x \in Dates, NEW z \in Dates, Number(z) + 1 = Number(x)
  PROVE  DayBefore(x) = z /\ Shifted(z, 1) = x
<1>1. Number(x) \in Nat /\ Number(z) \in Nat
  BY NumberIs
<1>2. PICK k \in Int : k = -1
  OBVIOUS
<1>3. Number(x) + k = Number(z) /\ Number(x) + k >= 0 /\ Number(z) + 1 >= 0
  BY <1>1, <1>2
<1>4. Shifted(x, k) = z
  BY <1>3, ShiftedIs
<1>5. Shifted(z, 1) = x
  BY <1>3, ShiftedIs
<1> QED
  BY <1>2, <1>4, <1>5 DEF DayBefore

\* The day before the first of the next month is the month's last.
LEMMA LastDayIs ==
  ASSUME NEW y \in Nat, NEW m \in 1 .. 12
  PROVE  LET next == IF m = 12 THEN Date(y + 1, 1, 1) ELSE Date(y, m + 1, 1)
             last == Date(y, m, MonthLength(y, m))
         IN /\ next \in Dates /\ last \in Dates
            /\ DayBefore(next) = last /\ Shifted(last, 1) = next
<1> DEFINE next == IF m = 12 THEN Date(y + 1, 1, 1) ELSE Date(y, m + 1, 1)
           last == Date(y, m, MonthLength(y, m))
<1>1. MonthLength(y, m) \in 28 .. 31 /\ MonthStart(y, m) \in Int
  BY MonthIs
<1>2. last \in Dates /\ Number(last) = MonthStart(y, m) + MonthLength(y, m)
  <2>1. MonthLength(y, m) \in Nat \ {0} /\ MonthLength(y, m) <= MonthLength(y, m)
    BY <1>1
  <2> QED
    BY <2>1, DateIs DEF Number
<1>3. next \in Dates /\ Number(next) = (MonthStart(y, m) + MonthLength(y, m)) + 1
  <2>1. CASE m = 12
    <3>1. y + 1 \in Nat /\ MonthLength(y + 1, 1) \in 28 .. 31
      BY MonthIs
    <3>2. 1 \in 1 .. 12 /\ 1 \in Nat \ {0} /\ 1 <= MonthLength(y + 1, 1)
      BY <3>1
    <3>3. Date(y + 1, 1, 1) \in Dates /\ Number(Date(y + 1, 1, 1)) = MonthStart(y + 1, 1) + 1
      BY <3>1, <3>2, DateIs DEF Number
    <3>4. MonthStart(y + 1, 1) = YearStart(y + 1)
      BY <3>1, MonthIs
    <3>5. MonthStart(y, 12) + MonthLength(y, 12) = YearStart(y + 1)
      BY MonthIs
    <3> QED
      BY <2>1, <3>3, <3>4, <3>5
  <2>2. CASE m # 12
    <3>1. m \in 1 .. 11 /\ m + 1 \in 1 .. 12
      BY <2>2
    <3>2. 1 \in Nat \ {0} /\ MonthLength(y, m + 1) \in 28 .. 31
      BY <3>1, MonthIs
    <3>3. 1 <= MonthLength(y, m + 1)
      BY <3>2
    <3>4. Date(y, m + 1, 1) \in Dates /\ Number(Date(y, m + 1, 1)) = MonthStart(y, m + 1) + 1
      BY <3>1, <3>2, <3>3, DateIs DEF Number
    <3>5. MonthStart(y, m + 1) = MonthStart(y, m) + MonthLength(y, m)
      BY <3>1, MonthIs
    <3> QED
      BY <2>2, <3>4, <3>5
  <2> QED
    BY <2>1, <2>2
<1> HIDE DEF next, last
<1>4. Number(last) + 1 = Number(next)
  BY <1>2, <1>3
<1>5. DayBefore(next) = last /\ Shifted(last, 1) = next
  BY <1>2, <1>3, <1>4, BeforeIs
<1> QED
  BY <1>2, <1>3, <1>5 DEF next, last

\* Months are added to the month, and the day is at most the month's last.
LEMMA AddMonthsIs ==
  ASSUME NEW x \in Dates, NEW n \in Int, x.y * 12 + (x.m - 1) + n >= 0
  PROVE  /\ AddMonths(x, n) \in Dates
         /\ AddMonths(x, n).y = (x.y * 12 + (x.m - 1) + n) \div 12
         /\ AddMonths(x, n).m = ((x.y * 12 + (x.m - 1) + n) % 12) + 1
         /\ AddMonths(x, n).d <= x.d
         /\ x.d <= 28 => AddMonths(x, n).d = x.d
<1> DEFINE total == x.y * 12 + (x.m - 1) + n
           y == total \div 12
           m == (total % 12) + 1
           next == IF m = 12 THEN Date(y + 1, 1, 1) ELSE Date(y, m + 1, 1)
           d == IF x.d < DayBefore(next).d THEN x.d ELSE DayBefore(next).d
<1>1. x.y \in Nat /\ x.m \in 1 .. 12 /\ x.d \in 1 .. 31
  BY DatesAre
<1>2. total \in Nat
  BY <1>1
<1>3. AddMonths(x, n) = Date(y, m, d)
  BY DEF AddMonths
<1> HIDE DEF total
<1>4. y \in Nat /\ m \in 1 .. 12
  BY <1>2
<1> HIDE DEF y, m
<1>5. DayBefore(next) = Date(y, m, MonthLength(y, m))
  BY <1>4, LastDayIs
<1>6. DayBefore(next).d = MonthLength(y, m)
  BY <1>5 DEF Date
<1>7. MonthLength(y, m) \in 28 .. 31
  BY <1>4, MonthIs
<1> HIDE DEF next
<1>8. d \in Nat \ {0} /\ d <= MonthLength(y, m) /\ d <= x.d /\ (x.d <= 28 => d = x.d)
  BY <1>1, <1>6, <1>7
<1> HIDE DEF d
<1>9. /\ Date(y, m, d) \in Dates /\ Date(y, m, d).y = y /\ Date(y, m, d).m = m
      /\ Date(y, m, d).d = d
  BY <1>4, <1>8, DateIs
<1> QED
  BY <1>3, <1>8, <1>9 DEF y, m, total

LEMMA MonthsBack ==
  ASSUME NEW x \in Dates, x.y \in Years, NEW n \in Shifts
  PROVE  LET there == AddMonths(x, n)
             back == SubtractMonths(there, n)
         IN /\ back.y = x.y /\ back.m = x.m /\ back.d <= x.d
            /\ x.d <= 28 => back = x /\ AddMonths(there, n) = AddMonths(x, 2 * n)
<1> DEFINE there == AddMonths(x, n)
           back == SubtractMonths(there, n)
           total == x.y * 12 + (x.m - 1) + n
<1>1. /\ x.y \in Nat /\ x.m \in 1 .. 12 /\ x.d \in 1 .. 31 /\ x = Date(x.y, x.m, x.d)
      /\ n \in Int /\ 12 * x.y + 2 * n >= 0
  BY CalendarAssumption, DatesAre
<1>2. total \in Nat /\ total + n >= 0 /\ total + n \in Int
  BY <1>1
<1>3. /\ there \in Dates /\ there.y = total \div 12 /\ there.m = (total % 12) + 1
      /\ there.d <= x.d /\ (x.d <= 28 => there.d = x.d)
  <2>1. x.y * 12 + (x.m - 1) + n >= 0
    BY <1>2
  <2> QED
    BY <1>1, <2>1, AddMonthsIs
<1> HIDE DEF there
<1>4. there.y * 12 + (there.m - 1) = total
  <2> HIDE DEF total
  <2>1. there.y \in Int /\ there.m \in Int
    BY <1>2, <1>3
  <2> QED
    BY <1>2, <1>3, <2>1
<1>5. there.d \in 1 .. 31
  BY <1>3, DatesAre
<1>6. PICK k \in Int : k = -n
  BY <1>1
<1>7. total + k = x.y * 12 + (x.m - 1)
  BY <1>1, <1>6
<1>8. there.y * 12 + (there.m - 1) + k = x.y * 12 + (x.m - 1)
  BY <1>4, <1>7
<1>9. /\ back \in Dates
      /\ back.y = (x.y * 12 + (x.m - 1)) \div 12 /\ back.m = ((x.y * 12 + (x.m - 1)) % 12) + 1
      /\ back.d <= there.d /\ (there.d <= 28 => back.d = there.d)
  <2>1. there.y * 12 + (there.m - 1) + k >= 0
    BY <1>1, <1>8
  <2>2. back = AddMonths(there, k)
    BY <1>6 DEF SubtractMonths
  <2> HIDE DEF back
  <2> QED
    BY <1>3, <1>8, <2>1, <2>2, AddMonthsIs
<1> HIDE DEF back
<1>10. back.y = x.y /\ back.m = x.m
  BY <1>1, <1>9
<1>11. back.d \in 1 .. 31 /\ back = Date(back.y, back.m, back.d)
  BY <1>9, DatesAre
<1>12. back.d <= x.d
  BY <1>1, <1>3, <1>5, <1>9, <1>11
<1>13. ASSUME x.d <= 28
       PROVE  back = x /\ AddMonths(there, n) = AddMonths(x, 2 * n)
  <2>1. back = x
    BY <1>1, <1>3, <1>9, <1>10, <1>11, <1>13
  <2>2. there.y * 12 + (there.m - 1) + n = total + n
    BY <1>4
  <2>3. 2 * n \in Int /\ x.y * 12 + (x.m - 1) + 2 * n = total + n
    BY <1>1
  <2> HIDE DEF total
  <2> DEFINE a == AddMonths(there, n)
             b == AddMonths(x, 2 * n)
  <2>4. /\ a \in Dates /\ a.y = (total + n) \div 12 /\ a.m = ((total + n) % 12) + 1
        /\ a.d = x.d
    <3>1. there.y * 12 + (there.m - 1) + n >= 0
      BY <1>2, <2>2
    <3> QED
      BY <1>1, <1>3, <1>13, <2>2, <3>1, AddMonthsIs
  <2>5. /\ b \in Dates /\ b.y = (total + n) \div 12 /\ b.m = ((total + n) % 12) + 1
        /\ b.d = x.d
    <3>1. x.y * 12 + (x.m - 1) + 2 * n >= 0
      BY <1>2, <2>3
    <3> QED
      BY <1>13, <2>3, <3>1, AddMonthsIs
  <2> HIDE DEF a, b
  <2>6. a = Date(a.y, a.m, a.d) /\ b = Date(b.y, b.m, b.d)
    BY <2>4, <2>5, DatesAre
  <2> QED
    BY <2>1, <2>4, <2>5, <2>6 DEF a, b
<1> QED
  BY <1>10, <1>12, <1>13 DEF there, back

\* A day that every year has is found in each.
LEMMA EveryYear ==
  ASSUME NEW x \in Dates, ~(x.m = 2 /\ x.d = 29), NEW k \in Nat
  PROVE  /\ WithYear(x, x.y + k) = Date(x.y + k, x.m, x.d) /\ AddYears(x, k) = Date(x.y + k, x.m, x.d)
         /\ Date(x.y + k, x.m, x.d) \in Dates
<1>1. x.y \in Nat /\ x.m \in 1 .. 12 /\ x.d \in 1 .. 31 /\ x.d <= MonthLength(x.y, x.m)
  BY DatesAre
<1>2. x.y + k \in Nat /\ x.d \in Nat \ {0}
  BY <1>1
<1>3. x.d <= MonthLength(x.y + k, x.m)
  <2>1. CASE x.m = 2
    <3>1. x.d <= 28
      <4>1. MonthLengths[2] = 28
        BY TwelveMonths
      <4> QED
        BY <1>1, <2>1, <4>1 DEF MonthLength
    <3> QED
      BY <1>1, <1>2, <3>1, YmdIs
  <2>2. CASE x.m # 2
    <3>1. MonthLengths[x.m] \in 28 .. 31
      BY <1>1, MonthsFollow
    <3> QED
      BY <1>1, <2>2, <3>1 DEF MonthLength
  <2> QED
    BY <2>1, <2>2
<1>4. /\ Ymd(x.y + k, x.m, x.d) = Date(x.y + k, x.m, x.d)
      /\ Date(x.y + k, x.m, x.d) \in Dates
  BY <1>1, <1>2, <1>3, YmdIs
<1>5. Date(x.y + k, x.m, x.d) # Panic
  BY <1>4, DatesAre
<1> QED
  BY <1>4, <1>5 DEF WithYear, AddYears

LEMMA AgeIs ==
  ASSUME NEW x \in Dates, NEW b \in Dates, Number(b) <= Number(x), ~(b.m = 2 /\ b.d = 29)
  PROVE  LET age == AgeInYears(b, x)
         IN /\ Number(AddYears(b, age)) <= Number(x)
            /\ Number(x) < Number(AddYears(b, age + 1))
<1> DEFINE before == x.m < b.m \/ (x.m = b.m /\ x.d < b.d)
           age == x.y - b.y - (IF before THEN 1 ELSE 0)
<1>1. /\ x.y \in Nat /\ x.m \in 1 .. 12 /\ x.d \in 1 .. 31
      /\ b.y \in Nat /\ b.m \in 1 .. 12 /\ b.d \in 1 .. 31
  BY DatesAre
<1>2. b.y < x.y \/ (b.y = x.y /\ ~before)
  <2>1. NotAfter(b, x)
    BY NumberOrder
  <2> QED
    BY <1>1, <2>1 DEF NotAfter
<1>3. age \in Nat /\ AgeInYears(b, x) = age
  <2>1. age \in Nat
    BY <1>1, <1>2
  <2> QED
    BY <2>1 DEF AgeInYears
<1>4. b.y + age = x.y - (IF before THEN 1 ELSE 0)
  BY <1>1
<1> HIDE DEF before, age
<1> DEFINE u == Date(b.y + age, b.m, b.d)
           v == Date(b.y + (age + 1), b.m, b.d)
<1>5. AddYears(b, age) = u /\ u \in Dates
  BY <1>3, EveryYear
<1>6. AddYears(b, age + 1) = v /\ v \in Dates
  <2>1. age + 1 \in Nat
    BY <1>3
  <2> QED
    BY <2>1, EveryYear
<1>7. /\ u.y = b.y + age /\ u.m = b.m /\ u.d = b.d
      /\ v.y = b.y + (age + 1) /\ v.m = b.m /\ v.d = b.d
  BY DEF Date
<1> HIDE DEF u, v
<1>8. NotAfter(u, x) /\ ~NotAfter(v, x)
  <2>1. CASE before
    <3>1. u.y < x.y
      BY <1>1, <1>4, <1>7, <2>1
    <3>2. v.y = x.y
      BY <1>1, <1>3, <1>4, <1>7, <2>1
    <3>3. ~NotAfter(v, x)
      BY <1>1, <1>7, <2>1, <3>2 DEF NotAfter, before
    <3> QED
      BY <3>1, <3>3 DEF NotAfter
  <2>2. CASE ~before
    <3>1. u.y = x.y
      BY <1>1, <1>4, <1>7, <2>2
    <3>2. x.y < v.y
      BY <1>1, <1>3, <1>4, <1>7, <2>2
    <3>3. NotAfter(u, x)
      BY <1>1, <1>7, <2>2, <3>1 DEF NotAfter, before
    <3>4. ~NotAfter(v, x)
      BY <1>1, <1>3, <1>7, <3>2 DEF NotAfter
    <3> QED
      BY <3>3, <3>4
  <2> QED
    BY <2>1, <2>2
<1>9. Number(u) <= Number(x) /\ ~(Number(v) <= Number(x))
  BY <1>5, <1>6, <1>8, NumberOrder
<1>10. Number(v) \in Nat /\ Number(x) \in Nat
  BY <1>6, NumberIs
<1> QED
  BY <1>3, <1>5, <1>6, <1>9, <1>10

LEMMA DaysAreValid ==
  ASSUME NEW x \in Dates, NEW d \in 27 .. 32
  PROVE  ValidateDate(x.y, x.m, d) = Ymd(x.y, x.m, d)
<1>1. x.y \in Nat /\ x.m \in 1 .. 12
  BY DatesAre
<1>2. DaysInMonth(x.y, x.m) = MonthLength(x.y, x.m)
  <2>1. LongYear(x.y) <=> IsLeapYear(x.y)
    BY <1>1, LeapIs
  <2>2. ASSUME NEW m \in 1 .. 12
        PROVE  DaysInMonth(x.y, m) = MonthLengths[m] + (IF m = 2 /\ IsLeapYear(x.y) THEN 1 ELSE 0)
    <3>1. CASE m \in {1, 3, 5, 7, 8, 10, 12}
      BY <3>1, TwelveMonths DEF DaysInMonth
    <3>2. CASE m \in {4, 6, 9, 11}
      BY <3>2, TwelveMonths DEF DaysInMonth
    <3>3. CASE m = 2
      BY <3>3, TwelveMonths DEF DaysInMonth
    <3> QED
      BY <3>1, <3>2, <3>3, TwelveMonths
  <2> QED
    BY <1>1, <2>1, <2>2 DEF MonthLength
<1>3. MonthLength(x.y, x.m) \in 28 .. 31
  BY <1>1, MonthIs
<1>4. ~(x.m < 1) /\ ~(x.m > 12) /\ ~(d < 1) /\ d >= 1
  BY <1>1
<1>5. CASE d > MonthLength(x.y, x.m)
  BY <1>1, <1>2, <1>3, <1>4, <1>5 DEF ValidateDate, Ymd
<1>6. CASE ~(d > MonthLength(x.y, x.m))
  BY <1>1, <1>2, <1>3, <1>4, <1>6 DEF ValidateDate, Ymd
<1> QED
  BY <1>5, <1>6

LEMMA ReadBack ==
  ASSUME NEW x \in Dates
  PROVE  /\ ParseDate(FormatIso(x)) = x
         /\ ParseDate(FormatUs(x)) = x
         /\ (ParseDate(FormatEuropean(x)) = x) <=> (x.d > 12 \/ x.d = x.m)
<1>1. /\ x.y \in Nat /\ x.m \in 1 .. 12 /\ x.d \in 1 .. 31 /\ x.d <= MonthLength(x.y, x.m)
      /\ x = Date(x.y, x.m, x.d) /\ x # Panic
  BY DatesAre
<1>2. Ymd(x.y, x.m, x.d) = x
  <2>1. x.d \in Nat \ {0}
    BY <1>1
  <2> QED
    BY <1>1, <2>1, YmdIs
<1>3. ParseDate(FormatIso(x)) = x
  BY <1>2 DEF ParseDate, FormatIso
<1>4. ParseDate(FormatUs(x)) = x
  BY <1>1, <1>2 DEF ParseDate, FormatUs
<1>5. ParseDate(FormatEuropean(x)) = IF Ymd(x.y, x.d, x.m) # Panic THEN Ymd(x.y, x.d, x.m) ELSE x
  BY <1>2 DEF ParseDate, FormatEuropean
<1>6. CASE x.d > 12
  <2>1. Ymd(x.y, x.d, x.m) = Panic
    BY <1>1, <1>6 DEF Ymd
  <2> QED
    BY <1>3, <1>4, <1>5, <1>6, <2>1
<1>7. CASE ~(x.d > 12)
  <2>1. x.d \in 1 .. 12 /\ x.m <= 28 /\ x.m \in Nat \ {0}
    BY <1>1, <1>7
  <2>2. Ymd(x.y, x.d, x.m) = Date(x.y, x.d, x.m) /\ Ymd(x.y, x.d, x.m) \in Dates
    BY <1>1, <2>1, YmdIs
  <2>3. ParseDate(FormatEuropean(x)) = Date(x.y, x.d, x.m)
    BY <1>5, <2>2, DatesAre
  <2>4. Date(x.y, x.d, x.m) = Date(x.y, x.m, x.d) <=> x.d = x.m
    BY DEF Date
  <2>5. (ParseDate(FormatEuropean(x)) = x) <=> x.d = x.m
    BY <1>1, <2>3, <2>4
  <2> QED
    BY <1>3, <1>4, <1>7, <2>5
<1> QED
  BY <1>6, <1>7

\* A period that is not longer than all the time before has one before it.
LEMMA PeriodBefore ==
  ASSUME NEW s \in Dates, NEW e \in Dates,
         Number(s) <= Number(e), Number(e) <= Number(s) + Number(s)
  PROVE  /\ Days(PreviousRange(DateRange(s, e))) = Days(DateRange(s, e))
         /\ Number(PreviousRange(DateRange(s, e)).end) = Number(s)
<1> DEFINE duration == Number(e) - Number(s)
<1>1. Number(s) \in Nat /\ Number(e) \in Nat
  BY NumberIs
<1>2. duration \in Nat /\ Number(s) - duration >= 0
  BY <1>1
<1>3. PICK k \in Int : k = -duration
  BY <1>2
<1>4. /\ Number(s) + k >= 0 /\ Number(e) + k >= 0
      /\ Number(e) + k = Number(s) /\ (Number(s) - (Number(s) + k)) + 1 = (Number(e) - Number(s)) + 1
  BY <1>1, <1>2, <1>3
<1>5. Number(Shifted(s, k)) = Number(s) + k
  BY <1>4, ShiftedIs
<1>6. Number(Shifted(e, k)) = Number(s)
  BY <1>4, ShiftedIs
<1>7. PreviousRange(DateRange(s, e)) = [start |-> Shifted(s, k), end |-> Shifted(e, k)]
  BY <1>3 DEF PreviousRange, DateRange
<1>8. Days(PreviousRange(DateRange(s, e))) = (Number(s) - (Number(s) + k)) + 1
  BY <1>5, <1>6, <1>7 DEF Days
<1>9. Days(DateRange(s, e)) = (Number(e) - Number(s)) + 1
  BY DEF Days, DateRange
<1> QED
  BY <1>4, <1>6, <1>7, <1>8, <1>9

LEMMA LateEnough ==
  ASSUME NEW x \in Dates, x.y # 0
  PROVE  Number(x) >= 366
<1>1. x.y \in Nat /\ x.y - 1 \in Nat /\ 0 + x.y = x.y
  BY DatesAre
<1>2. YearStart(0) + 365 * x.y <= YearStart(0 + x.y)
  BY <1>1, YearOrder
<1>3. YearStart(x.y) < Number(x) /\ Number(x) \in Nat
  BY NumberIs
<1>4. YearStart(x.y) \in Int
  BY <1>1, MonthIs
<1>5. YearStart(0) = 0 - 1 /\ YearStart(0) \in Int
  BY YearZero
<1>6. LeapDays(1 - 1) = 0
  BY DEF LeapDays
<1>7. YearStart(1) = 365
  BY <1>6 DEF YearStart
<1>8. CASE x.y = 1
  BY <1>3, <1>7, <1>8
<1>9. CASE x.y # 1
  BY <1>1, <1>2, <1>3, <1>4, <1>5, <1>9
<1> QED
  BY <1>8, <1>9

LEMMA PeriodsAre ==
  ASSUME NEW x \in Dates, x.y # 0,
         NEW r \in {CurrentWeek(x), CurrentMonth(x), CurrentYear(x)}
  PROVE  /\ InRange(r, x) /\ Days(PreviousRange(r)) = Days(r)
         /\ Number(PreviousRange(r).end) = Number(r.start)
<1> SUFFICES \E s, e \in Dates :
               /\ r = DateRange(s, e) /\ Number(s) <= Number(x) /\ Number(x) <= Number(e)
               /\ Number(e) <= Number(s) + Number(s)
  <2>1. PICK s \in Dates, e \in Dates :
               /\ r = DateRange(s, e) /\ Number(s) <= Number(x) /\ Number(x) <= Number(e)
               /\ Number(e) <= Number(s) + Number(s)
    OBVIOUS
  <2>2. Number(s) \in Nat /\ Number(e) \in Nat /\ Number(x) \in Nat
    BY NumberIs
  <2>3. Number(s) <= Number(e)
    BY <2>1, <2>2
  <2>4. /\ Days(PreviousRange(DateRange(s, e))) = Days(DateRange(s, e))
        /\ Number(PreviousRange(DateRange(s, e)).end) = Number(s)
    BY <2>1, <2>3, PeriodBefore
  <2>5. InRange(DateRange(s, e), x) /\ DateRange(s, e).start = s
    BY <2>1 DEF InRange, DateRange
  <2> QED
    BY <2>1, <2>4, <2>5
<1>1. /\ x.y \in Nat /\ x.m \in 1 .. 12 /\ x.d \in 1 .. 31 /\ x.d <= MonthLength(x.y, x.m)
      /\ MonthLength(x.y, x.m) \in 28 .. 31 /\ x = Date(x.y, x.m, x.d)
  BY DatesAre
<1>2. Number(x) >= 366 /\ Number(x) \in Nat
  BY LateEnough, NumberIs
<1>3. CASE r = CurrentWeek(x)
  <2>1. FromSunday(x) \in 0 .. 6
    BY <1>2 DEF FromSunday
  <2>2. PICK w \in Int : w = -FromSunday(x)
    BY <2>1
  <2> DEFINE s == Shifted(x, w)
             e == Shifted(s, 6)
  <2>3. /\ Number(x) + w >= 0 /\ Number(x) + w >= 360
        /\ Number(x) + w <= Number(x) /\ Number(x) <= Number(x) + w + 6
    BY <1>2, <2>1, <2>2
  <2>4. s \in Dates /\ Number(s) = Number(x) + w
    BY <2>3, ShiftedIs
  <2> HIDE DEF s
  <2>5. e \in Dates /\ Number(e) = Number(s) + 6
    <3>1. Number(s) + 6 >= 0
      BY <1>2, <2>3, <2>4
    <3> QED
      BY <2>4, <3>1, ShiftedIs
  <2>6. r = DateRange(s, e)
    BY <1>3, <2>2 DEF CurrentWeek, s
  <2> HIDE DEF e
  <2>7. /\ Number(s) <= Number(x) /\ Number(x) <= Number(e)
        /\ Number(e) <= Number(s) + Number(s)
    <3> DEFINE i == Number(s)
               j == Number(e)
               k == Number(x)
    <3>1. i = k + w /\ j = i + 6 /\ k + w >= 360 /\ k + w <= k /\ k <= k + w + 6 /\ k \in Int
      BY <1>2, <2>3, <2>4, <2>5
    <3> HIDE DEF i, j, k
    <3>2. i <= k /\ k <= j /\ j <= i + i
      BY <3>1
    <3> QED
      BY <3>2 DEF i, j, k
  <2> QED
    BY <2>4, <2>5, <2>6, <2>7
<1>4. CASE r = CurrentMonth(x)
  <2>1. 1 \in Nat \ {0} /\ 1 <= MonthLength(x.y, x.m) /\ x.d \in Nat \ {0}
    BY <1>1
  <2> DEFINE s == Date(x.y, x.m, 1)
  <2>2. s \in Dates /\ WithDay(x, 1) = s /\ s.y = x.y /\ s.m = x.m /\ s.d = 1
    BY <1>1, <2>1, YmdIs DEF WithDay, Date
  <2>3. WithDay(x, x.d) = x
    BY <1>1, <2>1, YmdIs DEF WithDay
  <2>4. r = DateRange(s, x)
    BY <1>4, <2>2, <2>3 DEF CurrentMonth
  <2>5. Number(s) = MonthStart(x.y, x.m) + 1 /\ Number(x) = MonthStart(x.y, x.m) + x.d
        /\ MonthStart(x.y, x.m) \in Int
    BY <2>2, NumberIs
  <2>6. Number(s) >= 366
    BY <2>2, LateEnough
  <2> HIDE DEF s
  <2> QED
    BY <1>1, <1>2, <2>2, <2>4, <2>5, <2>6
<1>5. CASE r = CurrentYear(x)
  <2> DEFINE s == Date(x.y, 1, 1)
             e == Date(x.y, 12, 31)
  <2>1. /\ MonthLength(x.y, 1) \in 28 .. 31 /\ MonthLength(x.y, 12) = 31
    BY <1>1, MonthIs, TwelveMonths DEF MonthLength
  <2>2. s \in Dates /\ s.y = x.y /\ s.m = 1 /\ s.d = 1
    <3>1. 1 \in 1 .. 12 /\ 1 \in Nat \ {0} /\ 1 <= MonthLength(x.y, 1)
      BY <2>1
    <3> QED
      BY <1>1, <3>1, DateIs
  <2>3. e \in Dates /\ e.y = x.y /\ e.m = 12 /\ e.d = 31
    <3>1. 12 \in 1 .. 12 /\ 31 \in Nat \ {0} /\ 31 <= MonthLength(x.y, 12)
      BY <2>1
    <3> QED
      BY <1>1, <3>1, DateIs
  <2>4. r = DateRange(s, e)
    BY <1>5 DEF CurrentYear
  <2> HIDE DEF s, e
  <2>5. Number(s) <= Number(x) /\ Number(x) <= Number(e)
    <3>1. NotAfter(s, x) /\ NotAfter(x, e)
      BY <1>1, <2>2, <2>3 DEF NotAfter
    <3> QED
      BY <2>2, <2>3, <3>1, NumberOrder
  <2>6. Number(e) <= Number(s) + 365
    <3>1. YearStart(x.y) < Number(s) /\ Number(e) <= YearStart(x.y + 1)
          /\ Number(s) \in Nat /\ Number(e) \in Nat
      BY <2>2, <2>3, NumberIs
    <3>2. /\ YearStart(x.y) \in Int /\ YearStart(x.y + 1) \in Int
          /\ YearStart(x.y + 1) <= YearStart(x.y) + 366
      BY <1>1, MonthIs
    <3> QED
      BY <3>1, <3>2
  <2>7. Number(s) >= 366
    BY <2>2, LateEnough
  <2>8. Number(e) <= Number(s) + Number(s)
    <3>1. Number(s) \in Nat /\ Number(e) \in Nat
      BY <2>2, <2>3, NumberIs
    <3> QED
      BY <2>6, <2>7, <3>1
  <2> QED
    BY <2>2, <2>3, <2>4, <2>5, <2>8
<1> QED
  BY <1>3, <1>4, <1>5

LEMMA EndOfMonthIs ==
  ASSUME NEW x \in Dates, x.d <= 28
  PROVE  LastDayOfMonth(x).m = x.m /\ Shifted(LastDayOfMonth(x), 1).d = 1
<1>1. /\ x.y \in Nat /\ x.m \in 1 .. 12 /\ x.d \in Nat \ {0}
      /\ x.y + 1 \in Nat /\ 1 \in 1 .. 12 /\ 1 \in Nat \ {0} /\ 1 <= 28
  BY DatesAre
<1> DEFINE nextYear == WithYear(x, x.y + 1)
           first == IF WithMonth(x, x.m + 1) # Panic THEN WithMonth(x, x.m + 1)
                    ELSE WithMonth(nextYear, 1)
           next == IF x.m = 12 THEN Date(x.y + 1, 1, 1) ELSE Date(x.y, x.m + 1, 1)
           last == Date(x.y, x.m, MonthLength(x.y, x.m))
<1>2. nextYear = Date(x.y + 1, x.m, x.d) /\ nextYear \in Dates
  <2>1. ~(x.m = 2 /\ x.d = 29)
    BY <1>1
  <2> QED
    BY <2>1, EveryYear
<1>3. nextYear # Panic /\ nextYear.y = x.y + 1 /\ nextYear.d = x.d
  BY <1>2, DatesAre DEF Date
<1> HIDE DEF nextYear
<1>4. WithDay(first, 1) = next
  <2>1. CASE x.m = 12
    <3>1. WithMonth(x, x.m + 1) = Panic
      BY <2>1 DEF WithMonth, Ymd
    <3>2. Ymd(x.y + 1, 1, x.d) = Date(x.y + 1, 1, x.d)
      BY <1>1, YmdIs
    <3>3. first = Date(x.y + 1, 1, x.d)
      BY <1>3, <3>1, <3>2 DEF WithMonth
    <3>4. Ymd(x.y + 1, 1, 1) = Date(x.y + 1, 1, 1)
      BY <1>1, YmdIs
    <3> QED
      BY <2>1, <3>3, <3>4 DEF WithDay, Date
  <2>2. CASE x.m # 12
    <3>1. x.m + 1 \in 1 .. 12
      BY <1>1, <2>2
    <3>2. Ymd(x.y, x.m + 1, x.d) = Date(x.y, x.m + 1, x.d) /\ Ymd(x.y, x.m + 1, x.d) \in Dates
      BY <1>1, <3>1, YmdIs
    <3>3. first = Date(x.y, x.m + 1, x.d)
      BY <3>2, DatesAre DEF WithMonth
    <3>4. Ymd(x.y, x.m + 1, 1) = Date(x.y, x.m + 1, 1)
      BY <1>1, <3>1, YmdIs
    <3> QED
      BY <2>2, <3>3, <3>4 DEF WithDay, Date
  <2> QED
    BY <2>1, <2>2
<1>5. LastDayOfMonth(x) = DayBefore(next)
  BY <1>3, <1>4 DEF LastDayOfMonth, nextYear
<1>6. next.d = 1 /\ last.m = x.m
  BY DEF Date
<1>7. DayBefore(next) = last /\ Shifted(last, 1) = next
  BY <1>1, LastDayIs
<1> QED
  BY <1>5, <1>6, <1>7

LEMMA QuarterIs ==
  ASSUME NEW x \in Dates
  PROVE  LET q == Quarter(x)
             first == FirstDayOfQuarter(x, q)
             last == LastDayOfQuarter(x, q)
         IN /\ first = Panic \/ last = Panic => x.d = 31
            /\ first # Panic => /\ first.y = x.y /\ first.m \in {1, 4, 7, 10} /\ first.d = 1
                                /\ x.m \in first.m .. first.m + 2
            /\ last # Panic => Shifted(last, 1) = Date(x.y, 3 * q, 1)
<1> DEFINE q == Quarter(x)
           a == (q - 1) * 3 + 1
           b == q * 3
           first == FirstDayOfQuarter(x, q)
           last == LastDayOfQuarter(x, q)
<1>1. /\ x.y \in Nat /\ x.m \in 1 .. 12 /\ x.d \in 1 .. 31 /\ x.d \in Nat \ {0}
      /\ 1 \in Nat \ {0} /\ 1 <= 28
  BY DatesAre
<1>2. /\ q \in 1 .. 4 /\ a \in {1, 4, 7, 10} /\ b \in {3, 6, 9, 12} /\ x.m \in a .. a + 2
      /\ a \in 1 .. 12 /\ b \in 1 .. 12 /\ b - 1 \in 1 .. 11
  <2>1. q = (x.m - 1) \div 3 + 1
    BY DEF Quarter
  <2> HIDE DEF q
  <2>2. q \in 1 .. 4 /\ (q - 1) * 3 + 1 <= x.m /\ x.m <= (q - 1) * 3 + 3
    BY <1>1, <2>1
  <2>3. q \in {1, 2, 3, 4}
    BY <2>2
  <2>4. a \in {1, 4, 7, 10} /\ b \in {3, 6, 9, 12} /\ a + 2 = (q - 1) * 3 + 3
    BY <2>3
  <2> HIDE DEF b
  <2>5. b \in 1 .. 12 /\ b - 1 \in 1 .. 11
    BY <2>4
  <2>6. a \in 1 .. 12 /\ a <= x.m /\ x.m <= a + 2
    BY <2>2, <2>4
  <2> HIDE DEF a
  <2>7. x.m \in a .. a + 2
    BY <1>1, <2>6
  <2> QED
    BY <2>2, <2>4, <2>5, <2>6, <2>7
<1>3. first = After(WithMonth(x, a), LAMBDA z : WithDay(z, 1))
  BY DEF FirstDayOfQuarter
<1>4. last = After(WithMonth(x, b), LAMBDA z : DayBefore(WithDay(z, 1)))
  BY DEF LastDayOfQuarter
<1>5. b = 3 * q
  BY <1>2
<1> HIDE DEF a, b, first, last
<1>6. MonthLength(x.y, a) >= 30 /\ MonthLength(x.y, b) >= 30
  BY <1>2, TwelveMonths DEF MonthLength
<1>7. MonthLength(x.y, a) \in 28 .. 31 /\ MonthLength(x.y, b) \in 28 .. 31
  BY <1>1, <1>2, MonthIs
<1>8. /\ WithMonth(x, a) = Panic \/ (WithMonth(x, a) = Date(x.y, a, x.d) /\ WithMonth(x, a) # Panic)
      /\ WithMonth(x, a) = Panic => x.d = 31
  <2>1. CASE x.d <= MonthLength(x.y, a)
    <3>1. Ymd(x.y, a, x.d) = Date(x.y, a, x.d) /\ Ymd(x.y, a, x.d) \in Dates
      BY <1>1, <1>2, <2>1, YmdIs
    <3> QED
      BY <3>1, DatesAre DEF WithMonth
  <2>2. CASE ~(x.d <= MonthLength(x.y, a))
    <3>1. Ymd(x.y, a, x.d) = Panic
      BY <1>1, <1>2, <2>2, YmdIs
    <3> QED
      BY <1>1, <1>6, <1>7, <2>2, <3>1 DEF WithMonth
  <2> QED
    BY <2>1, <2>2
<1>9. /\ WithMonth(x, b) = Panic \/ (WithMonth(x, b) = Date(x.y, b, x.d) /\ WithMonth(x, b) # Panic)
      /\ WithMonth(x, b) = Panic => x.d = 31
  <2>1. CASE x.d <= MonthLength(x.y, b)
    <3>1. Ymd(x.y, b, x.d) = Date(x.y, b, x.d) /\ Ymd(x.y, b, x.d) \in Dates
      BY <1>1, <1>2, <2>1, YmdIs
    <3> QED
      BY <3>1, DatesAre DEF WithMonth
  <2>2. CASE ~(x.d <= MonthLength(x.y, b))
    <3>1. Ymd(x.y, b, x.d) = Panic
      BY <1>1, <1>2, <2>2, YmdIs
    <3> QED
      BY <1>1, <1>6, <1>7, <2>2, <3>1 DEF WithMonth
  <2> QED
    BY <2>1, <2>2
<1>10. ASSUME NEW m \in 1 .. 12
       PROVE  /\ WithDay(Date(x.y, m, x.d), 1) = Date(x.y, m, 1) /\ Date(x.y, m, 1) \in Dates
              /\ Date(x.y, m, 1) # Panic
  <2>1. Ymd(x.y, m, 1) = Date(x.y, m, 1) /\ Date(x.y, m, 1) \in Dates
    BY <1>1, YmdIs
  <2> QED
    BY <2>1, DatesAre DEF WithDay, Date
<1>11. /\ first = Panic => x.d = 31
       /\ first # Panic => /\ first.y = x.y /\ first.m \in {1, 4, 7, 10} /\ first.d = 1
                           /\ x.m \in first.m .. first.m + 2
  <2>1. CASE WithMonth(x, a) = Panic
    BY <1>3, <1>8, <2>1 DEF After
  <2>2. CASE WithMonth(x, a) # Panic
    <3>1. first = WithDay(WithMonth(x, a), 1)
      BY <1>3, <2>2 DEF After
    <3>2. first = Date(x.y, a, 1) /\ first # Panic
      BY <1>2, <1>8, <1>10, <2>2, <3>1
    <3>3. first.y = x.y /\ first.m = a /\ first.d = 1
      BY <3>2 DEF Date
    <3> QED
      BY <1>2, <3>2, <3>3
  <2> QED
    BY <2>1, <2>2
<1>12. /\ last = Panic => x.d = 31
       /\ last # Panic => Shifted(last, 1) = Date(x.y, b, 1)
  <2>1. CASE WithMonth(x, b) = Panic
    BY <1>4, <1>9, <2>1 DEF After
  <2>2. CASE WithMonth(x, b) # Panic
    <3>1. last = DayBefore(WithDay(WithMonth(x, b), 1))
      BY <1>4, <2>2 DEF After
    <3>2. last = DayBefore(Date(x.y, b, 1))
      BY <1>2, <1>9, <1>10, <2>2, <3>1
    <3>3. b - 1 \in 1 .. 12 /\ b - 1 # 12 /\ (b - 1) + 1 = b
      BY <1>2
    <3>4. /\ DayBefore(Date(x.y, b, 1)) = Date(x.y, b - 1, MonthLength(x.y, b - 1))
          /\ Date(x.y, b - 1, MonthLength(x.y, b - 1)) \in Dates
          /\ Shifted(Date(x.y, b - 1, MonthLength(x.y, b - 1)), 1) = Date(x.y, b, 1)
      BY <1>1, <3>3, LastDayIs
    <3> QED
      BY <3>2, <3>4, DatesAre
  <2> QED
    BY <2>1, <2>2
<1> QED
  BY <1>5, <1>11, <1>12 DEF first, last

-----------------------------------------------------------------------------
(* The clock and its readers.                                               *)

CalendarInv ==
  /\ today \in Dates /\ today.y \in Years
  /\ reading = Panic \/ (reading \in Dates /\ reading.y \in Years)
  /\ quarter = Panic \/ quarter.asked \in Dates
  /\ Safe({"midnight"}) =>
       /\ reading = Panic \/ reading = today
       /\ quarter = Panic \/ LET q == Quarter(quarter.asked)
                             IN /\ quarter.first = FirstDayOfQuarter(quarter.asked, q)
                                /\ quarter.last = LastDayOfQuarter(quarter.asked, q)

LEMMA CalendarAtFirst ==
  ASSUME CalendarInit
  PROVE  CalendarInv
<1>1. today \in StartDays /\ reading = Panic /\ quarter = Panic
  BY CalendarAssumption DEF CalendarInit
<1> QED
  BY <1>1, CalendarAssumption DEF CalendarInv

LEMMA CalendarKept ==
  ASSUME CalendarInv, CalendarNext \/ UNCHANGED calendarVars, mix' = mix
  PROVE  CalendarInv'
<1>1. Safe({"midnight"})' = Safe({"midnight"})
  BY DEF Safe
<1>2. Safe({"midnight"}) => ~Risk("midnight")
  BY DEF Safe, Risk
<1>3. CASE UNCHANGED calendarVars
  BY <1>1, <1>3 DEF CalendarInv, calendarVars
<1>4. CASE NextDay
  <2>1. today' \in Dates /\ today'.y \in Years
    <3>1. today \in Dates
      BY DEF CalendarInv
    <3>2. Number(today) + 1 >= 0
      BY <3>1, NumberIs
    <3>3. Shifted(today, 1) \in Dates
      BY <3>1, <3>2, ShiftedIs
    <3> QED
      BY <1>4, <3>3 DEF NextDay
  <2>2. reading' = reading /\ quarter' = Panic /\ (reading = Panic \/ Risk("midnight"))
    BY <1>4 DEF NextDay
  <2> QED
    BY <1>1, <1>2, <2>1, <2>2 DEF CalendarInv
<1>5. CASE AskQuarter
  BY <1>1, <1>5 DEF AskQuarter, CalendarInv
<1>6. CASE AnswerQuarter
  <2> DEFINE q == Quarter(today)
             first == FirstDayOfQuarter(reading, q)
             last == LastDayOfQuarter(reading, q)
  <2>1. /\ reading # Panic /\ reading' = Panic /\ today' = today
        /\ quarter' = [asked |-> reading, first |-> first, last |-> last]
    BY <1>6 DEF AnswerQuarter
  <2>2. quarter'.asked = reading /\ quarter'.first = first /\ quarter'.last = last
    <3> HIDE DEF first, last
    <3> QED
      BY <2>1
  <2>3. Safe({"midnight"}) => q = Quarter(reading)
    BY <2>1 DEF CalendarInv
  <2>4. reading \in Dates
    BY <2>1 DEF CalendarInv
  <2> QED
    BY <1>1, <2>1, <2>2, <2>3, <2>4 DEF CalendarInv
<1> QED
  BY <1>3, <1>4, <1>5, <1>6 DEF CalendarNext

LEMMA CalendarSound ==
  ASSUME CalendarInv
  PROVE  /\ CalendarTypeOK
         /\ MonthsLeadBack /\ AgeCountsBirthdays /\ ValidDaysExist /\ FormatsReadBack
         /\ PeriodsMeet /\ MonthEnds /\ QuarterOfTheDay
<1>1. today \in Dates /\ today.y \in Years /\ today.y # 0
  BY CalendarAssumption DEF CalendarInv
<1>2. \A x \in DatesSeen : x = today
  BY DEF DatesSeen
<1>3. CalendarTypeOK
  <2>1. today.d \in Nat \ {0}
    BY <1>1, DatesAre
  <2>2. /\ today.y \in Nat /\ today.m \in 1 .. 12 /\ today.d <= MonthLength(today.y, today.m)
        /\ today = Date(today.y, today.m, today.d)
    BY <1>1, DatesAre
  <2>3. Ymd(today.y, today.m, today.d) = today
    BY <2>1, <2>2, YmdIs
  <2> QED
    BY <1>1, <2>3 DEF CalendarTypeOK, CalendarInv
<1>4. MonthsLeadBack
  <2>1. ASSUME NEW n \in Shifts
        PROVE  LET there == AddMonths(today, n)
                   back == SubtractMonths(there, n)
               IN /\ back.y = today.y /\ back.m = today.m /\ back.d <= today.d
                  /\ today.d <= 28 => back = today /\ AddMonths(there, n) = AddMonths(today, 2 * n)
    BY <1>1, MonthsBack
  <2> QED
    BY <1>2, <2>1 DEF MonthsLeadBack
<1>5. AgeCountsBirthdays
  <2>1. ASSUME NEW b \in Births, Number(b) <= Number(today), ~(b.m = 2 /\ b.d = 29)
        PROVE  LET age == AgeInYears(b, today)
               IN /\ Number(AddYears(b, age)) <= Number(today)
                  /\ Number(today) < Number(AddYears(b, age + 1))
    <3>1. b \in Dates
      BY CalendarAssumption
    <3> QED
      BY <1>1, <2>1, <3>1, AgeIs
  <2> QED
    BY <1>2, <2>1 DEF AgeCountsBirthdays
<1>6. ValidDaysExist
  BY <1>1, <1>2, DaysAreValid DEF ValidDaysExist
<1>7. FormatsReadBack
  BY <1>1, <1>2, ReadBack DEF FormatsReadBack
<1>8. PeriodsMeet
  BY <1>1, <1>2, PeriodsAre DEF PeriodsMeet
<1>9. MonthEnds
  BY <1>1, <1>2, EndOfMonthIs DEF MonthEnds
<1>10. QuarterOfTheDay
  <2> SUFFICES ASSUME Safe({"midnight"}), quarter # Panic
               PROVE  LET day == quarter.asked
                          first == quarter.first
                          last == quarter.last
                      IN /\ first = Panic \/ last = Panic => day.d = 31
                         /\ first # Panic => /\ first.y = day.y /\ first.m \in {1, 4, 7, 10}
                                             /\ first.d = 1 /\ day.m \in first.m .. first.m + 2
                         /\ last # Panic => Shifted(last, 1) = Date(day.y, 3 * Quarter(day), 1)
    BY DEF QuarterOfTheDay
  <2>1. /\ quarter.asked \in Dates
        /\ quarter.first = FirstDayOfQuarter(quarter.asked, Quarter(quarter.asked))
        /\ quarter.last = LastDayOfQuarter(quarter.asked, Quarter(quarter.asked))
    BY DEF CalendarInv
  <2> QED
    BY <2>1, QuarterIs
<1> QED
  BY <1>3, <1>4, <1>5, <1>6, <1>7, <1>8, <1>9, <1>10

-----------------------------------------------------------------------------
(* What is said of payments and texts.                                      *)

\* An outlier is above each of the others, if there are not too many.
LEMMA OutlierAbove ==
  ASSUME NEW S, IsFiniteSet(S), NEW f \in [S -> Int], NEW g, g = [j \in S |-> f[j] * f[j]],
         NEW a \in Int, Deviations \in Nat,
         OutlierOf(Cardinality(S), SumFunction(f), SumFunction(g), a),
         Cardinality(S) <= Deviations * Deviations + 1, NEW j \in S
  PROVE  f[j] < a
<1> DEFINE above == Cardinality(S) * a - SumFunction(f)
           variance == Cardinality(S) * SumFunction(g) - SumFunction(f) * SumFunction(f)
<1>1. above > 0 /\ variance > 0 /\ above * above > Deviations * Deviations * variance
  BY DEF OutlierOf
<1>2. above = Cardinality(S) * a - SumFunction(f)
      /\ variance = Cardinality(S) * SumFunction(g) - SumFunction(f) * SumFunction(f)
  OBVIOUS
<1> HIDE DEF above, variance
<1> QED
  BY <1>1, <1>2, Samuelson

Kind == {"DuplicateAmount", "UnusualVendor", "RoundNumber", "AmountOutlier", "WeekendTransaction"}
Payment == [vendor : Payee \cup {NoPayee}, amount : Amount, date : PayDay]

\* What was found of a payment is found in the history up to it.
FoundAt(i) ==
  \E h \in Seq(Payment) : /\ Len(h) = i /\ \A j \in 1 .. i : h[j] = history[j]
                          /\ anomalies[i] = Analyze(h, i)

AnomalyInv ==
  /\ history \in Seq(Payment) /\ DOMAIN anomalies = DOMAIN history
  /\ anomalies \in Seq(SUBSET Kind)
  /\ \A i \in DOMAIN history : FoundAt(i)
  /\ Safe({"backdated"}) =>
       \A i, j \in DOMAIN history : i < j => history[i].date <= history[j].date

LEMMA AnomalyAtFirst ==
  ASSUME AnomalyInit
  PROVE  AnomalyInv
<1>1. history = << >> /\ anomalies = << >>
  BY DEF AnomalyInit
<1>2. DOMAIN history = {} /\ DOMAIN anomalies = {} /\ history \in Seq(Payment)
      /\ anomalies \in Seq(SUBSET Kind)
  BY <1>1
<1> QED
  BY <1>2 DEF AnomalyInv

LEMMA AnalyzeIs ==
  ASSUME NEW h, NEW i
  PROVE  /\ Analyze(h, i) \in SUBSET Kind
         /\ "DuplicateAmount" \in Analyze(h, i) <=> CheckDuplicateAmount(h, i)
         /\ "UnusualVendor" \in Analyze(h, i) <=> CheckUnusualVendor(h, i)
         /\ "AmountOutlier" \in Analyze(h, i) <=> CheckAmountOutlier(h, i)
  BY DEF Analyze, Kind

LEMMA AnomalyKept ==
  ASSUME AnomalyInv, AnomalyNext \/ UNCHANGED anomalyVars, mix' = mix
  PROVE  AnomalyInv'
<1> DEFINE n == Len(history)
<1>1. /\ history \in Seq(Payment) /\ n \in Nat /\ DOMAIN history = 1 .. n
      /\ \A i \in 1 .. n : history[i] \in Payment
      /\ anomalies \in Seq(SUBSET Kind) /\ DOMAIN anomalies = 1 .. n
      /\ \A i \in 1 .. n : FoundAt(i)
  BY DEF AnomalyInv
<1>2. Safe({"backdated"})' = Safe({"backdated"})
  BY DEF Safe
<1>3. CASE UNCHANGED anomalyVars
  BY <1>2, <1>3 DEF AnomalyInv, anomalyVars, FoundAt
<1>4. ASSUME NEW t \in Payment, Add(t)
      PROVE  AnomalyInv'
  <2> DEFINE h == Append(history, t)
  <2>1. /\ history' = h /\ anomalies' = Append(anomalies, Analyze(h, Len(h)))
        /\ t.date < Latest(history) => Risk("backdated")
    BY <1>4 DEF Add
  <2>2. /\ h \in Seq(Payment) /\ Len(h) = n + 1 /\ DOMAIN h = 1 .. n + 1
        /\ h[n + 1] = t /\ \A i \in 1 .. n : h[i] = history[i]
    BY <1>1
  <2> HIDE DEF h
  <2>3. Len(anomalies) = n
    BY <1>1
  <2>4. Analyze(h, Len(h)) \in SUBSET Kind
    BY AnalyzeIs
  <2> DEFINE k == Analyze(h, Len(h))
  <2>5. /\ anomalies' \in Seq(SUBSET Kind) /\ DOMAIN anomalies' = 1 .. n + 1
        /\ anomalies'[n + 1] = Analyze(h, n + 1) /\ \A i \in 1 .. n : anomalies'[i] = anomalies[i]
    <3>1. k \in SUBSET Kind /\ k = Analyze(h, n + 1) /\ anomalies' = Append(anomalies, k)
      BY <2>1, <2>2, <2>4
    <3> HIDE DEF k, n
    <3> QED
      BY <1>1, <2>3, <3>1
  <2>6. \A i \in 1 .. n + 1 : i \in 1 .. n \/ i = n + 1
    BY <1>1
  <2>7. \A i \in 1 .. n : \A j \in 1 .. i : j \in 1 .. n
    BY <1>1
  <2>8. ASSUME NEW i \in 1 .. n
        PROVE  FoundAt(i)'
    <3>1. PICK g \in Seq(Payment) : /\ Len(g) = i /\ \A j \in 1 .. i : g[j] = history[j]
                                    /\ anomalies[i] = Analyze(g, i)
      BY <1>1 DEF FoundAt
    <3>2. (\A j \in 1 .. i : g[j] = history'[j]) /\ anomalies'[i] = Analyze(g, i)
      BY <2>1, <2>2, <2>5, <2>7, <3>1
    <3> QED
      BY <3>1, <3>2 DEF FoundAt
  <2>9. ASSUME NEW i \in 1 .. n + 1, i = n + 1
        PROVE  FoundAt(i)'
    <3>1. h \in Seq(Payment) /\ Len(h) = i
      BY <2>2, <2>9
    <3>2. \A j \in 1 .. i : h[j] = history'[j]
      BY <2>1
    <3>3. anomalies'[i] = Analyze(h, i)
      BY <2>5, <2>9
    <3> HIDE DEF n
    <3> QED
      BY <3>1, <3>2, <3>3 DEF FoundAt
  <2>10. ASSUME Safe({"backdated"}), NEW i \in 1 .. n + 1, NEW j \in 1 .. n + 1, i < j
         PROVE  h[i].date <= h[j].date
    <3>1. i \in 1 .. n
      BY <1>1, <2>10
    <3>2. CASE j \in 1 .. n
      BY <1>1, <2>2, <2>10, <3>1, <3>2 DEF AnomalyInv
    <3>3. CASE j = n + 1
      <4>1. ~(t.date < Latest(history))
        BY <2>1, <2>10 DEF Safe, Risk
      <4> DEFINE D == {0} \cup {history[l].date : l \in DOMAIN history}
      <4>2. D \in SUBSET Nat /\ history[i].date \in D /\ t.date \in Nat
        <5>1. \A l \in 1 .. n : history[l].date \in Nat
          <6> SUFFICES ASSUME NEW l \in 1 .. n
                       PROVE  history[l].date \in Nat
            OBVIOUS
          <6>1. history[l] \in Payment
            BY <1>1
          <6> QED
            BY <6>1, AnomalyAssumption DEF Payment
        <5>2. t.date \in Nat
          BY AnomalyAssumption DEF Payment
        <5>3. \A x \in D : x = 0 \/ \E l \in 1 .. n : x = history[l].date
          BY <1>1
        <5>4. history[i].date \in D
          BY <1>1, <3>1
        <5> HIDE DEF D
        <5> QED
          BY <5>1, <5>2, <5>3, <5>4
      <4>3. \E x \in D : \A y \in D : x >= y
        <5>1. IsFiniteSet(D)
          <6>1. IsFiniteSet(DOMAIN history)
            <7>1. IsFiniteSet(1 .. n)
              BY <1>1, FS_Interval
            <7> QED
              BY <1>1, <7>1
          <6> DEFINE f == [l \in DOMAIN history |-> history[l].date]
                     R == {history[l].date : l \in DOMAIN history}
          <6>2. f \in Surjection(DOMAIN history, R)
            BY DEF Surjection
          <6> HIDE DEF f, R
          <6>3. IsFiniteSet(R)
            BY <6>1, <6>2, FS_Surjection
          <6>4. IsFiniteSet({0}) /\ {0} \cup R = R \cup {0}
            BY FS_Singleton
          <6>5. IsFiniteSet(R \cup {0})
            BY <6>3, FS_AddElement
          <6> QED
            BY <6>4, <6>5 DEF R
        <5>2. D # {}
          BY <4>2
        <5> HIDE DEF D
        <5> DEFINE f == [x \in D |-> x]
        <5>3. f \in [D -> Int] /\ \A x \in D : f[x] = x
          BY <4>2
        <5> HIDE DEF f
        <5>4. PICK x \in D : \A y \in D : f[y] <= f[x]
          BY <5>1, <5>2, <5>3, Greatest
        <5>5. \A y \in D : x >= y
          <6> SUFFICES ASSUME NEW y \in D
                       PROVE  x >= y
            OBVIOUS
          <6>1. x \in Nat /\ y \in Nat /\ f[y] <= f[x] /\ f[x] = x /\ f[y] = y
            BY <4>2, <5>3, <5>4
          <6> QED
            BY <6>1
        <5> QED
          BY <5>5
      <4>4. Latest(history) \in D /\ \A y \in D : Latest(history) >= y
        <5>1. Latest(history) = CHOOSE x \in D : \A y \in D : x >= y
          BY DEF Latest, Max
        <5> HIDE DEF D
        <5> QED
          BY <4>3, <5>1
      <4> HIDE DEF D
      <4>5. history[i].date <= t.date
        <5>1. PICK x \in Nat : x = Latest(history)
          BY <4>2, <4>4
        <5>2. PICK y \in Nat : y = history[i].date
          BY <4>2
        <5>3. PICK z \in Nat : z = t.date
          BY <4>2
        <5>4. x >= y /\ ~(z < x)
          BY <4>1, <4>2, <4>4, <5>1, <5>2, <5>3
        <5>5. y <= z
          BY <5>4
        <5> QED
          BY <5>2, <5>3, <5>5
      <4> QED
        BY <2>2, <3>1, <3>3, <4>5
    <3> QED
      BY <2>6, <3>2, <3>3
  <2> HIDE DEF n
  <2>11. history' \in Seq(Payment) /\ DOMAIN history' = 1 .. n + 1
    BY <2>1, <2>2
  <2>12. \A i \in 1 .. n + 1 : FoundAt(i)'
    BY <2>6, <2>8, <2>9
  <2>13. Safe({"backdated"})' =>
           \A i, j \in 1 .. n + 1 : i < j => history'[i].date <= history'[j].date
    BY <1>2, <2>1, <2>10
  <2>14. DOMAIN anomalies' = 1 .. n + 1 /\ anomalies' \in Seq(SUBSET Kind)
    BY <2>5
  <2> QED
    BY <2>11, <2>12, <2>13, <2>14 DEF AnomalyInv
<1>5. CASE AnomalyNext
  <2>1. PICK v \in Payee \cup {NoPayee}, a \in Amount, day \in PayDay :
              Add([vendor |-> v, amount |-> a, date |-> day])
    BY <1>5 DEF AnomalyNext
  <2>2. [vendor |-> v, amount |-> a, date |-> day] \in Payment
    BY DEF Payment
  <2> QED
    BY <1>4, <2>1, <2>2
<1> QED
  BY <1>3, <1>5

LEMMA AnomalySound ==
  ASSUME AnomalyInv
  PROVE  AnomalyTypeOK /\ DuplicatesFlagged /\ RepeatedIsKnown /\ OutliersOnTop
<1> DEFINE n == Len(history)
<1>1. /\ history \in Seq(Payment) /\ n \in Nat /\ DOMAIN history = 1 .. n
      /\ \A i \in 1 .. n : history[i] \in Payment
      /\ anomalies \in Seq(SUBSET Kind) /\ DOMAIN anomalies = 1 .. n
      /\ \A i \in 1 .. n : FoundAt(i)
  BY DEF AnomalyInv
<1>2. AnomalyTypeOK
  <2>1. Len(history) = Len(anomalies)
    BY <1>1
  <2> QED
    BY <1>1, <2>1 DEF AnomalyTypeOK, Payment
<1>3. DuplicatesFlagged
  <2> SUFFICES ASSUME Safe({"backdated"}), NEW i \in 1 .. n, NEW j \in 1 .. n,
                      i < j, history[i].vendor # NoPayee,
                      SameVendor(history[j], history[i].vendor),
                      history[i].amount = history[j].amount,
                      history[j].date - history[i].date <= DuplicateDays
               PROVE  "DuplicateAmount" \in anomalies[j]
    BY <1>1 DEF DuplicatesFlagged
  <2>1. PICK h \in Seq(Payment) : /\ Len(h) = j /\ \A k \in 1 .. j : h[k] = history[k]
                                  /\ anomalies[j] = Analyze(h, j)
    BY <1>1 DEF FoundAt
  <2>2. i \in 1 .. j /\ j \in 1 .. j /\ DOMAIN h = 1 .. j /\ i # j
    BY <1>1, <2>1
  <2>3. h[i] = history[i] /\ h[j] = history[j]
    BY <2>1, <2>2
  <2>4. history[i].date \in Nat /\ history[j].date \in Nat /\ history[i].date <= history[j].date
        /\ DuplicateDays \in Nat
    <3>1. history[i] \in Payment /\ history[j] \in Payment
      BY <1>1
    <3> QED
      BY <1>1, <3>1, AnomalyAssumption DEF Payment, AnomalyInv
  <2>5. h[j].date - DuplicateDays <= h[i].date /\ h[i].date <= h[j].date
    BY <2>3, <2>4
  <2>6. h[j].vendor # NoPayee /\ SameVendor(h[i], h[j].vendor)
    BY <2>3 DEF SameVendor
  <2>7. i \in ByVendorAndDateRange(h, h[j].vendor, h[j].date - DuplicateDays, h[j].date)
    BY <2>2, <2>5, <2>6 DEF ByVendorAndDateRange, ByVendor
  <2>8. CheckDuplicateAmount(h, j)
    BY <2>2, <2>3, <2>6, <2>7 DEF CheckDuplicateAmount
  <2> QED
    BY <2>1, <2>8, AnalyzeIs
<1>4. RepeatedIsKnown
  <2> SUFFICES ASSUME NEW i \in 1 .. n, "DuplicateAmount" \in anomalies[i],
                      "UnusualVendor" \in anomalies[i]
               PROVE  FALSE
    BY <1>1 DEF RepeatedIsKnown
  <2>1. PICK h \in Seq(Payment) : /\ Len(h) = i /\ \A k \in 1 .. i : h[k] = history[k]
                                  /\ anomalies[i] = Analyze(h, i)
    BY <1>1 DEF FoundAt
  <2>2. CheckDuplicateAmount(h, i) /\ CheckUnusualVendor(h, i)
    BY <2>1, AnalyzeIs
  <2>3. PICK j \in ByVendorAndDateRange(h, h[i].vendor, h[i].date - DuplicateDays, h[i].date) : j # i
    BY <2>2 DEF CheckDuplicateAmount
  <2>4. /\ j \in ByVendor(h, h[i].vendor) /\ h[i].date - DuplicateDays <= h[j].date
        /\ h[j].date <= h[i].date /\ j \in DOMAIN h
    BY <2>3 DEF ByVendorAndDateRange, ByVendor
  <2>5. h[i] \in Payment /\ h[j] \in Payment
    BY <2>1, <2>4
  <2>6. h[i].date \in Nat /\ h[j].date \in Nat /\ DuplicateDays \in Nat /\ VendorDays \in Nat
        /\ DuplicateDays <= VendorDays
    BY <2>5, AnomalyAssumption DEF Payment
  <2>7. h[i].date - VendorDays <= h[j].date
    BY <2>4, <2>6
  <2>8. j \in ByVendorAndDateRange(h, h[i].vendor, h[i].date - VendorDays, h[i].date)
    BY <2>4, <2>7 DEF ByVendorAndDateRange
  <2> QED
    BY <2>2, <2>3, <2>8 DEF CheckUnusualVendor
<1>5. OutliersOnTop
  <2> SUFFICES ASSUME NEW i \in 1 .. n, "AmountOutlier" \in anomalies[i],
                      Cardinality({k \in 1 .. i - 1 : history[i].vendor # NoPayee
                                     /\ SameVendor(history[k], history[i].vendor)})
                        <= Deviations * Deviations + 1,
                      NEW j \in 1 .. i - 1, history[i].vendor # NoPayee,
                      SameVendor(history[j], history[i].vendor)
               PROVE  history[j].amount < history[i].amount
    BY <1>1 DEF OutliersOnTop
  <2>1. PICK h \in Seq(Payment) : /\ Len(h) = i /\ \A k \in 1 .. i : h[k] = history[k]
                                  /\ anomalies[i] = Analyze(h, i)
    BY <1>1 DEF FoundAt
  <2>2. CheckAmountOutlier(h, i)
    BY <2>1, AnalyzeIs
  <2> DEFINE others == ByVendor(h, h[i].vendor) \ {i}
             f == [k \in others |-> h[k].amount]
             g == [k \in others |-> h[k].amount * h[k].amount]
  <2>3. OutlierOf(Cardinality(others), SumFunction(f), SumFunction(g), h[i].amount)
    BY <2>2 DEF CheckAmountOutlier
  <2>4. DOMAIN h = 1 .. i /\ i \in Nat /\ \A k \in 1 .. i : k \in 1 .. i - 1 \/ k = i
    BY <1>1, <2>1
  <2>5. \A k \in 1 .. i - 1 : k \in 1 .. i /\ k # i
    BY <2>4
  <2>6. i \in 1 .. i /\ h[i] = history[i]
    BY <1>1, <2>1
  <2>7. others = {k \in 1 .. i - 1 : history[i].vendor # NoPayee
                                       /\ SameVendor(history[k], history[i].vendor)}
    <3>1. \A k : k \in others <=> k \in 1 .. i - 1 /\ SameVendor(history[k], history[i].vendor)
      BY <2>1, <2>4, <2>5, <2>6 DEF ByVendor
    <3> HIDE DEF others
    <3> QED
      BY <3>1
  <2>8. IsFiniteSet(others) /\ j \in others /\ \A k \in others : k \in 1 .. i
    <3>1. IsFiniteSet(1 .. i)
      BY <2>4, FS_Interval
    <3>2. others \in SUBSET (1 .. i) /\ j \in others
      BY <2>4, <2>5, <2>7
    <3> HIDE DEF others
    <3> QED
      BY <3>1, <3>2, FS_Subset
  <2>9. \A k \in 1 .. i : h[k].amount \in Int
    <3> SUFFICES ASSUME NEW k \in 1 .. i
                 PROVE  h[k].amount \in Int
      OBVIOUS
    <3>1. h[k] \in Payment
      BY <2>1, <2>4
    <3> QED
      BY <3>1, AnomalyAssumption DEF Payment
  <2>10. Cardinality(others) <= Deviations * Deviations + 1
    BY <2>7
  <2> HIDE DEF others
  <2>11. f \in [others -> Int] /\ g = [k \in others |-> f[k] * f[k]] /\ f[j] = h[j].amount
    BY <2>8, <2>9
  <2> HIDE DEF f, g
  <2>12. f[j] < h[i].amount
    <3>1. h[i].amount \in Int /\ Deviations \in Nat
      BY <2>6, <2>9, AnomalyAssumption
    <3> QED
      BY <2>3, <2>8, <2>10, <2>11, <3>1, OutlierAbove
  <2> QED
    BY <2>1, <2>5, <2>6, <2>11, <2>12
<1> QED
  BY <1>2, <1>3, <1>4, <1>5

-----------------------------------------------------------------------------
(* The distance of names.                                                   *)

LEMMA NextRowIs ==
  ASSUME NEW a, NEW b, Len(a) \in Nat, Len(b) \in Nat, NEW i \in Nat,
         NEW prev \in Seq(Nat), Len(prev) = Len(b) + 1
  PROVE  Follows(NextRow(i, prev, a, b), prev, i, a, b)
<1> DEFINE upTo == CHOOSE f : RowBy(f, prev, i, a, b)
<1>1. NextRow(i, prev, a, b) = upTo[Len(b)]
  BY DEF NextRow, RowBy, Least, Cost, Lesser, Unlike
<1>2. (\E f : RowBy(f, prev, i, a, b)) => RowBy(upTo, prev, i, a, b)
  OBVIOUS
<1> HIDE DEF upTo
<1>3. Follows(upTo[Len(b)], prev, i, a, b)
  BY <1>2, RowBuilt
<1> QED
  BY <1>1, <1>3

\* The row one after the other are the table.
LEMMA DistanceIs ==
  ASSUME NEW a, NEW b, Len(a) \in Nat, Len(b) \in Nat
  PROVE  \E D : IsTable(D, a, b) /\ LevenshteinDistance(a, b) = D[Len(a)][Len(b)]
<1> DEFINE m == Len(a)
           n == Len(b)
           first == [j \in 1 .. n + 1 |-> j - 1]
           Full == {r \in Seq(Nat) : Len(r) = n + 1}
           X == Full \cup {<< >>}
           step == [i \in 1 .. m |->
                      [r \in X |-> IF r \in Full /\ r[1] = i - 1 THEN NextRow(i, r, a, b) ELSE << >>]]
           Unfolded(f) ==
             f = [i \in 0 .. Len(a) |->
                    IF i = 0 THEN [j \in 1 .. Len(b) + 1 |-> j - 1]
                    ELSE IF f[i - 1][1] = i - 1 THEN NextRow(i, f[i - 1], a, b) ELSE << >>]
           row == CHOOSE f : Unfolded(f)
<1>1. m \in Nat /\ n \in Nat
  OBVIOUS
<1>2. first \in Full /\ first[1] = 0 /\ \A j \in 0 .. n : first[j + 1] = j
  OBVIOUS
<1>3. ASSUME NEW i \in 1 .. m, NEW r \in Full
      PROVE  NextRow(i, r, a, b) \in Full /\ NextRow(i, r, a, b)[1] = i
  <2>1. i \in Nat /\ r \in Seq(Nat) /\ Len(r) = Len(b) + 1
    OBVIOUS
  <2>2. Follows(NextRow(i, r, a, b), r, i, a, b)
    BY <2>1, NextRowIs
  <2> QED
    BY <2>2 DEF Follows
<1>4. \E f : Unfolded(f)
  <2>1. step \in [1 .. m -> [X -> X]]
    <3> HIDE DEF Full
    <3> QED
      BY <1>3
  <2>2. first \in X
    BY <1>2
  <2> HIDE DEF step, Full
  <2>3. StepsIn(step, m, X)
    BY <2>1 DEF StepsIn
  <2>4. PICK f : Recurses(f, m, X, first, step)
    <3> HIDE DEF m, X, first, Unfolded
    <3> QED
      BY <1>1, <2>2, <2>3, Recursion
  <2>5. f \in [0 .. m -> X] /\ f[0] = first
        /\ \A i \in 1 .. m : f[i] = step[i][f[i - 1]]
    BY <2>4 DEF Recurses
  <2> HIDE DEF first
  <2>6. ASSUME NEW i \in 1 .. m, f[i - 1] \in Full, f[i - 1][1] = i - 1
        PROVE  f[i] = NextRow(i, f[i - 1], a, b) /\ f[i] \in Full /\ f[i][1] = i
    <3>1. step[i] = [r \in X |-> IF r \in Full /\ r[1] = i - 1 THEN NextRow(i, r, a, b) ELSE << >>]
      BY DEF step
    <3>2. f[i] = NextRow(i, f[i - 1], a, b)
      BY <2>5, <2>6, <3>1
    <3> QED
      BY <1>3, <2>6, <3>2
  <2> DEFINE M == {i \in Nat : i <= m => f[i] \in Full /\ f[i][1] = i}
  <2> HIDE DEF X, m, n, Unfolded
  <2>7. 0 \in M
    BY <1>2, <2>5
  <2>8. ASSUME NEW i \in Nat, i \in M
        PROVE  i + 1 \in M
    <3> SUFFICES ASSUME i + 1 <= m
                 PROVE  f[i + 1] \in Full /\ f[i + 1][1] = i + 1
      OBVIOUS
    <3>1. i + 1 \in 1 .. m /\ i + 1 - 1 = i
      BY <1>1
    <3>2. f[i] \in Full /\ f[i][1] = i
      BY <1>1, <2>8
    <3> HIDE DEF M
    <3> QED
      BY <2>6, <3>1, <3>2
  <2>9. Nat \subseteq M
    <3> HIDE DEF M
    <3> QED
      BY <2>7, <2>8, Induct
  <2>10. ASSUME NEW i \in 0 .. m
         PROVE  f[i] = IF i = 0 THEN first
                       ELSE IF f[i - 1][1] = i - 1 THEN NextRow(i, f[i - 1], a, b) ELSE << >>
    <3>1. CASE i = 0
      BY <2>5, <3>1
    <3>2. CASE i # 0
      <4>1. i \in 1 .. m /\ i - 1 \in Nat /\ i - 1 <= m
        BY <1>1, <3>2
      <4>2. f[i - 1] \in Full /\ f[i - 1][1] = i - 1
        <5>1. i - 1 \in M
          BY <2>9, <4>1
        <5> QED
          BY <4>1, <5>1
      <4> QED
        BY <2>6, <3>2, <4>1, <4>2
    <3> QED
      BY <3>1, <3>2
  <2>11. f = [i \in 0 .. m |-> f[i]]
    BY <2>5
  <2>12. Unfolded(f)
    BY <2>10, <2>11 DEF Unfolded, first, m, n
  <2> QED
    BY <2>12
<1>5. Unfolded(row)
  <2> HIDE DEF Unfolded
  <2> QED
    BY <1>4
<1>6. LevenshteinRow(a, b) = row[m]
  BY DEF LevenshteinRow
<1> HIDE DEF row
<1>7. row[0] = first
  BY <1>1, <1>5
<1>8. ASSUME NEW i \in 1 .. m
      PROVE  row[i] = IF row[i - 1][1] = i - 1 THEN NextRow(i, row[i - 1], a, b) ELSE << >>
  <2>1. i \in 0 .. Len(a) /\ i # 0
    BY <1>1
  <2> QED
    BY <1>5, <2>1
<1> HIDE DEF Unfolded, first, step, X, m, n, Full
<1> DEFINE Good(i) == /\ row[i] \in Full /\ row[i][1] = i
                      /\ i > 0 => row[i] = NextRow(i, row[i - 1], a, b)
           M == {i \in Nat : i <= m => Good(i)}
<1>9. 0 \in M
  BY <1>2, <1>7
<1>10. ASSUME NEW i \in Nat, i \in M
       PROVE  i + 1 \in M
  <2> SUFFICES ASSUME i + 1 <= m
               PROVE  Good(i + 1)
    OBVIOUS
  <2>1. i + 1 \in 1 .. m /\ i + 1 - 1 = i
    BY <1>1
  <2>2. Good(i)
    BY <1>1, <1>10
  <2>3. row[i + 1] = NextRow(i + 1, row[i], a, b)
    BY <1>8, <2>1, <2>2
  <2> QED
    BY <1>3, <2>1, <2>2, <2>3
<1>11. \A i \in 0 .. m : Good(i)
  <2>1. Nat \subseteq M
    <3> HIDE DEF M
    <3> QED
      BY <1>9, <1>10, Induct
  <2>2. ASSUME NEW i \in 0 .. m
        PROVE  Good(i)
    <3>1. i \in Nat /\ i <= m
      BY <1>1
    <3> HIDE DEF Good
    <3> QED
      BY <2>1, <3>1
  <2> QED
    BY <2>2
<1> DEFINE D == [i \in 0 .. m |-> [j \in 0 .. n |-> row[i][j + 1]]]
<1>12. \A i \in 0 .. m, j \in 0 .. n : D[i][j] = row[i][j + 1] /\ row[i][j + 1] \in Nat
  <2> SUFFICES ASSUME NEW i \in 0 .. m, NEW j \in 0 .. n
               PROVE  row[i][j + 1] \in Nat
    OBVIOUS
  <2>1. row[i] \in Seq(Nat) /\ Len(row[i]) = n + 1
    BY <1>11 DEF Full
  <2> QED
    BY <1>1, <2>1
<1>13. D \in [0 .. m -> [0 .. n -> Nat]]
  BY <1>12
<1> HIDE DEF D
<1>14. \A i \in 0 .. m : D[i][0] = i
  <2> SUFFICES ASSUME NEW i \in 0 .. m
               PROVE  D[i][0] = i
    OBVIOUS
  <2>1. D[i][0] = row[i][1]
    <3>1. 0 \in 0 .. n /\ 0 + 1 = 1
      BY <1>1
    <3> QED
      BY <1>12, <3>1
  <2> QED
    BY <1>11, <2>1
<1>15. \A j \in 0 .. n : D[0][j] = j
  <2>1. 0 \in 0 .. m
    BY <1>1
  <2> QED
    BY <1>2, <1>7, <1>12, <2>1
<1>16. ASSUME NEW i \in 1 .. m, NEW j \in 1 .. n
       PROVE  D[i][j] = Least(Least(D[i - 1][j], D[i][j - 1]) + 1,
                              D[i - 1][j - 1] + Cost(Letter(a, i), Letter(b, j)))
  <2>1. i \in 0 .. m /\ i - 1 \in 0 .. m /\ i \in Nat /\ i > 0
        /\ j \in 0 .. n /\ j - 1 \in 0 .. n /\ j - 1 + 1 = j
    BY <1>1
  <2>2. row[i] = NextRow(i, row[i - 1], a, b) /\ row[i - 1] \in Seq(Nat)
        /\ Len(row[i - 1]) = Len(b) + 1
    BY <1>11, <2>1 DEF Full, n
  <2>3. j \in 1 .. Len(b)
    BY DEF n
  <2>4. row[i][j + 1] = Least(Least(row[i - 1][j + 1], row[i][j]) + 1,
                               row[i - 1][j] + Cost(Letter(a, i), Letter(b, j)))
    <3> DEFINE prev == row[i - 1]
    <3>1. prev \in Seq(Nat) /\ Len(prev) = Len(b) + 1 /\ row[i] = NextRow(i, prev, a, b)
      BY <2>2
    <3> HIDE DEF prev
    <3>2. Follows(row[i], prev, i, a, b)
      <4> HIDE DEF Good, M
      <4> QED
        BY <2>1, <3>1, NextRowIs
    <3>3. row[i][j + 1] = Least(Least(prev[j + 1], row[i][j]) + 1,
                                 prev[j] + Cost(Letter(a, i), Letter(b, j)))
      BY <2>3, <3>2 DEF Follows, Lesser, Unlike, Least, Cost
    <3> QED
      BY <3>3 DEF prev
  <2>5. /\ D[i][j] = row[i][j + 1] /\ D[i - 1][j] = row[i - 1][j + 1]
        /\ D[i][j - 1] = row[i][j] /\ D[i - 1][j - 1] = row[i - 1][j]
    BY <1>12, <2>1
  <2> QED
    BY <2>4, <2>5
<1>17. IsTable(D, a, b)
  BY <1>13, <1>14, <1>15, <1>16 DEF IsTable, Lesser, Unlike, Least, Cost, m, n
<1>18. LevenshteinDistance(a, b) = D[m][n]
  <2>1. m \in 0 .. m /\ n \in 0 .. n
    BY <1>1
  <2> QED
    BY <1>6, <1>12, <2>1 DEF LevenshteinDistance, n
<1> QED
  BY <1>17, <1>18 DEF m, n

\* Of names: their distance is one.
LEMMA NamesApart ==
  ASSUME NEW a \in AccountName, NEW b \in AccountName, NEW c \in AccountName
  PROVE  /\ LevenshteinDistance(a, b) \in Nat
         /\ LevenshteinDistance(a, b) = LevenshteinDistance(b, a)
         /\ LevenshteinDistance(a, b) = 0 <=> a = b
         /\ LevenshteinDistance(a, b) <= LevenshteinDistance(a, c) + LevenshteinDistance(c, b)
         /\ LevenshteinDistance(a, b) <= Longer(Len(a), Len(b))
<1>1. Len(a) \in Nat /\ Len(b) \in Nat /\ Len(c) \in Nat
  BY LettersAssumption
<1>2. PICK D : IsTable(D, a, b) /\ LevenshteinDistance(a, b) = D[Len(a)][Len(b)]
  BY <1>1, DistanceIs
<1>3. PICK E : IsTable(E, b, a) /\ LevenshteinDistance(b, a) = E[Len(b)][Len(a)]
  BY <1>1, DistanceIs
<1>4. PICK F : IsTable(F, a, c) /\ LevenshteinDistance(a, c) = F[Len(a)][Len(c)]
  BY <1>1, DistanceIs
<1>5. PICK G : IsTable(G, c, b) /\ LevenshteinDistance(c, b) = G[Len(c)][Len(b)]
  BY <1>1, DistanceIs
<1> DEFINE m == Len(a)
           n == Len(b)
           d == D[m][n]
<1>6. m \in 0 .. m /\ n \in 0 .. n /\ Len(c) \in 0 .. Len(c)
  BY <1>1
<1>7. d \in Nat /\ m - n <= d /\ n - m <= d /\ (d <= m \/ d <= n)
  BY <1>1, <1>2, <1>6, TableBounds
<1>8. d = E[n][m]
  BY <1>1, <1>2, <1>3, <1>6, TableTurned
<1>9. d <= F[m][Len(c)] + G[Len(c)][n]
  BY <1>1, <1>2, <1>4, <1>5, <1>6, TableTriangle
<1>10. ASSUME m = n
       PROVE  d = 0 <=> \A l \in 1 .. m : Letter(a, l) = Letter(b, l)
  <2>1. m \in 0 .. Len(a) /\ m \in 0 .. Len(b)
    BY <1>6, <1>10
  <2>2. D[m][m] = 0 <=> \A l \in 1 .. m : Letter(a, l) = Letter(b, l)
    <3> HIDE DEF m
    <3> QED
      BY <1>1, <1>2, <2>1, TableZero
  <2> QED
    BY <1>10, <2>2
<1>11. d = 0 => m = n
  <2> HIDE DEF d, m, n
  <2> QED
    BY <1>1, <1>7 DEF m, n
<1>12. d = 0 <=> a = b
  <2>1. CASE m = n
    <3>1. d = 0 <=> \A l \in 1 .. m : SubSeq(a, l, l) = SubSeq(b, l, l)
      BY <1>10, <2>1 DEF Letter
    <3>2. (\A l \in 1 .. m : SubSeq(a, l, l) = SubSeq(b, l, l)) => a = b
      BY <2>1, LettersAssumption
    <3> HIDE DEF d
    <3> QED
      BY <3>1, <3>2
  <2>2. CASE m # n
    BY <1>11, <2>2
  <2> QED
    BY <2>1, <2>2
<1>13. d <= Longer(m, n)
  <2> HIDE DEF d, m, n
  <2> QED
    BY <1>1, <1>7 DEF Longer, m, n
<1> QED
  BY <1>2, <1>3, <1>4, <1>5, <1>7, <1>8, <1>9, <1>12, <1>13

-----------------------------------------------------------------------------
(* The classifier's answers.                                                *)

\* A suggestion is of a best category, a list a ranking, a match one of a chart.
SuggestionFrom ==
  \/ suggestion = NoSuggestion
  \/ \E text \in AccountText : \E c \in BestCategories(text) :
       \/ suggestion = Suggested(text, c)
       \/ /\ Risk("llm")
          /\ \E llm \in LlmAnswer : suggestion = MergeSuggestions(Suggested(text, c), llm)

ClassifierInv ==
  /\ SuggestionFrom
  /\ ranked = << >> \/ \E text \in AccountText : ranked \in Rankings(text)
  /\ \/ matched = NothingMatched
     \/ \E name \in AccountName, chart \in Chart : matched = MatchIn(name, chart)

LEMMA ClassifierAtFirst ==
  ASSUME ClassifierInit
  PROVE  ClassifierInv
  BY DEF ClassifierInit, ClassifierInv, SuggestionFrom

LEMMA ClassifierKept ==
  ASSUME ClassifierInv, ClassifierNext \/ UNCHANGED classifierVars, mix' = mix
  PROVE  ClassifierInv'
<1> DEFINE R(r) == r = << >> \/ \E text \in AccountText : r \in Rankings(text)
<1>1. R(ranked) /\ SuggestionFrom
  BY DEF ClassifierInv
<1>2. Risk("llm")' = Risk("llm")
  BY DEF Risk
<1>3. suggestion' = NoSuggestion => SuggestionFrom'
  BY DEF SuggestionFrom
<1>4. suggestion' = suggestion => SuggestionFrom'
  BY <1>1, <1>2 DEF SuggestionFrom
<1>5. ASSUME NEW text, ForgetOthers(text)
      PROVE  R(ranked') /\ matched' = NothingMatched
  BY <1>1, <1>5 DEF ForgetOthers
<1>6. CASE UNCHANGED classifierVars
  BY <1>4, <1>6 DEF ClassifierInv, classifierVars
<1>7. ASSUME NEW text \in AccountText, SuggestCategory(text)
      PROVE  ClassifierInv'
  <2>1. SuggestionFrom'
    BY <1>7 DEF SuggestCategory, SuggestionFrom
  <2> QED
    BY <1>5, <1>7, <2>1 DEF SuggestCategory, ClassifierInv
<1>8. ASSUME NEW text \in AccountText, SuggestWithLlm(text)
      PROVE  ClassifierInv'
  <2>1. SuggestionFrom'
    BY <1>2, <1>8 DEF SuggestWithLlm, SuggestionFrom
  <2> QED
    BY <1>5, <1>8, <2>1 DEF SuggestWithLlm, ClassifierInv
<1>9. ASSUME NEW text \in AccountText, SuggestAccountType(text)
      PROVE  ClassifierInv'
  BY <1>3, <1>4, <1>9 DEF SuggestAccountType, ClassifierInv
<1>10. ASSUME NEW name \in AccountName, NEW chart \in Chart, MatchExistingAccount(name, chart)
       PROVE  ClassifierInv'
  BY <1>3, <1>10 DEF MatchExistingAccount, ClassifierInv
<1> QED
  BY <1>6, <1>7, <1>8, <1>9, <1>10 DEF ClassifierNext

\* A score is a number, and the confidence tells two scores apart below its cap.
LEMMA KeywordScore ==
  ASSUME NEW text, NEW c \in Category
  PROVE  ScoreOf(text, c) \in Nat
<1> DEFINE S == KeywordsIn(text, c)
           f == [w \in S |-> Len(w)]
<1>1. S \subseteq CategoryKeywords[c]
  BY DEF KeywordsIn
<1>2. IsFiniteSet(S) /\ \A w \in S : Len(w) \in Nat
  <2>1. IsFiniteSet(CategoryKeywords[c]) /\ \A w \in CategoryKeywords[c] : Len(w) \in Nat
    BY LettersAssumption
  <2> HIDE DEF S
  <2> QED
    BY <1>1, <2>1, FS_Subset
<1> HIDE DEF S
<1>3. f \in [S -> Nat]
  BY <1>2
<1> HIDE DEF f
<1>4. SumFunction(f) \in Nat
  BY <1>2, <1>3, SumNat
<1> QED
  BY <1>4 DEF ScoreOf, LengthsOf, S, f

LEMMA ConfidenceIs ==
  ASSUME NEW x \in Nat, NEW y \in Nat
  PROVE  /\ ConfidenceOf(x) \in 300 .. 950
         /\ (ConfidenceOf(x) <= ConfidenceOf(y) /\ x > 0 /\ ConfidenceOf(x) < 950) => x <= y
  BY DEF ConfidenceOf, Least

\* The first of a ranking is of the highest confidence.
LEMMA RankingIs ==
  ASSUME NEW text, NEW r \in Rankings(text)
  PROVE  /\ r # << >> /\ 1 \in DOMAIN r
         /\ \A i \in DOMAIN r : \E c \in Category : r[i] = Suggested(text, c)
         /\ (\E c \in Category : ScoreOf(text, c) > 0) =>
              \E d \in Category :
                /\ r[1] = Suggested(text, d)
                /\ \A c \in Category : ScoreOf(text, c) > 0 =>
                     ConfidenceOf(ScoreOf(text, c)) <= ConfidenceOf(ScoreOf(text, d))
<1> DEFINE scored == {c \in Category : ScoreOf(text, c) > 0}
           n == Cardinality(scored)
           k == Least(n, MaxSuggestions)
           Conf(c) == ConfidenceOf(ScoreOf(text, c))
<1>1. CASE scored = {}
  <2>1. r = <<Suggested(text, "Expense")>>
    BY <1>1 DEF Rankings
  <2>2. "Expense" \in Category
    BY DEF Category
  <2>3. DOMAIN r = {1} /\ r[1] = Suggested(text, "Expense") /\ r # << >>
    <3> DEFINE e == Suggested(text, "Expense")
    <3> HIDE DEF e
    <3>1. r = <<e>>
      BY <2>1 DEF e
    <3>2. DOMAIN r = {1} /\ r[1] = e /\ r # << >>
      BY <3>1
    <3> QED
      BY <3>2 DEF e
  <2>4. \A c \in Category : ~(ScoreOf(text, c) > 0)
    BY <1>1
  <2> QED
    BY <2>2, <2>3, <2>4
<1>2. CASE scored # {}
  <2>1. PICK s \in Orders(scored) :
          /\ \A i, j \in DOMAIN s : i < j => Conf(s[j]) <= Conf(s[i])
          /\ r = [i \in 1 .. k |-> Suggested(text, s[i])]
    BY <1>2 DEF Rankings
  <2>2. s \in [1 .. n -> scored] /\ \A i, j \in DOMAIN s : i # j => s[i] # s[j]
    BY <2>1 DEF Orders
  <2>3. IsFiniteSet(scored)
    <3>1. Category = {"Asset", "Liability", "Equity"} \cup {"Revenue"} \cup {"Expense"}
      BY DEF Category
    <3>2. IsFiniteSet({"Asset", "Liability", "Equity"})
      BY FewAreFinite
    <3>3. IsFiniteSet({"Asset", "Liability", "Equity"} \cup {"Revenue"})
      BY <3>2, FS_AddElement
    <3>4. IsFiniteSet(Category)
      BY <3>1, <3>3, FS_AddElement
    <3>5. scored \subseteq Category
      OBVIOUS
    <3> HIDE DEF scored
    <3> QED
      BY <3>4, <3>5, FS_Subset
  <2>4. scored \subseteq Category /\ \A c \in Category : c \in scored <=> ScoreOf(text, c) > 0
    OBVIOUS
  <2> HIDE DEF scored
  <2>5. n \in Nat /\ n > 0
    <3>1. n \in Nat /\ n # 0
      BY <1>2, <2>3, FS_CardinalityType, FS_EmptySet
    <3> QED
      BY <3>1
  <2>6. k \in Nat /\ 1 <= k /\ k <= n
    <3>1. MaxSuggestions \in Nat \ {0}
      BY ClassifierAssumption
    <3> HIDE DEF n
    <3> QED
      BY <2>5, <3>1 DEF Least
  <2>7. \A c \in scored : \E i \in 1 .. n : s[i] = c
    <3>1. IsFiniteSet(1 .. n) /\ Cardinality(1 .. n) = n
      BY <2>5, FS_Interval
    <3>2. s \in Injection(1 .. n, scored)
      BY <2>2 DEF Injection, IsInjective
    <3>3. s \in Surjection(1 .. n, scored)
      BY <2>3, <3>1, <3>2, FS_Injection
    <3> QED
      BY <3>3 DEF Surjection
  <2> HIDE DEF n, k
  <2>8. DOMAIN r = 1 .. k /\ 1 \in 1 .. k /\ r # << >>
        /\ \A i \in 1 .. k : r[i] = Suggested(text, s[i]) /\ i \in 1 .. n
    <3>1. \A i \in 1 .. k : i \in 1 .. n
      BY <2>5, <2>6
    <3>2. DOMAIN r = 1 .. k /\ \A i \in 1 .. k : r[i] = Suggested(text, s[i])
      BY <2>1
    <3>3. 1 \in 1 .. k
      BY <2>6
    <3>4. DOMAIN r # {}
      BY <3>2, <3>3
    <3>5. r # << >>
      BY <3>4
    <3> QED
      BY <3>1, <3>2, <3>3, <3>5
  <2>9. \A i \in DOMAIN r : \E c \in Category : r[i] = Suggested(text, c)
    BY <2>2, <2>4, <2>8
  <2>10. \A i \in 1 .. n : Conf(s[i]) <= Conf(s[1])
    <3> SUFFICES ASSUME NEW i \in 1 .. n
                 PROVE  Conf(s[i]) <= Conf(s[1])
      OBVIOUS
    <3>1. 1 \in 1 .. n /\ DOMAIN s = 1 .. n
      BY <2>2, <2>5
    <3>2. CASE i = 1
      <4>1. s[1] \in Category
        BY <2>2, <2>4, <3>1
      <4>2. ScoreOf(text, s[1]) \in Nat
        BY <4>1, KeywordScore
      <4>3. Conf(s[1]) \in 300 .. 950
        BY <4>2, ConfidenceIs
      <4> QED
        BY <3>2, <4>3
    <3>3. CASE i # 1
      <4>1. 1 < i
        BY <2>5, <3>3
      <4> QED
        BY <2>1, <3>1, <4>1
    <3> QED
      BY <3>2, <3>3
  <2>11. s[1] \in Category /\ r[1] = Suggested(text, s[1])
    BY <2>2, <2>4, <2>8
  <2>12. \A c \in Category : ScoreOf(text, c) > 0 => Conf(c) <= Conf(s[1])
    BY <2>4, <2>7, <2>10
  <2> QED
    BY <2>8, <2>9, <2>11, <2>12
<1> QED
  BY <1>1, <1>2

\* The first of a ranking is the suggestion, where one category leads.
LEMMA LeaderFirst ==
  ASSUME NEW text, NEW c \in BestCategories(text), Cardinality(BestCategories(text)) = 1,
         ConfidenceOf(ScoreOf(text, c)) < 950, NEW r \in Rankings(text)
  PROVE  r[1] = Suggested(text, c)
<1> DEFINE B == BestCategories(text)
<1>1. c \in Category /\ \A d \in Category : ScoreOf(text, d) <= ScoreOf(text, c)
  BY DEF BestCategories
<1>2. \A d \in Category : ScoreOf(text, d) \in Nat
  BY KeywordScore
<1>3. \A d \in B : d = c
  <2>1. IsFiniteSet(B)
    <3>1. Category = {"Asset", "Liability", "Equity"} \cup {"Revenue"} \cup {"Expense"}
      BY DEF Category
    <3>2. IsFiniteSet({"Asset", "Liability", "Equity"})
      BY FewAreFinite
    <3>3. IsFiniteSet({"Asset", "Liability", "Equity"} \cup {"Revenue"})
      BY <3>2, FS_AddElement
    <3>4. IsFiniteSet(Category)
      BY <3>1, <3>3, FS_AddElement
    <3>5. B \subseteq Category
      BY DEF BestCategories
    <3> HIDE DEF B
    <3> QED
      BY <3>4, <3>5, FS_Subset
  <2>2. Cardinality(B) = 1 /\ c \in B
    OBVIOUS
  <2> HIDE DEF B
  <2>3. PICK x : B = {x}
    BY <2>1, <2>2, FS_Singleton
  <2> QED
    BY <2>2, <2>3
<1>4. ASSUME NEW d \in Category, ScoreOf(text, c) <= ScoreOf(text, d)
      PROVE  d = c
  <2>1. \A e \in Category : ScoreOf(text, e) <= ScoreOf(text, d)
    <3> SUFFICES ASSUME NEW e \in Category
                 PROVE  ScoreOf(text, e) <= ScoreOf(text, d)
      OBVIOUS
    <3>1. ScoreOf(text, e) <= ScoreOf(text, c) /\ ScoreOf(text, e) \in Nat
          /\ ScoreOf(text, c) \in Nat /\ ScoreOf(text, d) \in Nat
      BY <1>1, <1>2
    <3> QED
      BY <1>4, <3>1
  <2>2. d \in B
    BY <2>1 DEF BestCategories
  <2> QED
    BY <1>3, <2>2
<1>5. ScoreOf(text, c) > 0
  <2> SUFFICES ASSUME ~(ScoreOf(text, c) > 0)
               PROVE  FALSE
    OBVIOUS
  <2>1. \A d \in Category : ScoreOf(text, c) <= ScoreOf(text, d)
    <3> SUFFICES ASSUME NEW d \in Category
                 PROVE  ScoreOf(text, c) <= ScoreOf(text, d)
      OBVIOUS
    <3>1. ScoreOf(text, c) \in Nat /\ ScoreOf(text, d) \in Nat
      BY <1>1, <1>2
    <3> QED
      BY <3>1
  <2>2. "Asset" \in Category /\ "Equity" \in Category /\ "Asset" # "Equity"
    BY DEF Category
  <2>3. "Asset" = c
    BY <1>4, <2>1, <2>2
  <2>4. "Equity" = c
    BY <1>4, <2>1, <2>2
  <2> QED
    BY <2>2, <2>3, <2>4
<1>6. PICK d \in Category :
        /\ r[1] = Suggested(text, d)
        /\ \A e \in Category : ScoreOf(text, e) > 0 =>
             ConfidenceOf(ScoreOf(text, e)) <= ConfidenceOf(ScoreOf(text, d))
  BY <1>1, <1>5, RankingIs
<1>7. ScoreOf(text, c) <= ScoreOf(text, d)
  <2>1. ScoreOf(text, c) \in Nat /\ ScoreOf(text, d) \in Nat
    BY <1>1, <1>2
  <2>2. ConfidenceOf(ScoreOf(text, c)) <= ConfidenceOf(ScoreOf(text, d))
    BY <1>1, <1>5, <1>6
  <2> QED
    BY <1>5, <2>1, <2>2, ConfidenceIs
<1>8. d = c
  BY <1>4, <1>7
<1> QED
  BY <1>6, <1>8

\* Each score is a number, and the blend of them is none the less.
LEMMA ScoresAre ==
  ASSUME NEW a \in AccountName, NEW b \in AccountName, a # b
  PROVE  /\ Combined(a, b) \in Int
         /\ WordOverlapScore(a, b) <= Combined(a, b)
<1>1. Len(a) \in Nat /\ Len(b) \in Nat /\ WordsOf[a] \in Seq(STRING) /\ WordsOf[b] \in Seq(STRING)
  BY LettersAssumption, ClassifierAssumption
<1>2. Longer(Len(a), Len(b)) \in Nat /\ Longer(Len(a), Len(b)) > 0
  <2>1. CASE Len(a) = 0 /\ Len(b) = 0
    <3>1. \A i \in 1 .. Len(a) : SubSeq(a, i, i) = SubSeq(b, i, i)
      BY <2>1
    <3> QED
      BY <2>1, <3>1, LettersAssumption
  <2>2. CASE Len(a) # 0 \/ Len(b) # 0
    BY <1>1, <2>2 DEF Longer
  <2> QED
    BY <2>1, <2>2
<1>3. SubstringScore(a, b) \in Int
  <2> DEFINE x == Longer(Len(a), Len(b))
             y == Least(Len(a), Len(b))
  <2>1. x \in Nat /\ x > 0 /\ y \in Nat
    BY <1>1, <1>2 DEF Least
  <2> HIDE DEF x, y
  <2>2. 6000 + (3000 * y) \div x \in Int
    BY <2>1
  <2> QED
    BY <2>2 DEF SubstringScore, x, y
<1>4. WordOverlapScore(a, b) \in Int
  <2>1. CASE WordsOf[a] = << >> \/ WordsOf[b] = << >>
    BY <2>1 DEF WordOverlapScore
  <2>2. CASE WordsOf[a] # << >> /\ WordsOf[b] # << >>
    <3> DEFINE x == Longer(Len(WordsOf[a]), Len(WordsOf[b]))
               y == Shared(a, b)
    <3>1. Len(WordsOf[a]) \in Nat /\ Len(WordsOf[a]) > 0 /\ Len(WordsOf[b]) \in Nat
      BY <1>1, <2>2
    <3>2. x \in Nat /\ x > 0
      BY <3>1 DEF Longer
    <3>3. y \in Nat
      <4> DEFINE S == {i \in DOMAIN WordsOf[a] :
                         \E j \in DOMAIN WordsOf[b] : WordsOf[b][j] = WordsOf[a][i]}
      <4>1. IsFiniteSet(1 .. Len(WordsOf[a])) /\ DOMAIN WordsOf[a] = 1 .. Len(WordsOf[a])
        <5> HIDE DEF S, x, y
        <5>1. IsFiniteSet(1 .. Len(WordsOf[a]))
          <6> DEFINE n == Len(WordsOf[a])
          <6>1. n \in Nat
            BY <3>1
          <6> HIDE DEF n
          <6>2. IsFiniteSet(1 .. n)
            BY <6>1, FS_Interval
          <6> QED
            BY <6>2 DEF n
        <5>2. DOMAIN WordsOf[a] = 1 .. Len(WordsOf[a])
          BY <1>1
        <5> QED
          BY <5>1, <5>2
      <4>2. S \subseteq 1 .. Len(WordsOf[a])
        BY <4>1
      <4>3. y = Cardinality(S)
        BY DEF Shared
      <4> HIDE DEF S
      <4> QED
        BY <4>1, <4>2, <4>3, FS_Subset, FS_CardinalityType
    <3> HIDE DEF x, y
    <3>4. (8500 * y) \div x \in Int
      BY <3>2, <3>3
    <3> QED
      BY <2>2, <3>4 DEF WordOverlapScore, x, y
  <2> QED
    BY <2>1, <2>2
<1>5. LevenshteinScore(a, b) \in Int
  <2> DEFINE x == Longer(Len(a), Len(b))
             y == LevenshteinDistance(a, b)
  <2>1. x \in Nat /\ x > 0 /\ y \in Nat
    BY <1>2, NamesApart
  <2> HIDE DEF x, y
  <2>2. 8000 - (8000 * y) \div x \in Int
    BY <2>1
  <2> QED
    BY <2>2 DEF LevenshteinScore, x, y
<1> QED
  BY <1>3, <1>4, <1>5 DEF Combined, Longer

\* Names of the same words score highest for them.
LEMMA SameWords ==
  ASSUME NEW a \in AccountName, NEW b \in AccountName,
         WordSet(b) = WordSet(a), WordSet(b) # {}, Len(WordsOf[b]) = Len(WordsOf[a])
  PROVE  WordOverlapScore(a, b) = 8500
<1> DEFINE v == WordsOf[a]
           w == WordsOf[b]
           n == Len(v)
           S == {i \in DOMAIN v : \E j \in DOMAIN w : w[j] = v[i]}
<1>1. v \in Seq(STRING) /\ w \in Seq(STRING)
  BY ClassifierAssumption
<1>2. \A i \in DOMAIN v : \E j \in DOMAIN w : w[j] = v[i]
  <2> SUFFICES ASSUME NEW i \in DOMAIN v
               PROVE  \E j \in DOMAIN w : w[j] = v[i]
    OBVIOUS
  <2>1. v[i] \in {w[j] : j \in DOMAIN w}
    BY DEF WordSet
  <2> HIDE DEF v, w
  <2> QED
    BY <2>1
<1>3. DOMAIN w # {}
  BY DEF WordSet
<1>4. Len(w) = Len(v)
  OBVIOUS
<1>5. WordOverlapScore(a, b) =
        IF v = << >> \/ w = << >> THEN 0 ELSE (8500 * Cardinality(S)) \div Longer(Len(v), Len(w))
  BY DEF WordOverlapScore, Shared
<1> HIDE DEF v, w
<1>6. S = 1 .. n /\ n \in Nat /\ n > 0 /\ v # << >> /\ w # << >>
  <2>1. DOMAIN v = 1 .. n /\ n \in Nat /\ DOMAIN w = 1 .. n
    BY <1>1, <1>4
  <2>2. S = DOMAIN v
    BY <1>2
  <2>3. n > 0
    BY <1>3, <2>1
  <2> QED
    BY <1>1, <1>4, <2>1, <2>2, <2>3
<1>7. Cardinality(S) = n
  <2> HIDE DEF S, n
  <2> QED
    BY <1>6, FS_Interval
<1>8. Longer(Len(v), Len(w)) = n
  BY <1>4 DEF Longer
<1> HIDE DEF S, n
<1>9. (8500 * n) \div n = 8500
  <2> DEFINE q == (8500 * n) \div n
  <2>1. q \in Int /\ n * q <= 8500 * n /\ 8500 * n < n * (q + 1)
    BY <1>6
  <2> HIDE DEF q
  <2>2. q <= 8500
    <3> SUFFICES ASSUME q >= 8501
                 PROVE  FALSE
      BY <2>1
    <3>1. n * q >= n * 8501
      BY <1>6, <2>1
    <3> QED
      BY <1>6, <2>1, <3>1
  <2>3. q >= 8500
    <3> SUFFICES ASSUME q + 1 <= 8500
                 PROVE  FALSE
      BY <2>1
    <3>1. n * (q + 1) <= n * 8500
      BY <1>6, <2>1
    <3> QED
      BY <1>6, <2>1, <3>1
  <2> QED
    BY <2>1, <2>2, <2>3 DEF q
<1> QED
  BY <1>5, <1>6, <1>7, <1>8, <1>9

\* Where it is in the chart, the name itself is found; and else what is closest.
LEMMA ExactFound ==
  ASSUME NEW name \in AccountName, NEW chart \in Seq(AccountName), NEW i \in DOMAIN chart,
         chart[i] = name
  PROVE  MatchIn(name, chart).entry = name
<1> DEFINE exact == {k \in DOMAIN chart : chart[k] = name}
           m == CHOOSE k \in exact : \A j \in exact : k <= j
<1>1. exact # {} /\ exact \in SUBSET Nat
  OBVIOUS
<1>2. \E k \in exact : \A j \in exact : k <= j
  <2> HIDE DEF exact
  <2> QED
    BY <1>1, LeastElement
<1>3. m \in exact
  <2> HIDE DEF exact
  <2> QED
    BY <1>2
<1>4. chart[m] = name
  <2> HIDE DEF m
  <2> QED
    BY <1>3
<1>5. MatchIn(name, chart).entry = chart[m]
  BY <1>1 DEF MatchIn
<1> QED
  BY <1>4, <1>5

LEMMA CloseFound ==
  ASSUME NEW name \in AccountName, NEW chart \in Seq(AccountName), NEW i \in DOMAIN chart,
         Combined(name, chart[i]) >= 4000
  PROVE  \/ MatchIn(name, chart).entry = name
         \/ /\ MatchIn(name, chart).entry \in AccountName
            /\ Combined(name, chart[i]) <= Combined(name, MatchIn(name, chart).entry)
            /\ Combined(name, MatchIn(name, chart).entry) \in Int
<1> DEFINE exact == {k \in DOMAIN chart : chart[k] = name}
           close == {k \in DOMAIN chart : Combined(name, chart[k]) >= 4000}
           best == {k \in close : \A j \in close : Combined(name, chart[j]) <= Combined(name, chart[k])}
           m == CHOOSE k \in best : \A j \in best : k <= j
<1>1. CASE exact # {}
  <2>1. PICK k \in DOMAIN chart : chart[k] = name
    BY <1>1
  <2> QED
    BY <2>1, ExactFound
<1>2. CASE exact = {}
  <2>1. \A k \in DOMAIN chart : chart[k] \in AccountName /\ chart[k] # name
    BY <1>2
  <2>2. \A k \in DOMAIN chart : Combined(name, chart[k]) \in Int
    BY <2>1, ScoresAre
  <2>3. IsFiniteSet(close) /\ close # {} /\ close \subseteq DOMAIN chart /\ i \in close
    <3>1. IsFiniteSet(DOMAIN chart)
      <4> DEFINE n == Len(chart)
      <4>1. n \in Nat /\ DOMAIN chart = 1 .. n
        OBVIOUS
      <4> HIDE DEF n
      <4> QED
        BY <4>1, FS_Interval
    <3>2. close \subseteq DOMAIN chart /\ i \in close
      OBVIOUS
    <3> HIDE DEF close
    <3> QED
      BY <3>1, <3>2, FS_Subset
  <2>4. best # {}
    <3> DEFINE f == [k \in close |-> Combined(name, chart[k])]
    <3> HIDE DEF close
    <3>1. f \in [close -> Int] /\ \A k \in close : f[k] = Combined(name, chart[k])
      BY <2>2, <2>3
    <3> HIDE DEF f, best, m, exact
    <3>2. PICK k \in close : \A j \in close : f[j] <= f[k]
      <4>1. IsFiniteSet(close) /\ close # {} /\ f \in [close -> Int]
        BY <2>3, <3>1
      <4> QED
        BY <4>1, Greatest
    <3>3. \A j \in close : Combined(name, chart[j]) <= Combined(name, chart[k])
      BY <3>1, <3>2
    <3> QED
      BY <3>3 DEF best
  <2>5. best \subseteq close /\ \A k \in best : Combined(name, chart[i]) <= Combined(name, chart[k])
    BY <2>3
  <2>6. \A k \in DOMAIN chart : k \in Nat
    OBVIOUS
  <2>7. best \in SUBSET Nat
    BY <2>3, <2>5, <2>6
  <2>8. MatchIn(name, chart).entry = chart[m]
    BY <1>2, <2>4 DEF MatchIn
  <2>9. m \in best
    <3> HIDE DEF best, exact
    <3>1. \E k \in best : \A j \in best : k <= j
      BY <2>4, <2>7, LeastElement
    <3> QED
      BY <3>1
  <2> HIDE DEF m, best, close
  <2>10. m \in DOMAIN chart /\ Combined(name, chart[i]) <= Combined(name, chart[m])
    BY <2>3, <2>5, <2>9
  <2> QED
    BY <2>1, <2>2, <2>8, <2>10
<1> QED
  BY <1>1, <1>2

LEMMA ClassifierSound ==
  ASSUME ClassifierInv
  PROVE  ClassifierTypeOK /\ FirstIsBest /\ NamesFound /\ DistancesAgree
<1>1. ClassifierTypeOK
  <2>1. ASSUME suggestion # NoSuggestion
        PROVE  suggestion.category \in Category
    <3>1. PICK text \in AccountText : \E c \in BestCategories(text) :
            \/ suggestion = Suggested(text, c)
            \/ \E llm \in LlmAnswer : suggestion = MergeSuggestions(Suggested(text, c), llm)
      BY <2>1 DEF ClassifierInv, SuggestionFrom
    <3>2. PICK c \in BestCategories(text) :
            \/ suggestion = Suggested(text, c)
            \/ \E llm \in LlmAnswer : suggestion = MergeSuggestions(Suggested(text, c), llm)
      BY <3>1
    <3>3. CASE suggestion = Suggested(text, c)
      <4>1. suggestion.category = c
        BY <3>3 DEF Suggested
      <4> QED
        BY <4>1 DEF BestCategories
    <3>4. ASSUME NEW llm \in LlmAnswer, suggestion = MergeSuggestions(Suggested(text, c), llm)
          PROVE  suggestion.category \in Category
      <4>1. suggestion.category = llm.category
        BY <3>4 DEF MergeSuggestions
      <4>2. llm \in [category : Category, confidence : Nat]
        BY ClassifierAssumption
      <4> QED
        BY <4>1, <4>2
    <3> QED
      BY <3>2, <3>3, <3>4
  <2>2. ASSUME NEW i \in DOMAIN ranked
        PROVE  ranked[i].confidence \in 300 .. 950
    <3>1. ranked # << >>
      OBVIOUS
    <3>2. PICK text \in AccountText : ranked \in Rankings(text)
      BY <3>1 DEF ClassifierInv
    <3>3. PICK c \in Category : ranked[i] = Suggested(text, c)
      BY <3>2, RankingIs
    <3>4. ranked[i].confidence = ConfidenceOf(ScoreOf(text, c))
      BY <3>3 DEF Suggested
    <3>5. ScoreOf(text, c) \in Nat
      BY KeywordScore
    <3>6. ConfidenceOf(ScoreOf(text, c)) \in 300 .. 950
      BY <3>5, ConfidenceIs
    <3> QED
      BY <3>4, <3>6
  <2>3. ASSUME matched # NothingMatched
        PROVE  matched.name \in AccountName
    <3>1. PICK name \in AccountName, chart \in Chart : matched = MatchIn(name, chart)
      BY <2>3 DEF ClassifierInv
    <3>2. matched.name = name
      BY <3>1 DEF MatchIn
    <3> QED
      BY <3>2
  <2> QED
    BY <2>1, <2>2, <2>3 DEF ClassifierTypeOK
<1>2. FirstIsBest
  <2> SUFFICES ASSUME suggestion # NoSuggestion, ranked # << >>,
                      suggestion.text = ranked[1].text, Safe({"llm"}),
                      Cardinality(BestCategories(suggestion.text)) = 1,
                      suggestion.confidence < 950
               PROVE  ranked[1] = suggestion
    BY DEF FirstIsBest
  <2>1. ~Risk("llm")
    BY DEF Safe, Risk
  <2>2. PICK text \in AccountText : \E c \in BestCategories(text) : suggestion = Suggested(text, c)
    BY <2>1 DEF ClassifierInv, SuggestionFrom
  <2>3. PICK c \in BestCategories(text) : suggestion = Suggested(text, c)
    BY <2>2
  <2>4. suggestion.text = text /\ suggestion.confidence = ConfidenceOf(ScoreOf(text, c))
    BY <2>3 DEF Suggested
  <2>5. PICK other \in AccountText : ranked \in Rankings(other)
    BY DEF ClassifierInv
  <2>6. other = text
    <3>1. 1 \in DOMAIN ranked
      BY <2>5, RankingIs
    <3>2. PICK d \in Category : ranked[1] = Suggested(other, d)
      BY <2>5, <3>1, RankingIs
    <3>3. ranked[1].text = other
      BY <3>2 DEF Suggested
    <3> QED
      BY <2>4, <3>3
  <2>7. ranked[1] = Suggested(text, c)
    <3>1. Cardinality(BestCategories(text)) = 1 /\ ConfidenceOf(ScoreOf(text, c)) < 950
          /\ ranked \in Rankings(text)
      BY <2>4, <2>5, <2>6
    <3> QED
      BY <3>1, LeaderFirst
  <2> QED
    BY <2>3, <2>7
<1>3. ASSUME matched # NothingMatched
      PROVE  \E name \in AccountName : \E chart \in Seq(AccountName) : matched = MatchIn(name, chart)
  <2>1. PICK name \in AccountName, chart \in Chart : matched = MatchIn(name, chart)
    BY <1>3 DEF ClassifierInv
  <2>2. chart \in Seq(AccountName)
    BY ClassifierAssumption
  <2> QED
    BY <2>1, <2>2
<1>4. NamesFound
  <2>0. CASE matched = NothingMatched
    BY <2>0 DEF NamesFound
  <2> SUFFICES ASSUME matched # NothingMatched
               PROVE  NamesFound
    BY <2>0
  <2>1. PICK name \in AccountName, chart \in Seq(AccountName) : matched = MatchIn(name, chart)
    BY <1>3
  <2>2. ASSUME NEW i \in DOMAIN chart
        PROVE  /\ chart[i] = name => matched.entry = chart[i]
               /\ (/\ WordSet(chart[i]) = WordSet(name) /\ WordSet(chart[i]) # {}
                   /\ Len(WordsOf[chart[i]]) = Len(WordsOf[name])) =>
                    /\ matched.entry # NoEntry
                    /\ matched.entry = name \/ Combined(name, matched.entry) >= 8500
    <3>1. chart[i] \in AccountName
      OBVIOUS
    <3>3. name # NoEntry
      BY ClassifierAssumption
    <3>4. CASE chart[i] = name
      <4>1. matched.entry = name
        BY <2>1, <3>4, ExactFound
      <4> QED
        BY <3>3, <3>4, <4>1
    <3>5. ASSUME WordSet(chart[i]) = WordSet(name), WordSet(chart[i]) # {},
                 Len(WordsOf[chart[i]]) = Len(WordsOf[name]), chart[i] # name
          PROVE  /\ matched.entry # NoEntry
                 /\ matched.entry = name \/ Combined(name, matched.entry) >= 8500
      <4>1. WordOverlapScore(name, chart[i]) = 8500
        BY <3>1, <3>5, SameWords
      <4>2. Combined(name, chart[i]) \in Int /\ 8500 <= Combined(name, chart[i])
        BY <3>1, <3>5, <4>1, ScoresAre
      <4>3. Combined(name, chart[i]) >= 4000
        BY <4>2
      <4>4. \/ matched.entry = name
            \/ /\ matched.entry \in AccountName
               /\ Combined(name, chart[i]) <= Combined(name, matched.entry)
               /\ Combined(name, matched.entry) \in Int
        BY <2>1, <4>3, CloseFound
      <4>5. \A a \in AccountName : a # NoEntry
        BY ClassifierAssumption
      <4> QED
        BY <3>3, <4>2, <4>4, <4>5
    <3> QED
      BY <3>4, <3>5
  <2>3. matched.name = name /\ matched.chart = chart
    BY <2>1 DEF MatchIn
  <2> QED
    BY <2>2, <2>3 DEF NamesFound
<1>5. DistancesAgree
  <2> SUFFICES ASSUME matched # NothingMatched,
                      NEW i \in DOMAIN matched.chart, NEW j \in DOMAIN matched.chart
               PROVE  LET n == matched.name
                          e == matched.chart[i]
                          f == matched.chart[j]
                          dist(a, b) == LevenshteinDistance(a, b)
                      IN /\ dist(n, e) = dist(e, n) /\ (dist(n, e) = 0 <=> n = e)
                         /\ dist(n, e) <= dist(n, f) + dist(f, e)
                         /\ dist(n, e) <= Longer(Len(n), Len(e))
    BY DEF DistancesAgree
  <2>1. PICK name \in AccountName, chart \in Seq(AccountName) : matched = MatchIn(name, chart)
    BY <1>3
  <2>2. matched.name = name /\ matched.chart = chart
    BY <2>1 DEF MatchIn
  <2>3. matched.name \in AccountName /\ matched.chart[i] \in AccountName
        /\ matched.chart[j] \in AccountName
    BY <2>2
  <2> QED
    BY <2>3, NamesApart
<1> QED
  BY <1>1, <1>2, <1>4, <1>5

-----------------------------------------------------------------------------
(* Similarities and their order.                                            *)

Fraction == [sign : Int, over : Nat, under : Nat \ {0}]

\* Of fractions, one is higher, or the other is, or neither.
LEMMA HigherIs ==
  ASSUME NEW r \in Fraction, NEW s \in Fraction, NEW t \in Fraction
  PROVE  /\ ~(Higher(r, s) /\ Higher(s, r)) /\ ~Higher(r, r)
         /\ ~Higher(s, r) /\ ~Higher(t, s) => ~Higher(t, r)
<1> DEFINE a == r.over
           x == r.under
           b == s.over
           y == s.under
           c == t.over
           z == t.under
<1>1. /\ a \in Nat /\ b \in Nat /\ c \in Nat
      /\ x \in Nat \ {0} /\ y \in Nat \ {0} /\ z \in Nat \ {0}
  BY DEF Fraction
<1>2. /\ Higher(r, s) <=> a * y > b * x
      /\ Higher(s, r) <=> b * x > a * y
      /\ Higher(r, r) <=> a * x > a * x
      /\ Higher(t, s) <=> c * y > b * z
      /\ Higher(t, r) <=> c * x > a * z
  BY DEF Higher
<1> HIDE DEF a, b, c, x, y, z
<1>3. /\ a * y \in Int /\ b * x \in Int /\ c * y \in Int /\ b * z \in Int /\ c * x \in Int /\ a * z \in Int
      /\ a * x \in Int
  BY <1>1
<1>4. ASSUME b * x <= a * y, c * y <= b * z
      PROVE  c * x <= a * z
  <2>1. (b * x) * z <= (a * y) * z
    BY <1>1, <1>3, <1>4, Scaled
  <2>2. (c * y) * x <= (b * z) * x
    BY <1>1, <1>3, <1>4, Scaled
  <2>3. (b * x) * z = (b * z) * x /\ (c * y) * x = (c * x) * y /\ (a * y) * z = (a * z) * y
    BY <1>1
  <2>4. (c * x) * y <= (a * z) * y
    <3>1. (c * x) * y \in Int /\ (a * z) * y \in Int /\ (b * z) * x \in Int
      BY <1>1
    <3> QED
      BY <2>1, <2>2, <2>3, <3>1
  <2> QED
    BY <1>1, <1>3, <2>4, Scaled
<1> QED
  BY <1>2, <1>3, <1>4

LEMMA DotIs ==
  ASSUME NEW a \in Seq(Int), NEW b \in Seq(Int)
  PROVE  /\ Dot(a, a) \in Nat
         /\ Len(a) = Len(b) => Dot(a, b) \in Int
<1>1. /\ Len(a) \in Nat /\ DOMAIN a = 1 .. Len(a) /\ \A i \in DOMAIN a : a[i] \in Int
      /\ DOMAIN b = 1 .. Len(b) /\ \A i \in DOMAIN b : b[i] \in Int
  OBVIOUS
<1>2. IsFiniteSet(DOMAIN a)
  <2>1. IsFiniteSet(1 .. Len(a))
    BY <1>1, FS_Interval
  <2> QED
    BY <1>1, <2>1
<1>3. Dot(a, a) \in Nat
  <2> DEFINE f == [i \in DOMAIN a |-> a[i] * a[i]]
  <2>1. ASSUME NEW x \in Int
        PROVE  x * x \in Nat
    OBVIOUS
  <2>2. f \in [DOMAIN a -> Nat]
    BY <1>1, <2>1
  <2> HIDE DEF f
  <2>3. SumFunction(f) \in Nat
    BY <1>2, <2>2, SumNat
  <2> QED
    BY <2>3 DEF Dot, f
<1>4. ASSUME Len(a) = Len(b)
      PROVE  Dot(a, b) \in Int
  <2> DEFINE f == [i \in DOMAIN a |-> a[i] * b[i]]
  <2>1. f \in [DOMAIN a -> Int]
    BY <1>1, <1>4
  <2> HIDE DEF f
  <2>2. SumFunction(f) \in Int
    BY <1>2, <2>1, SumSplit
  <2> QED
    BY <2>2 DEF Dot, f
<1> QED
  BY <1>3, <1>4

LEMMA SimilarityIs ==
  ASSUME NEW a \in Seq(Int), NEW b \in Seq(Int)
  PROVE  /\ Similarity(a, b) \in Fraction
         /\ Len(a) # Len(b) \/ Dot(a, a) = 0 \/ Dot(b, b) = 0 => Similarity(a, b).over = 0
         /\ Dot(a, a) # 0 => /\ Similarity(a, a).sign = 1
                             /\ Similarity(a, a).over = Similarity(a, a).under
<1>1. Dot(a, a) \in Nat /\ Dot(b, b) \in Nat
  BY DotIs
<1>4. ASSUME Dot(a, a) # 0
      PROVE  Similarity(a, a).sign = 1 /\ Similarity(a, a).over = Similarity(a, a).under
  BY <1>1, <1>4 DEF Similarity
<1>2. CASE Len(a) # Len(b) \/ Dot(a, a) = 0 \/ Dot(b, b) = 0
  <2>1. Similarity(a, b) = [sign |-> 1, over |-> 0, under |-> 1]
    BY <1>2 DEF Similarity
  <2> QED
    BY <1>4, <2>1 DEF Fraction
<1>3. CASE ~(Len(a) # Len(b) \/ Dot(a, a) = 0 \/ Dot(b, b) = 0)
  <2> DEFINE sign == IF Dot(a, b) < 0 THEN -1 ELSE 1
             over == Dot(a, b) * Dot(a, b)
             under == Dot(a, a) * Dot(b, b)
  <2>1. Similarity(a, b) = [sign |-> sign, over |-> over, under |-> under]
    BY <1>3 DEF Similarity
  <2>2. Dot(a, b) \in Int
    BY <1>3, DotIs
  <2>3. sign \in Int /\ over \in Nat
    <3>1. \A x \in Int : x * x \in Nat
      OBVIOUS
    <3> QED
      BY <2>2, <3>1
  <2>4. under \in Nat \ {0}
    <3>1. \A x, y \in Nat \ {0} : x * y \in Nat \ {0}
      OBVIOUS
    <3> QED
      BY <1>1, <1>3, <3>1
  <2> HIDE DEF sign, over, under
  <2> QED
    BY <1>3, <1>4, <2>1, <2>3, <2>4 DEF Fraction
<1> QED
  BY <1>2, <1>3, <1>4

-----------------------------------------------------------------------------
(* Sorting by rank.                                                         *)

BestFirst(query, es, r, pos) ==
  /\ pos \in [1 .. Len(es) -> 1 .. Len(es)]
  /\ \A k \in 1 .. Len(es) : r[k] = es[pos[k]]
  /\ \A p \in 1 .. Len(es) : \E k \in 1 .. Len(es) : pos[k] = p
  /\ \A k, l \in 1 .. Len(es) :
       k < l => /\ pos[k] # pos[l]
                /\ ~Higher(ScoreAgainst(query, r[l]), ScoreAgainst(query, r[k]))

LEMMA SortedIs ==
  ASSUME NEW query \in Seq(Int), NEW X, \A e \in X : e.vector \in Seq(Int), NEW es \in Seq(X)
  PROVE  /\ Sorted(query, es) \in Seq(X)
         /\ Len(Sorted(query, es)) = Len(es)
         /\ \E pos : BestFirst(query, es, Sorted(query, es), pos)
<1> DEFINE n == Len(es)
           score(i) == ScoreAgainst(query, es[i])
           before == [i \in 1 .. n |-> {j \in 1 .. n : Earlier(query, es, j, i)}]
           pos == [k \in 1 .. n |-> CHOOSE i \in 1 .. n : Cardinality(before[i]) = k - 1]
           r == Sorted(query, es)
<1>1. n \in Nat /\ DOMAIN es = 1 .. n /\ \A i \in 1 .. n : es[i] \in X
  OBVIOUS
<1>2. \A i \in 1 .. n : score(i) \in Fraction
  BY <1>1, SimilarityIs DEF ScoreAgainst
<1>3. \A i, j \in 1 .. n : j \in before[i] <=> Higher(score(j), score(i)) \/ (~Higher(score(i), score(j)) /\ j < i)
  BY DEF Earlier
<1>4. r = [k \in 1 .. n |-> es[pos[k]]]
  <2> DEFINE choice(k) == CHOOSE i \in DOMAIN es :
                            Cardinality({j \in DOMAIN es : Earlier(query, es, j, i)}) = k - 1
  <2>1. ASSUME NEW k \in 1 .. n
        PROVE  choice(k) = pos[k]
    <3>1. \A i \in 1 .. n : {j \in DOMAIN es : Earlier(query, es, j, i)} = before[i]
      BY <1>1
    <3>2. pos[k] = CHOOSE i \in 1 .. n : Cardinality(before[i]) = k - 1
      OBVIOUS
    <3> HIDE DEF before, n
    <3> QED
      BY <1>1, <3>1, <3>2
  <2>2. r = [k \in 1 .. n |-> es[choice(k)]]
    BY <1>1 DEF Sorted
  <2> HIDE DEF choice, pos, n, r
  <2> QED
    BY <2>1, <2>2
<1>5. before \in [1 .. n -> SUBSET (1 .. n)]
  OBVIOUS
<1> HIDE DEF before, r, n
<1>6. \A i \in 1 .. n : i \notin before[i]
  BY <1>1, <1>2, <1>3, HigherIs
<1>7. \A i, j \in 1 .. n : i # j => i \in before[j] \/ j \in before[i]
  BY <1>1, <1>2, <1>3
<1>8. ASSUME NEW i \in 1 .. n, NEW j \in 1 .. n, j \in before[i]
      PROVE  before[j] \subseteq before[i]
  <2> SUFFICES ASSUME NEW m \in 1 .. n, m \in before[j]
               PROVE  m \in before[i]
    BY <1>5
  <2> DEFINE a == score(m)
             b == score(j)
             c == score(i)
  <2>1. a \in Fraction /\ b \in Fraction /\ c \in Fraction
    BY <1>2
  <2>2. /\ Higher(a, b) \/ (~Higher(b, a) /\ m < j)
        /\ Higher(b, c) \/ (~Higher(c, b) /\ j < i)
    BY <1>3, <1>8
  <2>3. m \in before[i] <=> Higher(a, c) \/ (~Higher(c, a) /\ m < i)
    BY <1>3
  <2> HIDE DEF a, b, c
  <2>4. ~Higher(b, a) /\ ~Higher(c, b)
    BY <2>1, <2>2, HigherIs
  <2>5. ~Higher(c, a)
    BY <2>1, <2>4, HigherIs
  <2>6. ASSUME ~Higher(a, c)
        PROVE  m < i
    <3>1. ~Higher(a, b)
      BY <2>1, <2>4, <2>6, HigherIs
    <3>2. ~Higher(b, c)
      BY <2>1, <2>4, <2>6, HigherIs
    <3> QED
      BY <2>2, <3>1, <3>2
  <2> QED
    BY <2>3, <2>5, <2>6
<1>9. /\ \A i \in 1 .. n : Cardinality(before[i]) \in Nat /\ Cardinality(before[i]) + 1 \in 1 .. n
      /\ \A i, j \in 1 .. n : j \in before[i] => Cardinality(before[j]) < Cardinality(before[i])
      /\ \A k \in 1 .. n : \E i \in 1 .. n : Cardinality(before[i]) = k - 1
  <2> HIDE DEF score
  <2> QED
    BY <1>1, <1>5, <1>6, <1>7, <1>8, RankIs
<1>10. \A k \in 1 .. n : pos[k] \in 1 .. n /\ Cardinality(before[pos[k]]) = k - 1
  BY <1>9
<1>11. pos \in [1 .. n -> 1 .. n]
  BY <1>10
<1> HIDE DEF pos
<1>12. r \in Seq(X) /\ Len(r) = n /\ \A k \in 1 .. n : r[k] = es[pos[k]]
  BY <1>1, <1>4, <1>10
<1>13. ASSUME NEW p \in 1 .. n
       PROVE  \E k \in 1 .. n : pos[k] = p
  <2> DEFINE k == Cardinality(before[p]) + 1
  <2>1. k \in 1 .. n /\ k - 1 = Cardinality(before[p])
    BY <1>9
  <2> HIDE DEF k
  <2>2. pos[k] \in 1 .. n /\ Cardinality(before[pos[k]]) = Cardinality(before[p])
    BY <1>10, <2>1
  <2>3. pos[k] = p
    <3>1. Cardinality(before[p]) \in Nat
      BY <1>9
    <3>2. ASSUME pos[k] \in before[p]
          PROVE  FALSE
      <4>1. Cardinality(before[pos[k]]) < Cardinality(before[p])
        BY <1>9, <2>2, <3>2
      <4> QED
        BY <2>2, <3>1, <4>1
    <3>3. ASSUME p \in before[pos[k]]
          PROVE  FALSE
      <4>1. Cardinality(before[p]) < Cardinality(before[pos[k]])
        BY <1>9, <2>2, <3>3
      <4> QED
        BY <2>2, <3>1, <4>1
    <3> QED
      BY <1>7, <2>2, <3>2, <3>3
  <2> QED
    BY <2>1, <2>3
<1>14. ASSUME NEW k \in 1 .. n, NEW l \in 1 .. n, k < l
       PROVE  pos[k] # pos[l] /\ ~Higher(ScoreAgainst(query, r[l]), ScoreAgainst(query, r[k]))
  <2>1. Cardinality(before[pos[k]]) = k - 1 /\ Cardinality(before[pos[l]]) = l - 1
    BY <1>10
  <2>2. pos[k] # pos[l]
    BY <1>14, <2>1
  <2>3. ~(pos[l] \in before[pos[k]])
    <3>1. pos[k] \in 1 .. n /\ pos[l] \in 1 .. n
      BY <1>10
    <3>2. ~(l - 1 < k - 1)
      BY <1>14
    <3> QED
      BY <1>9, <2>1, <3>1, <3>2
  <2>4. ~Higher(score(pos[l]), score(pos[k]))
    <3>1. pos[k] \in 1 .. n /\ pos[l] \in 1 .. n
      BY <1>10
    <3> QED
      BY <1>3, <2>3, <3>1
  <2> QED
    BY <1>12, <2>2, <2>4
<1>15. BestFirst(query, es, r, pos)
  BY <1>11, <1>12, <1>13, <1>14 DEF BestFirst, n
<1> QED
  BY <1>12, <1>15 DEF n, r

-----------------------------------------------------------------------------
(* Searches.                                                                *)

OneEach(es) == \A i, j \in DOMAIN es : es[i].id = es[j].id => i = j

LEMMA EmbeddedIs ==
  ASSUME NEW e \in Embedded
  PROVE  /\ e.id \in EmbeddingId /\ e.vector \in Vector /\ e.vector \in Seq(Int)
         /\ e = [id |-> e.id, document_id |-> e.document_id, vector |-> e.vector]
<1>1. /\ e.id \in EmbeddingId /\ e.vector \in Vector
      /\ e = [id |-> e.id, document_id |-> e.document_id, vector |-> e.vector]
  BY DEF Embedded
<1> QED
  BY <1>1, EmbeddingAssumption

\* What is above the threshold is similar to it, to a positive degree.
LEMMA AtLeastIs ==
  ASSUME NEW a \in Seq(Int), NEW b \in Seq(Int)
  PROVE  /\ Len(a) # Len(b) \/ Dot(a, a) = 0 \/ Dot(b, b) = 0 => ~AtLeast(Similarity(a, b), Threshold)
         /\ Dot(a, a) # 0 => AtLeast(Similarity(a, a), Threshold)
         /\ AtLeast(Similarity(a, b), Threshold) => Similarity(a, b).sign = 1
<1> DEFINE s == Similarity(a, b)
           t == Similarity(a, a)
<1>1. /\ s.over \in Nat /\ s.under \in Nat \ {0} /\ t.over \in Nat /\ t.under \in Nat \ {0}
  <2>1. s \in Fraction /\ t \in Fraction
    BY SimilarityIs
  <2> QED
    BY <2>1 DEF Fraction
<1>2. /\ Len(a) # Len(b) \/ Dot(a, a) = 0 \/ Dot(b, b) = 0 => s.over = 0
      /\ Dot(a, a) # 0 => t.sign = 1 /\ t.over = t.under
  BY SimilarityIs
<1>3. Threshold \in 1 .. 100
  BY EmbeddingAssumption
<1> HIDE DEF s, t
<1> DEFINE hh == Threshold * Threshold
           u == s.under
           v == t.under
<1>4. /\ AtLeast(s, Threshold) <=> s.sign = 1 /\ s.over * 10000 >= hh * u
      /\ AtLeast(t, Threshold) <=> t.sign = 1 /\ t.over * 10000 >= hh * v
  BY DEF AtLeast
<1>8. hh \in Nat \ {0} /\ hh <= 10000
  <2> SUFFICES \A x \in 1 .. 100 : x * x \in Nat \ {0} /\ x * x <= 10000
    BY <1>3
  <2> SUFFICES ASSUME NEW x \in 1 .. 100
               PROVE  x * x \in Nat \ {0} /\ x * x <= 10000
    OBVIOUS
  <2>1. 1 * x <= x * x /\ x * x <= 100 * x
    BY Scaled
  <2> QED
    BY <2>1
<1>9. u \in Nat \ {0} /\ v \in Nat \ {0}
  BY <1>1
<1> HIDE DEF hh, u, v
<1>5. ASSUME s.over = 0
      PROVE  ~AtLeast(s, Threshold)
  <2>1. hh * u > 0 /\ hh * u \in Int
    BY <1>8, <1>9
  <2> QED
    BY <1>4, <1>5, <2>1
<1>6. ASSUME t.sign = 1, t.over = v
      PROVE  AtLeast(t, Threshold)
  <2>1. hh * v <= 10000 * v
    BY <1>8, <1>9, Scaled
  <2>2. hh * v \in Int
    BY <1>8, <1>9
  <2> QED
    BY <1>4, <1>6, <1>9, <2>1, <2>2
<1>7. AtLeast(s, Threshold) => s.sign = 1
  BY DEF AtLeast
<1> QED
  BY <1>2, <1>5, <1>6, <1>7 DEF s, t, v

\* What a search answers.
IsAnswer(query, es, rs) ==
  /\ rs \in Seq(Embedded)
  /\ \A k \in DOMAIN rs : /\ AtLeast(ScoreAgainst(query, rs[k]), Threshold)
                          /\ \E i \in DOMAIN es : rs[k] = es[i]
  /\ \A k, l \in DOMAIN rs :
       k < l => /\ rs[k].id # rs[l].id
                /\ ~Higher(ScoreAgainst(query, rs[l]), ScoreAgainst(query, rs[k]))
  /\ \A i \in DOMAIN es :
       \/ ~AtLeast(ScoreAgainst(query, es[i]), Threshold)
       \/ \E k \in DOMAIN rs : rs[k] = es[i]
       \/ Len(rs) = Limit /\ ~Higher(ScoreAgainst(query, es[i]), ScoreAgainst(query, rs[Limit]))

LEMMA SearchIs ==
  ASSUME NEW query \in Seq(Int), cache \in Seq(Embedded), OneEach(cache)
  PROVE  IsAnswer(query, cache, Search(query, Limit))
<1> DEFINE score(e) == ScoreAgainst(query, e)
           n == Len(cache)
<1>1. n \in Nat /\ DOMAIN cache = 1 .. n /\ \A i \in 1 .. n : cache[i] \in Embedded
  OBVIOUS
<1>2. Limit \in Nat \ {0}
  BY EmbeddingAssumption
<1>3. ASSUME query = << >>
      PROVE  IsAnswer(query, cache, Search(query, Limit))
  <2>1. Search(query, Limit) = << >>
    BY <1>3 DEF Search
  <2>2. ASSUME NEW i \in 1 .. n
        PROVE  ~AtLeast(score(cache[i]), Threshold)
    <3>1. cache[i].vector \in Seq(Int)
      BY <1>1, EmbeddedIs
    <3>2. Dot(query, query) = 0
      <4> DEFINE f == [j \in DOMAIN query |-> query[j] * query[j]]
      <4>1. f \in [{} -> Int]
        BY <1>3
      <4> HIDE DEF f
      <4>2. SumFunction(f) = 0
        BY <4>1, SumNone
      <4> QED
        BY <4>2 DEF f, Dot
    <3> QED
      BY <3>1, <3>2, AtLeastIs DEF ScoreAgainst
  <2> HIDE DEF score
  <2>3. DOMAIN Search(query, Limit) = {} /\ Search(query, Limit) \in Seq(Embedded)
    BY <2>1
  <2> QED
    BY <1>1, <2>2, <2>3 DEF IsAnswer, score
<1>4. ASSUME query # << >>
      PROVE  IsAnswer(query, cache, Search(query, Limit))
  <2> DEFINE I == {i \in DOMAIN cache : AtLeast(ScoreAgainst(query, cache[i]), Threshold)}
             es == Those(cache, I)
             m == Len(es)
             r == Sorted(query, es)
             rs == SubSeq(r, 1, IF m < Limit THEN m ELSE Limit)
             z == IF m < Limit THEN m ELSE Limit
  <2>1. es \in Seq(Embedded) /\ m \in Nat /\ \E g : IsThose(cache, I, es, g)
    <3>1. I \in SUBSET DOMAIN cache
      OBVIOUS
    <3> HIDE DEF I
    <3> QED
      BY <3>1, ThoseAre
  <2>2. PICK g : IsThose(cache, I, es, g)
    BY <2>1
  <2>3. \A e \in Embedded : e.vector \in Seq(Int)
    BY EmbeddedIs
  <2>4. \A i \in I : i \in 1 .. n /\ AtLeast(score(cache[i]), Threshold)
    BY <1>1
  <2>5. \A i \in 1 .. n : i \notin I => ~AtLeast(score(cache[i]), Threshold)
    BY <1>1
  <2> HIDE DEF I, es
  <2>6. r \in Seq(Embedded) /\ Len(r) = m /\ \E pos : BestFirst(query, es, r, pos)
    BY <2>1, <2>3, SortedIs
  <2>7. PICK pos : BestFirst(query, es, r, pos)
    BY <2>6
  <2>8. Search(query, Limit) = rs
    BY <1>4, <2>6 DEF Search, AboveThreshold, Truncated, I, es
  <2>9. /\ pos \in [1 .. m -> 1 .. m] /\ g \in [1 .. m -> I]
        /\ \A k \in 1 .. m : r[k] = es[pos[k]] /\ es[k] = cache[g[k]]
        /\ \A p \in 1 .. m : \E k \in 1 .. m : pos[k] = p
        /\ \A i \in I : \E k \in 1 .. m : g[k] = i
        /\ \A k, l \in 1 .. m : k < l => pos[k] # pos[l] /\ ~Higher(score(r[l]), score(r[k]))
        /\ \A k, l \in 1 .. m : k < l => g[k] < g[l]
    BY <2>2, <2>7 DEF BestFirst, IsThose
  <2> HIDE DEF m, r
  <2>10. z \in 0 .. m /\ z <= Limit /\ (z < m => z = Limit)
    BY <1>2, <2>1
  <2>11. rs \in Seq(Embedded) /\ Len(rs) = z /\ \A k \in 1 .. z : rs[k] = r[k]
    <3>1. z \in Int /\ 0 <= z /\ z <= Len(r)
      BY <2>6, <2>10
    <3> HIDE DEF z
    <3>2. \A k \in 1 .. z : r[k] \in Embedded
      BY <2>6, <3>1
    <3>3. SubSeq(r, 1, z) \in Seq(Embedded) /\ Len(SubSeq(r, 1, z)) = z
          /\ \A k \in 1 .. z : SubSeq(r, 1, z)[k] = r[k]
      BY <2>6, <3>1, <3>2
    <3> QED
      BY <3>3 DEF z
  <2> HIDE DEF z, rs
  <2> DEFINE h == [k \in 1 .. m |-> g[pos[k]]]
  <2>12. \A k \in 1 .. m : /\ h[k] \in I /\ h[k] \in 1 .. n /\ r[k] = cache[h[k]]
                           /\ AtLeast(score(r[k]), Threshold)
    <3> SUFFICES ASSUME NEW k \in 1 .. m
                 PROVE  /\ h[k] \in I /\ h[k] \in 1 .. n /\ r[k] = cache[h[k]]
                        /\ AtLeast(score(r[k]), Threshold)
      OBVIOUS
    <3>1. pos[k] \in 1 .. m /\ h[k] = g[pos[k]]
      BY <2>9
    <3>2. h[k] \in I /\ r[k] = cache[h[k]]
      BY <2>9, <3>1
    <3> QED
      BY <2>4, <3>2
  <2>13. \A i \in I : \E k \in 1 .. m : h[k] = i
    <3> SUFFICES ASSUME NEW i \in I
                 PROVE  \E k \in 1 .. m : h[k] = i
      OBVIOUS
    <3>1. PICK p \in 1 .. m : g[p] = i
      BY <2>9
    <3>2. PICK k \in 1 .. m : pos[k] = p
      BY <2>9
    <3> QED
      BY <3>1, <3>2
  <2>14. \A k, l \in 1 .. m : k < l => h[k] # h[l]
    <3> SUFFICES ASSUME NEW k \in 1 .. m, NEW l \in 1 .. m, k < l
                 PROVE  h[k] # h[l]
      OBVIOUS
    <3>1. pos[k] \in 1 .. m /\ pos[l] \in 1 .. m /\ pos[k] # pos[l]
      BY <2>9
    <3>2. g[pos[k]] < g[pos[l]] \/ g[pos[l]] < g[pos[k]]
      <4>1. \A p, q \in 1 .. m : p < q => g[p] < g[q]
        BY <2>9
      <4>2. pos[k] < pos[l] \/ pos[l] < pos[k]
        BY <3>1
      <4> QED
        BY <3>1, <4>1, <4>2
    <3>3. g[pos[k]] \in 1 .. n /\ g[pos[l]] \in 1 .. n
      BY <2>4, <2>9, <3>1
    <3> QED
      BY <3>2, <3>3
  <2> HIDE DEF h
  <2>15. DOMAIN rs = 1 .. z /\ \A k \in 1 .. z : k \in 1 .. m
    BY <2>1, <2>10, <2>11
  <2>16. \A k \in 1 .. z : AtLeast(score(rs[k]), Threshold) /\ \E i \in 1 .. n : rs[k] = cache[i]
    BY <2>11, <2>12, <2>15
  <2>17. ASSUME NEW k \in 1 .. z, NEW l \in 1 .. z, k < l
         PROVE  rs[k].id # rs[l].id /\ ~Higher(score(rs[l]), score(rs[k]))
    <3>1. k \in 1 .. m /\ l \in 1 .. m /\ rs[k] = r[k] /\ rs[l] = r[l]
      BY <2>11, <2>15
    <3>2. h[k] # h[l] /\ h[k] \in 1 .. n /\ h[l] \in 1 .. n /\ r[k] = cache[h[k]] /\ r[l] = cache[h[l]]
      BY <2>12, <2>14, <2>17, <3>1
    <3>3. cache[h[k]].id # cache[h[l]].id
      BY <1>1, <3>2 DEF OneEach
    <3>4. ~Higher(score(r[l]), score(r[k]))
      BY <2>9, <2>17, <3>1
    <3> QED
      BY <3>1, <3>2, <3>3, <3>4
  <2>18. ASSUME NEW i \in 1 .. n, AtLeast(score(cache[i]), Threshold), \A k \in 1 .. z : rs[k] # cache[i]
         PROVE  z = Limit /\ ~Higher(score(cache[i]), score(rs[Limit]))
    <3>1. i \in I
      BY <2>5, <2>18
    <3>2. PICK k \in 1 .. m : h[k] = i
      BY <2>13, <3>1
    <3>3. r[k] = cache[i]
      BY <2>12, <3>2
    <3>4. k \notin 1 .. z
      BY <2>11, <2>18, <3>3
    <3>5. z < k /\ z = Limit
      BY <2>1, <2>10, <3>4
    <3>6. Limit \in 1 .. z /\ Limit \in 1 .. m /\ Limit < k
      BY <1>2, <2>10, <3>5
    <3>7. ~Higher(score(r[k]), score(r[Limit])) /\ rs[Limit] = r[Limit]
      BY <2>9, <2>11, <3>6
    <3> QED
      BY <3>3, <3>5, <3>7
  <2>19. /\ \A k \in DOMAIN rs : /\ AtLeast(ScoreAgainst(query, rs[k]), Threshold)
                                  /\ \E i \in DOMAIN cache : rs[k] = cache[i]
         /\ \A k, l \in DOMAIN rs :
              k < l => /\ rs[k].id # rs[l].id
                       /\ ~Higher(ScoreAgainst(query, rs[l]), ScoreAgainst(query, rs[k]))
    BY <1>1, <2>15, <2>16, <2>17
  <2>20. \A i \in DOMAIN cache :
           \/ ~AtLeast(ScoreAgainst(query, cache[i]), Threshold)
           \/ \E k \in DOMAIN rs : rs[k] = cache[i]
           \/ /\ Len(rs) = Limit
              /\ ~Higher(ScoreAgainst(query, cache[i]), ScoreAgainst(query, rs[Limit]))
    BY <1>1, <2>11, <2>15, <2>18
  <2> QED
    BY <2>8, <2>11, <2>19, <2>20 DEF IsAnswer
<1> QED
  BY <1>3, <1>4

LEMMA AnswerTrue ==
  ASSUME NEW query \in Vector, found' = [query |-> query, results |-> Search(query, Limit), among |-> cache],
         cache \in Seq(Embedded), OneEach(cache)
  PROVE  MostSimilarFirst' /\ OwnLikeFirst'
<1> DEFINE rs == Search(query, Limit)
           score(e) == ScoreAgainst(query, e)
<1>1. found'.query = query /\ found'.results = rs /\ found'.among = cache
  OBVIOUS
<1>2. query \in Seq(Int) /\ Limit \in Nat \ {0}
  BY EmbeddingAssumption
<1>3. IsAnswer(query, cache, rs)
  BY <1>2, SearchIs
<1> HIDE DEF rs
<1>4. MostSimilarFirst'
  BY <1>1, <1>3 DEF MostSimilarFirst, IsAnswer
<1>5. ASSUME NEW i \in DOMAIN cache, cache[i].vector = query, Dot(query, query) > 0
      PROVE  rs # << >> /\ AtLeast(score(rs[1]), 100)
  <2>1. cache[i] \in Embedded
    OBVIOUS
  <2> DEFINE s == score(cache[i])
             t == score(rs[1])
  <2>2. s = Similarity(query, query) /\ Dot(query, query) # 0
    BY <1>5 DEF ScoreAgainst
  <2>3. AtLeast(s, Threshold) /\ s.sign = 1 /\ s.over = s.under
    BY <1>2, <2>2, AtLeastIs, SimilarityIs
  <2>4. s \in Fraction
    BY <1>2, <2>2, SimilarityIs
  <2>5. rs \in Seq(Embedded) /\ DOMAIN rs = 1 .. Len(rs) /\ Len(rs) \in Nat
    BY <1>3 DEF IsAnswer
  <2>6. \/ \E k \in DOMAIN rs : rs[k] = cache[i]
        \/ Len(rs) = Limit /\ ~Higher(s, score(rs[Limit]))
    BY <1>3, <2>3 DEF IsAnswer
  <2>7. PICK k \in 1 .. Len(rs) : rs[k] = cache[i] \/ ~Higher(s, score(rs[k]))
    BY <1>2, <2>5, <2>6
  <2>8. 1 \in DOMAIN rs /\ rs # << >> /\ k \in DOMAIN rs
    BY <2>5
  <2>9. \A l \in DOMAIN rs : score(rs[l]) \in Fraction
    <3> SUFFICES ASSUME NEW l \in DOMAIN rs
                 PROVE  score(rs[l]) \in Fraction
      OBVIOUS
    <3>1. rs[l] \in Embedded
      BY <2>5
    <3>2. rs[l].vector \in Seq(Int)
      BY <3>1, EmbeddedIs
    <3> QED
      BY <1>2, <3>2, SimilarityIs DEF ScoreAgainst
  <2>10. ~Higher(s, score(rs[k]))
    BY <2>4, <2>7, HigherIs
  <2>11. k = 1 \/ ~Higher(score(rs[k]), score(rs[1]))
    <3>1. k = 1 \/ 1 < k
      OBVIOUS
    <3> QED
      BY <1>3, <2>8, <3>1 DEF IsAnswer
  <2>12. ~Higher(s, t)
    <3> DEFINE w == score(rs[k])
    <3>1. w \in Fraction /\ t \in Fraction
      BY <2>8, <2>9
    <3>2. ~Higher(s, w) /\ (w = t \/ ~Higher(w, t))
      BY <2>10, <2>11
    <3> HIDE DEF s, t, w
    <3> QED
      BY <2>4, <3>1, <3>2, HigherIs
  <2>13. AtLeast(t, Threshold) /\ t \in Fraction
    BY <1>3, <2>8, <2>9 DEF IsAnswer
  <2> HIDE DEF s, t
  <2>14. s.under \in Nat \ {0} /\ t.over \in Nat /\ t.under \in Nat \ {0} /\ t.sign = 1
    BY <2>4, <2>13 DEF Fraction, AtLeast
  <2>15. s.under * t.under <= t.over * s.under
    BY <2>3, <2>12, <2>14 DEF Higher
  <2>16. t.under <= t.over
    <3> DEFINE x == t.under
               y == t.over
               z == s.under
    <3>1. x \in Int /\ y \in Int /\ z \in Nat \ {0}
      BY <2>14
    <3>2. x * z <= y * z
      BY <2>14, <2>15
    <3> HIDE DEF x, y, z
    <3>3. x <= y
      BY <3>1, <3>2, Scaled
    <3> QED
      BY <3>3 DEF x, y
  <2>17. t.over * 10000 >= 100 * 100 * t.under
    BY <2>14, <2>16
  <2> QED
    BY <2>8, <2>14, <2>17 DEF AtLeast, t
<1>6. OwnLikeFirst'
  BY <1>1, <1>5 DEF OwnLikeFirst
<1> QED
  BY <1>4, <1>6

-----------------------------------------------------------------------------
(* The cache and the table.                                                 *)

InStep ==
  \A e : (\E i \in DOMAIN cache : cache[i] = e) <=> (\E x \in DOMAIN table : table[x] = e)

Unbroken == Safe({"again", "failing", "restart"})

EmbeddingInv ==
  /\ cache \in Seq(Embedded) /\ OneEach(cache)
  /\ table \in [DOMAIN table -> Embedded] /\ \A x \in DOMAIN table : table[x].id = x
  /\ embeddingCalls \in 0 .. MaxEmbeddings
  /\ Unbroken /\ Connected => InStep
  /\ MostSimilarFirst /\ OwnLikeFirst

LEMMA EmbeddingAtFirst ==
  ASSUME EmbeddingInit
  PROVE  EmbeddingInv
<1>1. cache = << >> /\ table = << >> /\ found = NothingFound /\ embeddingCalls = 0
  BY DEF EmbeddingInit
<1>2. MaxEmbeddings \in Nat /\ Limit \in Nat \ {0}
  BY EmbeddingAssumption
<1>3. DOMAIN cache = {} /\ DOMAIN table = {} /\ cache \in Seq(Embedded) /\ table \in [{} -> Embedded]
  BY <1>1
<1>4. found.results = << >> /\ found.among = << >>
  BY <1>1 DEF NothingFound
<1>5. DOMAIN found.results = {} /\ DOMAIN found.among = {}
  BY <1>4
<1>6. MostSimilarFirst
  BY <1>5 DEF MostSimilarFirst
<1>7. OwnLikeFirst
  BY <1>5 DEF OwnLikeFirst
<1>8. InStep
  BY <1>3 DEF InStep
<1>9. OneEach(cache)
  BY <1>3 DEF OneEach
<1> QED
  BY <1>1, <1>2, <1>3, <1>6, <1>7, <1>8, <1>9 DEF EmbeddingInv

LEMMA CachedIs ==
  ASSUME cache \in Seq(Embedded), OneEach(cache), NEW e \in Embedded, Cached(e)
  PROVE  /\ cache' \in Seq(Embedded) /\ OneEach(cache')
         /\ (\A i \in DOMAIN cache : cache[i].id # e.id) =>
              \A z : (\E i \in DOMAIN cache' : cache'[i] = z)
                       <=> (z = e \/ \E i \in DOMAIN cache : cache[i] = z)
<1> DEFINE n == Len(cache)
<1>1. n \in Nat /\ DOMAIN cache = 1 .. n /\ \A i \in 1 .. n : cache[i] \in Embedded
  OBVIOUS
<1>2. CASE \E i \in DOMAIN cache : cache[i].id = e.id
  <2>1. cache' = [i \in 1 .. n |-> IF cache[i].id = e.id THEN e ELSE cache[i]]
    BY <1>1, <1>2 DEF Cached
  <2>2. cache' \in Seq(Embedded) /\ DOMAIN cache' = 1 .. n
        /\ \A i \in 1 .. n : cache'[i] = IF cache[i].id = e.id THEN e ELSE cache[i]
    <3> HIDE DEF n
    <3> QED
      BY <1>1, <2>1
  <2>3. \A i \in 1 .. n : cache'[i].id = cache[i].id
    BY <2>2
  <2>4. OneEach(cache')
    BY <1>1, <2>2, <2>3 DEF OneEach
  <2> QED
    BY <1>2, <2>2, <2>4
<1>3. CASE \A i \in DOMAIN cache : cache[i].id # e.id
  <2>1. cache' = Append(cache, e)
    BY <1>3 DEF Cached
  <2>2. cache' \in Seq(Embedded) /\ DOMAIN cache' = 1 .. n + 1 /\ cache'[n + 1] = e
        /\ \A i \in 1 .. n : cache'[i] = cache[i]
    BY <1>1, <2>1
  <2>3. \A i \in 1 .. n + 1 : i \in 1 .. n \/ i = n + 1
    BY <1>1
  <2>4. \A i \in 1 .. n : i \in 1 .. n + 1
    BY <1>1
  <2>5. n + 1 \in 1 .. n + 1
    BY <1>1
  <2> HIDE DEF n
  <2>6. OneEach(cache')
    BY <1>1, <1>3, <2>2, <2>3 DEF OneEach
  <2>7. \A z : (\E i \in DOMAIN cache' : cache'[i] = z)
                  <=> (z = e \/ \E i \in DOMAIN cache : cache[i] = z)
    BY <1>1, <2>2, <2>3, <2>4, <2>5
  <2> QED
    BY <2>2, <2>6, <2>7
<1> QED
  BY <1>2, <1>3

LEMMA LeftIs ==
  ASSUME cache \in Seq(Embedded), OneEach(cache), NEW doc
  PROVE  /\ CacheLeft(doc) \in Seq(Embedded) /\ OneEach(CacheLeft(doc))
         /\ \A z : (\E k \in DOMAIN CacheLeft(doc) : CacheLeft(doc)[k] = z)
                     <=> (z.document_id # doc /\ \E i \in DOMAIN cache : cache[i] = z)
<1> DEFINE I == {i \in DOMAIN cache : cache[i].document_id # doc}
           r == CacheLeft(doc)
<1>1. r = Those(cache, I)
  BY DEF CacheLeft
<1>2. I \in SUBSET DOMAIN cache /\ \A i \in DOMAIN cache : i \in I <=> cache[i].document_id # doc
  OBVIOUS
<1> HIDE DEF I, r
<1>3. r \in Seq(Embedded)
  BY <1>1, <1>2, ThoseAre
<1>4. PICK g : IsThose(cache, I, r, g)
  BY <1>1, <1>2, ThoseAre
<1>5. DOMAIN r = 1 .. Len(r) /\ Len(r) \in Nat
  BY <1>3
<1>6. /\ \A k \in DOMAIN r : g[k] \in DOMAIN cache /\ r[k] = cache[g[k]] /\ r[k].document_id # doc
      /\ \A j, k \in DOMAIN r : g[j] = g[k] => j = k
      /\ \A i \in I : \E k \in DOMAIN r : g[k] = i
  <2>1. /\ g \in [DOMAIN r -> I] /\ \A k \in DOMAIN r : r[k] = cache[g[k]]
        /\ \A j, k \in DOMAIN r : j < k => g[j] < g[k]
        /\ \A i \in I : \E k \in DOMAIN r : g[k] = i
    BY <1>4, <1>5 DEF IsThose
  <2>2. ASSUME NEW j \in DOMAIN r, NEW k \in DOMAIN r, g[j] = g[k], j # k
        PROVE  FALSE
    <3>1. g[j] \in DOMAIN cache /\ DOMAIN cache = 1 .. Len(cache)
      BY <1>2, <2>1
    <3>2. j < k \/ k < j
      BY <1>5, <2>2
    <3>3. g[j] < g[k] \/ g[k] < g[j]
      BY <2>1, <3>2
    <3> QED
      BY <2>2, <3>1, <3>3
  <2> QED
    BY <1>2, <2>1, <2>2
<1>7. OneEach(r)
  BY <1>6 DEF OneEach
<1>8. \A z : (\E k \in DOMAIN r : r[k] = z)
               <=> (z.document_id # doc /\ \E i \in DOMAIN cache : cache[i] = z)
  BY <1>2, <1>6
<1> QED
  BY <1>3, <1>7, <1>8 DEF r

LEMMA EmbeddingKept ==
  ASSUME EmbeddingInv, EmbeddingNext \/ UNCHANGED embeddingVars, mix' = mix
  PROVE  EmbeddingInv'
<1>1. /\ cache \in Seq(Embedded) /\ OneEach(cache)
      /\ table \in [DOMAIN table -> Embedded] /\ \A x \in DOMAIN table : table[x].id = x
      /\ embeddingCalls \in 0 .. MaxEmbeddings
      /\ MostSimilarFirst /\ OwnLikeFirst
  BY DEF EmbeddingInv
<1>2. Unbroken' = Unbroken /\ Connected' = Connected
  BY DEF Unbroken, Connected, Safe, Risk
<1>3. Unbroken => ~Risk("again") /\ ~Risk("failing") /\ ~Risk("restart")
  BY DEF Unbroken, Safe, Risk
<1>4. ASSUME EmbeddingCalled
      PROVE  embeddingCalls' \in 0 .. MaxEmbeddings
  BY <1>1, <1>4, EmbeddingAssumption DEF EmbeddingCalled
<1>5. ASSUME found' = found
      PROVE  MostSimilarFirst' /\ OwnLikeFirst'
  BY <1>1, <1>5 DEF MostSimilarFirst, OwnLikeFirst
<1>6. CASE UNCHANGED embeddingVars
  BY <1>1, <1>2, <1>5, <1>6 DEF EmbeddingInv, embeddingVars, InStep
<1>7. ASSUME NEW x \in EmbeddingId, NEW doc \in Paper, NEW v \in Vector,
             Store([id |-> x, document_id |-> doc, vector |-> v])
      PROVE  EmbeddingInv'
  <2> DEFINE e == [id |-> x, document_id |-> doc, vector |-> v]
  <2>1. e \in Embedded /\ e.id = x
    BY DEF Embedded
  <2> HIDE DEF e
  <2>2. /\ EmbeddingCalled /\ Created(e) /\ Cached(e) /\ found' = found
        /\ Risk("again") \/ \A i \in DOMAIN cache : cache[i].id # e.id
    BY <1>7 DEF Store, e
  <2>3. /\ cache' \in Seq(Embedded) /\ OneEach(cache')
        /\ (\A i \in DOMAIN cache : cache[i].id # e.id) =>
             \A z : (\E i \in DOMAIN cache' : cache'[i] = z)
                      <=> (z = e \/ \E i \in DOMAIN cache : cache[i] = z)
    BY <1>1, <2>1, <2>2, CachedIs
  <2> DEFINE put == Put(table, x, e)
  <2>4. /\ DOMAIN put = DOMAIN table \cup {x} /\ put[x] = e
        /\ \A y \in DOMAIN table : y # x => put[y] = table[y]
        /\ put \in [DOMAIN put -> Embedded] /\ \A y \in DOMAIN put : put[y].id = y
    BY <1>1, <2>1 DEF Put
  <2> HIDE DEF put
  <2>5. table' = table \/ table' = put
    BY <2>1, <2>2 DEF Created, put
  <2>6. table' \in [DOMAIN table' -> Embedded] /\ \A y \in DOMAIN table' : table'[y].id = y
    BY <1>1, <2>4, <2>5
  <2>7. ASSUME Unbroken, Connected
        PROVE  InStep'
    <3>1. InStep /\ \A i \in DOMAIN cache : cache[i].id # x
      BY <1>3, <2>1, <2>2, <2>7 DEF EmbeddingInv
    <3>2. x \notin DOMAIN table
      BY <1>1, <3>1 DEF InStep
    <3>3. table' = put
      BY <1>3, <2>1, <2>2, <2>7, <3>2 DEF Created, put
    <3>4. \A z : (\E i \in DOMAIN cache' : cache'[i] = z)
                   <=> (z = e \/ \E i \in DOMAIN cache : cache[i] = z)
      BY <2>1, <2>3, <3>1
    <3>5. \A z : (\E y \in DOMAIN put : put[y] = z)
                   <=> (z = e \/ \E y \in DOMAIN table : table[y] = z)
      BY <2>4, <3>2
    <3> QED
      BY <3>1, <3>3, <3>4, <3>5 DEF InStep
  <2> QED
    BY <1>2, <1>4, <1>5, <2>2, <2>3, <2>6, <2>7 DEF EmbeddingInv
<1>8. ASSUME NEW doc \in Paper, Delete(doc)
      PROVE  EmbeddingInv'
  <2> DEFINE rest == [x \in {y \in DOMAIN table : table[y].document_id # doc} |-> table[x]]
  <2>1. /\ DOMAIN rest = {y \in DOMAIN table : table[y].document_id # doc}
        /\ \A y \in DOMAIN rest : rest[y] = table[y]
        /\ rest \in [DOMAIN rest -> Embedded]
    BY <1>1
  <2>2. EmbeddingCalled /\ found' = found /\ cache' = CacheLeft(doc)
        /\ \/ table' = rest /\ Connected
           \/ (~Connected \/ Risk("failing")) /\ table' = table
    BY <1>8 DEF Delete
  <2> HIDE DEF rest
  <2>3. /\ cache' \in Seq(Embedded) /\ OneEach(cache')
        /\ \A z : (\E k \in DOMAIN cache' : cache'[k] = z)
                    <=> (z.document_id # doc /\ \E i \in DOMAIN cache : cache[i] = z)
    BY <1>1, <2>2, LeftIs
  <2>4. table' \in [DOMAIN table' -> Embedded] /\ \A y \in DOMAIN table' : table'[y].id = y
    BY <1>1, <2>1, <2>2
  <2>5. ASSUME Unbroken, Connected
        PROVE  InStep'
    <3>1. InStep /\ table' = rest
      BY <1>3, <2>2, <2>5 DEF EmbeddingInv
    <3>2. \A z : (\E y \in DOMAIN rest : rest[y] = z)
                   <=> (z.document_id # doc /\ \E y \in DOMAIN table : table[y] = z)
      BY <2>1
    <3> QED
      BY <2>3, <3>1, <3>2 DEF InStep
  <2> QED
    BY <1>2, <1>4, <1>5, <2>2, <2>3, <2>4, <2>5 DEF EmbeddingInv
<1>9. ASSUME NEW v \in Vector, EmbeddingCalled, Answered(v)
      PROVE  EmbeddingInv'
  <2>1. /\ found' = [query |-> v, results |-> Search(v, Limit), among |-> cache]
        /\ cache' = cache /\ table' = table
    BY <1>9 DEF Answered
  <2>2. MostSimilarFirst' /\ OwnLikeFirst'
    BY <1>1, <2>1, AnswerTrue
  <2> QED
    BY <1>1, <1>2, <1>4, <1>9, <2>1, <2>2 DEF EmbeddingInv, InStep
<1>10. ASSUME NEW doc \in Paper, SearchByDocumentId(doc)
       PROVE  EmbeddingInv'
  <2>1. PICK i \in DOMAIN cache : Answered(cache[i].vector)
    BY <1>10 DEF SearchByDocumentId
  <2>2. cache[i] \in Embedded
    BY <1>1
  <2> QED
    BY <1>9, <1>10, <2>1, <2>2, EmbeddedIs DEF SearchByDocumentId
<1>11. CASE NewStore
  <2>1. /\ EmbeddingCalled /\ Risk("restart") /\ cache' = << >> /\ table' = table /\ found' = found
    BY <1>11 DEF NewStore
  <2>2. cache' \in Seq(Embedded) /\ OneEach(cache')
    BY <2>1 DEF OneEach
  <2> QED
    BY <1>1, <1>2, <1>3, <1>4, <1>5, <2>1, <2>2 DEF EmbeddingInv
<1> QED
  BY <1>6, <1>7, <1>8, <1>9, <1>10, <1>11 DEF EmbeddingNext, SearchFor

LEMMA EmbeddingSound ==
  ASSUME EmbeddingInv
  PROVE  EmbeddingTypeOK /\ CacheInSync /\ MostSimilarFirst /\ OwnLikeFirst
<1>1. /\ cache \in Seq(Embedded) /\ OneEach(cache)
      /\ table \in [DOMAIN table -> Embedded] /\ \A x \in DOMAIN table : table[x].id = x
      /\ embeddingCalls \in 0 .. MaxEmbeddings
      /\ MostSimilarFirst /\ OwnLikeFirst
  BY DEF EmbeddingInv
<1>2. EmbeddingTypeOK
  BY <1>1 DEF EmbeddingTypeOK
<1>3. ASSUME Unbroken
      PROVE  /\ Count = Len(cache)
             /\ Connected => {cache[i] : i \in DOMAIN cache} = {table[x] : x \in DOMAIN table}
  <2>1. CASE ~Connected
    BY <2>1 DEF Count
  <2>2. CASE Connected
    <3>1. InStep
      BY <1>3, <2>2 DEF EmbeddingInv
    <3>2. {cache[i] : i \in DOMAIN cache} = {table[x] : x \in DOMAIN table}
      BY <3>1 DEF InStep
    <3>3. Cardinality(DOMAIN table) = Len(cache)
      <4> DEFINE f == [i \in DOMAIN cache |-> cache[i].id]
      <4>1. IsFiniteSet(DOMAIN cache) /\ Cardinality(DOMAIN cache) = Len(cache)
        <5>1. Len(cache) \in Nat /\ DOMAIN cache = 1 .. Len(cache)
          BY <1>1
        <5>2. ASSUME NEW n \in Nat
              PROVE  IsFiniteSet(1 .. n) /\ Cardinality(1 .. n) = n
          BY FS_Interval
        <5> QED
          BY <5>1, <5>2
      <4>2. \A i \in DOMAIN cache : cache[i].id \in DOMAIN table
        <5> SUFFICES ASSUME NEW i \in DOMAIN cache
                     PROVE  cache[i].id \in DOMAIN table
          OBVIOUS
        <5>1. PICK x \in DOMAIN table : table[x] = cache[i]
          BY <3>1 DEF InStep
        <5> QED
          BY <1>1, <5>1
      <4>3. \A x \in DOMAIN table : \E i \in DOMAIN cache : cache[i].id = x
        BY <1>1, <3>1 DEF InStep
      <4>4. f \in Surjection(DOMAIN cache, DOMAIN table)
        BY <4>2, <4>3 DEF Surjection
      <4>5. f \in Injection(DOMAIN cache, DOMAIN table)
        <5>1. f \in [DOMAIN cache -> DOMAIN table]
          BY <4>2
        <5>2. \A i, j \in DOMAIN f : f[i] = f[j] => i = j
          BY <1>1 DEF OneEach
        <5> HIDE DEF f
        <5> QED
          BY <5>1, <5>2 DEF Injection, IsInjective
      <4> HIDE DEF f
      <4>6. Cardinality(DOMAIN table) = Cardinality(DOMAIN cache)
        BY <4>1, <4>4, <4>5, FS_Surjection
      <4> QED
        BY <4>1, <4>6
    <3> QED
      BY <2>2, <3>2, <3>3 DEF Count
  <2> QED
    BY <2>1, <2>2
<1>4. CacheInSync
  BY <1>1, <1>3 DEF CacheInSync, OneEach, Unbroken
<1> QED
  BY <1>1, <1>2, <1>4

-----------------------------------------------------------------------------
(* The parts together: a step is of one of them, and the mix stays.         *)

LEMMA PartsStep ==
  ASSUME [Next]_vars
  PROVE  /\ mix' = mix
         /\ AuditNext \/ UNCHANGED auditVars
         /\ MemoryNext \/ UNCHANGED memoryVars
         /\ DocumentNext \/ UNCHANGED documentVars
         /\ ConnectionNext \/ UNCHANGED connectionVars
         /\ VaultNext \/ UNCHANGED vaultVars
         /\ ReconciliationNext \/ UNCHANGED reconVars
         /\ TaxesNext \/ UNCHANGED taxVars
         /\ StatementsNext \/ UNCHANGED statementVars
         /\ AnomalyNext \/ UNCHANGED anomalyVars
         /\ ClassifierNext \/ UNCHANGED classifierVars
         /\ EmbeddingNext \/ UNCHANGED embeddingVars
         /\ CalendarNext \/ UNCHANGED calendarVars
<1>1. CASE UNCHANGED vars
  BY <1>1 DEF vars, accountingVars, recordVars, storageVars, adviceVars
<1>2. CASE AccountingNext
  <2>1. mix' = mix
    <3>1. ReconciliationNext => mix' = mix
      BY DEF ReconciliationNext
    <3>2. TaxesNext => mix' = mix
      BY DEF TaxesNext
    <3>3. StatementsNext => mix' = mix
      BY DEF StatementsNext, PostBalances, StoreTransaction, AddBudget, ReadAccounts,
             ReadTransactions, ReadCash
    <3> QED
      BY <1>2, <3>1, <3>2, <3>3 DEF AccountingNext
  <2> QED
    BY <1>2, <2>1 DEF AccountingNext, recordVars, storageVars, adviceVars
<1>3. CASE RecordNext
  <2>1. mix' = mix
    <3>1. AuditNext => mix' = mix
      BY DEF AuditNext
    <3>2. MemoryNext => mix' = mix
      BY DEF MemoryNext
    <3>3. DocumentNext => mix' = mix
      BY DEF DocumentNext
    <3> QED
      BY <1>3, <3>1, <3>2, <3>3 DEF RecordNext
  <2> QED
    BY <1>3, <2>1 DEF RecordNext, accountingVars, storageVars, adviceVars
<1>4. CASE StorageNext
  <2>1. mix' = mix
    BY <1>4 DEF StorageNext, ConnectionNext, VaultNext
  <2> QED
    BY <1>4, <2>1 DEF StorageNext, accountingVars, recordVars, adviceVars
<1>5. CASE AdviceNext
  <2>1. mix' = mix
    <3>1. AnomalyNext => mix' = mix
      BY DEF AnomalyNext
    <3>2. ClassifierNext => mix' = mix
      BY DEF ClassifierNext
    <3>3. EmbeddingNext => mix' = mix
      BY DEF EmbeddingNext
    <3>4. CalendarNext => mix' = mix
      BY DEF CalendarNext
    <3> QED
      BY <1>5, <3>1, <3>2, <3>3, <3>4 DEF AdviceNext
  <2> QED
    BY <1>5, <2>1 DEF AdviceNext, accountingVars, recordVars, storageVars
<1> QED
  BY <1>1, <1>2, <1>3, <1>4, <1>5 DEF Next

(* What was logged, remembered and stored is kept, linked and found, up to  *)
(* the limits: in any order of the calls, and with any number of auditors, *)
(* holders and documents.                                                  *)
THEOREM RecordsKept == Spec => []RecordsSound
<1> DEFINE Inv == AuditInv /\ MemoryInv /\ DocumentInv
<1>1. Init => Inv
  BY AuditAtFirst, MemoryAtFirst, DocumentAtFirst DEF Init
<1>2. Inv /\ [Next]_vars => Inv'
  BY PartsStep, AuditKept, MemoryKept, DocumentKept
<1>3. Inv => RecordsSound
  BY AuditSound, MemorySound, DocumentSound DEF RecordsSound
<1> QED
  BY <1>1, <1>2, <1>3, PTL DEF Spec

(* The version of a database says what its schema has; fields open with    *)
(* the password of the day and no other; a blob that is read is the one     *)
(* that was written: with any number of callers, statements and keys.      *)
THEOREM StorageTrue == Spec => []StorageSound
<1> DEFINE Inv == ConnectionInv /\ FieldInv /\ BlobInv
<1>1. Init => Inv
  BY ConnectionAtFirst, VaultAtFirst DEF Init
<1>2. Inv /\ [Next]_vars => Inv'
  BY PartsStep, ConnectionKept, VaultKept
<1>3. Inv => StorageSound
  BY ConnectionSound, VaultSound DEF StorageSound
<1> QED
  BY <1>1, <1>2, <1>3, PTL DEF Spec

(* The figures: each line of a statement is matched with the best           *)
(* transaction that is left, once, and a completed matching hides nothing; *)
(* each unit of an income is taxed once, a payment that is recorded stays  *)
(* so, the balance sheet balances, and what two reports say of one thing   *)
(* agrees: for any statements, books, brackets, chart, transactions,       *)
(* periods and budgets, in any order of the calls.                         *)
THEOREM FiguresTrue == Spec => []FiguresSound
<1> DEFINE Inv == ReconInv /\ TaxInv /\ StatementInv
<1>1. Init => Inv
  BY ReconAtFirst, TaxesAtFirst, StatementsAtFirst DEF Init
<1>2. Inv /\ [Next]_vars => Inv'
  BY PartsStep, ReconsKept, TaxesKept, StatementsKept
<1>3. Inv => FiguresSound
  BY ReconsSound, TaxesSound, StatementsSound DEF FiguresSound
<1> QED
  BY <1>1, <1>2, <1>3, PTL DEF Spec

(* Of what is said of payments, texts and papers: a repeated payment is     *)
(* flagged, and never as one to a vendor long not seen; an outlier is the  *)
(* greatest; the two classifiers agree where one category leads; a name in *)
(* the chart is found, and the distance of names is one; the cache is the  *)
(* table, unless a write failed, and an answer is what is most similar in  *)
(* it, best first: for any payments, texts, names, charts and vectors.     *)
THEOREM AdviceTrue == Spec => []AdviceSound
<1> DEFINE Inv == AnomalyInv /\ ClassifierInv /\ EmbeddingInv
<1>1. Init => Inv
  BY AnomalyAtFirst, ClassifierAtFirst, EmbeddingAtFirst DEF Init
<1>2. Inv /\ [Next]_vars => Inv'
  BY PartsStep, AnomalyKept, ClassifierKept, EmbeddingKept
<1>3. Inv => AdviceSound
  BY AnomalySound, ClassifierSound, EmbeddingSound DEF AdviceSound
<1> QED
  BY <1>1, <1>2, <1>3, PTL DEF Spec

(* Whatever days the clock shows: months lead back, an age counts the       *)
(* birthdays, the valid days exist, formats are read back, periods meet and *)
(* a quarter is that of the day it was asked for, unless midnight passes.   *)
THEOREM DatesTrue == Spec => []DatesSound
<1>1. Init => CalendarInv
  BY CalendarAtFirst DEF Init
<1>2. CalendarInv /\ [Next]_vars => CalendarInv'
  BY PartsStep, CalendarKept
<1>3. CalendarInv => DatesSound
  BY CalendarSound DEF DatesSound
<1> QED
  BY <1>1, <1>2, <1>3, PTL DEF Spec
=============================================================================
