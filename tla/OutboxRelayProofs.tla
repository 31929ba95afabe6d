------------------------- MODULE OutboxRelayProofs -------------------------
(***************************************************************************)
(* Proofs about OutboxRelay, for any number of instances, rows, sweeps and *)
(* faults: type correctness, the soundness of "sent", the safety part of   *)
(* the refinement of ReliablePublication, and the bound on the copies of a *)
(* row that are published.                                                 *)
(***************************************************************************)
EXTENDS OutboxRelay, FiniteSetTheorems, TLAPS

\* Appending adds exactly the appended element to the set of elements.
LEMMA ToSetOfAppend ==
    ASSUME NEW S, NEW s \in Seq(S), NEW e \in S
    PROVE  ToSet(Append(s, e)) = ToSet(s) \cup {e}
<1> DEFINE t == Append(s, e)
<1>1. /\ DOMAIN s = 1..Len(s)
      /\ DOMAIN t = 1..(Len(s) + 1)
      /\ Len(s) \in Nat
      /\ \A k \in 1..Len(s) : t[k] = s[k]
      /\ t[Len(s) + 1] = e
  OBVIOUS
<1> HIDE DEF t
<1>2. ToSet(t) \subseteq ToSet(s) \cup {e}
  <2> SUFFICES ASSUME NEW k \in 1..(Len(s) + 1) PROVE t[k] \in ToSet(s) \cup {e}
    BY <1>1 DEF ToSet
  <2>1. k \in 1..Len(s) \/ k = Len(s) + 1
    BY <1>1
  <2> QED
    BY <1>1, <2>1 DEF ToSet
<1>3. ToSet(s) \cup {e} \subseteq ToSet(t)
  <2>1. ASSUME NEW k \in 1..Len(s) PROVE s[k] \in ToSet(t)
    <3>1. k \in DOMAIN t /\ t[k] = s[k]
      BY <1>1
    <3> QED
      BY <3>1 DEF ToSet
  <2>2. e \in ToSet(t)
    <3>1. Len(s) + 1 \in DOMAIN t
      BY <1>1
    <3> QED
      BY <1>1, <3>1 DEF ToSet
  <2> QED
    BY <1>1, <2>1, <2>2 DEF ToSet
<1> QED
  BY <1>2, <1>3 DEF t

\* A sweep's batch is made of pending rows.
LEMMA BatchesArePending == \A b \in Batches : b \subseteq Pending
  BY DEF Batches, kSubset

-----------------------------------------------------------------------------
\* Every step keeps the types: the collection and the log hold rows, the
\* workers hold sets of rows, and no fault passes the bound.
LEMMA TypeStep == TypeOK /\ [Next]_vars => TypeOK'
<1> SUFFICES ASSUME TypeOK, [Next]_vars PROVE TypeOK'
  OBVIOUS
<1> USE DEF TypeOK, Stages
<1>1. ASSUME NEW i \in Instances, Process(i) PROVE TypeOK'
  <2>1. CASE Boot(i)
    BY <2>1 DEF Boot
  <2>2. CASE StreamOpens(i)
    BY <2>2 DEF StreamOpens
  <2>3. CASE StreamError(i)
    BY <2>3, LimitAssumption DEF StreamError, Fault
  <2>4. CASE Stop(i)
    BY <2>4, LimitAssumption DEF Stop, Fault
  <2>5. CASE Unplug(i)
    BY <2>5 DEF Unplug
  <2>6. ASSUME Dies(i), faults' \in 0..MaxFaults PROVE TypeOK'
    BY <2>6 DEF Dies
  <2>7. CASE Exit(i)
    BY <2>6, <2>7 DEF Exit
  <2>8. CASE Crash(i)
    BY <2>6, <2>8, LimitAssumption DEF Crash, Fault
  <2> QED
    BY <1>1, <2>1, <2>2, <2>3, <2>4, <2>5, <2>7, <2>8 DEF Process
<1>2. ASSUME NEW i \in Instances, NEW r \in Rows, Commit(i, r) \/ Change(i, r)
      PROVE  TypeOK'
  <2>1. CASE Commit(i, r)
    BY <2>1 DEF Commit
  <2>2. CASE HandleChange(i, r)
    BY <2>2 DEF HandleChange, Workers
  <2>3. CASE HandleChangeFails(i, r)
    BY <2>3, LimitAssumption DEF HandleChangeFails, Fault
  <2> QED
    BY <1>2, <2>1, <2>2, <2>3 DEF Change
<1>3. ASSUME NEW i \in Instances, NEW s \in Sweeps, StartSweep(i, s)
      PROVE  TypeOK'
  <2>1. Pending \subseteq Rows
    BY DEF Pending, ToSet
  <2> QED
    BY <1>3, <2>1, BatchesArePending DEF StartSweep, Workers
<1>4. ASSUME NEW w \in Workers, Publication(w) PROVE TypeOK'
  <2>1. CASE PublishOk(w)
    BY <2>1 DEF PublishOk
  <2>2. CASE PublishFails(w)
    <3>1. faults' \in 0..MaxFaults
      BY <2>2, LimitAssumption DEF PublishFails, Fault
    <3>2. PICK r \in todo[w] : topic' = topic \/ topic' = Append(topic, r)
      BY <2>2 DEF PublishFails
    <3>3. r \in Rows
      OBVIOUS
    <3>4. topic' \in Seq(Rows)
      <4>1. Append(topic, r) \in Seq(Rows)
        BY <3>3
      <4> QED
        BY <3>2, <4>1
    <3> QED
      BY <2>2, <3>1, <3>4 DEF PublishFails, GiveUp
  <2>3. CASE SaveOk(w)
    BY <2>3 DEF SaveOk
  <2>4. CASE SaveFails(w)
    BY <2>4, LimitAssumption DEF SaveFails, GiveUp, Fault
  <2> QED
    BY <1>4, <2>1, <2>2, <2>3, <2>4 DEF Publication
<1>5. CASE UNCHANGED vars
  BY <1>5 DEF vars
<1> QED
  BY <1>1, <1>2, <1>3, <1>4, <1>5 DEF Next

\* Type correctness of every reachable state.
THEOREM TypeCorrect == Spec => []TypeOK
<1>1. Init => TypeOK
  BY LimitAssumption DEF Init, TypeOK, Stages
<1> QED
  BY <1>1, TypeStep, PTL DEF Spec

-----------------------------------------------------------------------------
\* The invariant behind "sent": workers hold committed rows only, and a row
\* that is being saved, or was saved, is in the log.
Inv == TypeOK /\ WorkIsSound /\ SentIsPublished

\* How the three sets of Inv can move in one step: only a publication adds to
\* the log, and a row comes to be held only from the collection.
LEMMA InvStep == Inv /\ [Next]_vars => Inv'
<1> SUFFICES ASSUME Inv, [Next]_vars PROVE Inv'
  OBVIOUS
<1>0. TypeOK /\ TypeOK'
  BY TypeStep DEF Inv
<1> SUFFICES WorkIsSound' /\ SentIsPublished'
  BY <1>0 DEF Inv
<1> USE DEF Inv, WorkIsSound, SentIsPublished
<1>1. ASSUME NEW i \in Instances, Process(i)
      PROVE  WorkIsSound' /\ SentIsPublished'
  <2>1. UNCHANGED <<outbox, sent, topic>>
    BY <1>1 DEF Process, Boot, StreamOpens, StreamError, Stop, Unplug, Exit,
                Crash, Dies
  <2>2. \A j \in Instances : notified'[j] \in {{}, notified[j]}
    BY <1>0, <1>1 DEF TypeOK, Process, Boot, StreamOpens, StreamError, Stop,
                      Unplug, Exit, Crash, Dies
  <2>3. \A w \in Workers : \/ todo'[w] = todo[w] /\ inSave'[w] = inSave[w]
                           \/ todo'[w] = {} /\ inSave'[w] = {}
    BY <1>0, <1>1 DEF TypeOK, Process, Boot, StreamOpens, StreamError, Stop,
                      Unplug, Exit, Crash, Dies
  <2> QED
    BY <2>1, <2>2, <2>3
<1>2. ASSUME NEW i \in Instances, NEW r \in Rows, Commit(i, r)
      PROVE  WorkIsSound' /\ SentIsPublished'
  <2>1. ToSet(outbox') = ToSet(outbox) \cup {r}
    BY <1>0, <1>2, ToSetOfAppend DEF Commit, TypeOK
  <2>2. \A j \in Instances : notified'[j] \subseteq notified[j] \cup {r}
    BY <1>2 DEF Commit
  <2>3. UNCHANGED <<sent, topic, todo, inSave>>
    BY <1>2 DEF Commit
  <2> QED
    BY <2>1, <2>2, <2>3
<1>3. ASSUME NEW i \in Instances, NEW r \in Rows, Change(i, r)
      PROVE  WorkIsSound' /\ SentIsPublished'
  <2>1. UNCHANGED <<outbox, sent, topic, inSave>> /\ r \in notified[i]
    BY <1>3 DEF Change, HandleChange, HandleChangeFails
  <2>2. \A j \in Instances : notified'[j] \subseteq notified[j]
    BY <1>0, <1>3 DEF Change, HandleChange, HandleChangeFails, TypeOK
  <2>3. \A w \in Workers : todo'[w] \subseteq todo[w] \cup {r}
    BY <1>0, <1>3 DEF Change, HandleChange, HandleChangeFails, TypeOK
  <2> QED
    BY <2>1, <2>2, <2>3
<1>4. ASSUME NEW i \in Instances, NEW s \in Sweeps, StartSweep(i, s)
      PROVE  WorkIsSound' /\ SentIsPublished'
  <2>1. UNCHANGED <<outbox, sent, topic, inSave, notified>>
    BY <1>4 DEF StartSweep
  <2>2. \A w \in Workers : todo'[w] \subseteq todo[w] \cup Pending
    BY <1>0, <1>4, BatchesArePending DEF StartSweep, TypeOK
  <2> QED
    BY <2>1, <2>2 DEF Pending
<1>5. ASSUME NEW w \in Workers, Publication(w)
      PROVE  WorkIsSound' /\ SentIsPublished'
  <2>1. UNCHANGED <<outbox, notified>>
    BY <1>5 DEF Publication, PublishOk, PublishFails, SaveOk, SaveFails, GiveUp
  <2>2. \A v \in Workers : todo'[v] \subseteq todo[v]
    BY <1>0, <1>5 DEF Publication, PublishOk, PublishFails, SaveOk, SaveFails,
                      GiveUp, TypeOK
  <2>3. CASE PublishOk(w)
    <3>1. PICK r \in todo[w] : /\ topic' = Append(topic, r)
                              /\ inSave' = [inSave EXCEPT ![w] = {r}]
      BY <2>3 DEF PublishOk
    <3>2. r \in Rows
      BY <1>0 DEF TypeOK
    <3>3. ToSet(topic') = ToSet(topic) \cup {r}
      BY <1>0, <3>1, <3>2, ToSetOfAppend DEF TypeOK
    <3>4. \A v \in Workers : inSave'[v] \subseteq inSave[v] \cup {r}
      BY <1>0, <3>1 DEF TypeOK
    <3>5. UNCHANGED sent
      BY <2>3 DEF PublishOk
    <3> QED
      BY <2>1, <2>2, <3>3, <3>4, <3>5
  <2>4. CASE PublishFails(w)
    <3>1. PICK r \in todo[w] : topic' = topic \/ topic' = Append(topic, r)
      BY <2>4 DEF PublishFails
    <3>2. r \in Rows
      BY <1>0 DEF TypeOK
    <3>3. ToSet(topic) \subseteq ToSet(topic')
      <4>1. ToSet(Append(topic, r)) = ToSet(topic) \cup {r}
        BY <1>0, <3>2, ToSetOfAppend DEF TypeOK
      <4> QED
        BY <3>1, <4>1
    <3>4. \A v \in Workers : inSave'[v] \subseteq inSave[v]
      BY <1>0, <2>4 DEF PublishFails, GiveUp, TypeOK
    <3>5. UNCHANGED sent
      BY <2>4 DEF PublishFails
    <3> QED
      BY <2>1, <2>2, <3>3, <3>4, <3>5
  <2>5. CASE SaveOk(w) \/ SaveFails(w)
    <3>1. UNCHANGED topic /\ sent' \subseteq sent \cup inSave[w]
      BY <2>5 DEF SaveOk, SaveFails
    <3>2. \A v \in Workers : inSave'[v] \subseteq inSave[v]
      BY <1>0, <2>5 DEF SaveOk, SaveFails, GiveUp, TypeOK
    <3> QED
      BY <2>1, <2>2, <3>1, <3>2
  <2> QED
    BY <1>5, <2>3, <2>4, <2>5 DEF Publication
<1>6. CASE UNCHANGED vars
  BY <1>6 DEF vars
<1> QED
  BY <1>1, <1>2, <1>3, <1>4, <1>5, <1>6 DEF Next

LEMMA InvHolds == Spec => []Inv
<1>1. Init => Inv
  <2> SUFFICES ASSUME Init PROVE Inv
    OBVIOUS
  <2>1. TypeOK
    BY LimitAssumption DEF Init, TypeOK, Stages
  <2>2. WorkIsSound /\ SentIsPublished
    BY DEF Init, WorkIsSound, SentIsPublished
  <2> QED
    BY <2>1, <2>2 DEF Inv
<1> QED
  BY <1>1, InvStep, PTL DEF Spec

\* A row marked sent is in the log, whatever interleaves and whatever fails.
THEOREM SentSound == Spec => []SentIsPublished
<1>1. Inv => SentIsPublished
  BY DEF Inv
<1> QED
  BY <1>1, InvHolds, PTL

\* Workers act on committed rows only and save only what is in the log.
THEOREM WorkSound == Spec => []WorkIsSound
<1>1. Inv => WorkIsSound
  BY DEF Inv
<1> QED
  BY <1>1, InvHolds, PTL

-----------------------------------------------------------------------------
\* Each step of the relay is a step of the abstract outbox, or leaves its
\* variables alone.
LEMMA RefinementStep == Inv /\ [Next]_vars => [Abstract!Next]_(Abstract!pubVars)
<1> SUFFICES ASSUME Inv, [Next]_vars
             PROVE  Abstract!Next \/ UNCHANGED <<outbox, topic, sent>>
  BY DEF Abstract!pubVars
<1>0. TypeOK /\ WorkIsSound
  BY DEF Inv
<1>1. ASSUME NEW i \in Instances, Process(i)
      PROVE  UNCHANGED <<outbox, topic, sent>>
  BY <1>1 DEF Process, Boot, StreamOpens, StreamError, Stop, Unplug, Exit,
              Crash, Dies
<1>2. ASSUME NEW i \in Instances, NEW r \in Rows, Commit(i, r)
      PROVE  Abstract!Commit(r)
  <2>1. ToSet(outbox') = ToSet(outbox) \cup {r}
    BY <1>0, <1>2, ToSetOfAppend DEF Commit, TypeOK
  <2> QED
    BY <1>2, <2>1 DEF Commit, Abstract!Commit
<1>3. ASSUME NEW i \in Instances, NEW r \in Rows, Change(i, r)
      PROVE  UNCHANGED <<outbox, topic, sent>>
  BY <1>3 DEF Change, HandleChange, HandleChangeFails
<1>4. ASSUME NEW i \in Instances, NEW s \in Sweeps, StartSweep(i, s)
      PROVE  UNCHANGED <<outbox, topic, sent>>
  BY <1>4 DEF StartSweep
<1>5. ASSUME NEW w \in Workers, Publication(w)
      PROVE  \/ \E r \in Rows : Abstract!Publish(r) \/ Abstract!Acknowledge(r)
             \/ UNCHANGED <<outbox, topic, sent>>
  <2>1. UNCHANGED outbox
    BY <1>5 DEF Publication, PublishOk, PublishFails, SaveOk, SaveFails, GiveUp
  <2>2. CASE PublishOk(w) \/ PublishFails(w)
    <3>1. PICK r \in todo[w] : topic' = topic \/ topic' = Append(topic, r)
      BY <2>2 DEF PublishOk, PublishFails
    <3>2. r \in Rows /\ r \in ToSet(outbox)
      BY <1>0 DEF TypeOK, WorkIsSound
    <3>3. UNCHANGED sent
      BY <2>2 DEF PublishOk, PublishFails
    <3> QED
      <4>1. CASE topic' = topic
        BY <2>1, <3>3, <4>1
      <4>2. CASE topic' = Append(topic, r)
        BY <2>1, <3>2, <3>3, <4>2 DEF Abstract!Publish
      <4> QED
        BY <3>1, <4>1, <4>2
  <2>3. CASE SaveOk(w) \/ SaveFails(w)
    <3>1. PICK r \in inSave[w] : sent' \in {sent, sent \cup {r}}
      BY <2>3 DEF SaveOk, SaveFails
    <3>2. r \in Rows /\ r \in ToSet(topic)
      BY <1>0 DEF TypeOK, WorkIsSound
    <3>3. UNCHANGED topic
      BY <2>3 DEF SaveOk, SaveFails
    <3> QED
      <4>1. CASE sent' = sent
        BY <2>1, <3>3, <4>1
      <4>2. CASE sent' = sent \cup {r}
        BY <2>1, <3>2, <3>3, <4>2 DEF Abstract!Acknowledge, ToSet, Abstract!ToSet
      <4> QED
        BY <3>1, <4>1, <4>2
  <2> QED
    BY <1>5, <2>2, <2>3 DEF Publication
<1>6. CASE UNCHANGED vars
  BY <1>6 DEF vars
<1> QED
  BY <1>1, <1>2, <1>3, <1>4, <1>5, <1>6 DEF Next, Abstract!Next

\* The relay implements the safety part of the abstract outbox: nothing is
\* published before it is committed or acknowledged before it is published.
THEOREM PublicationRefined == Spec => Abstract!Safety
<1>1. Init => Abstract!Init
  BY DEF Init, Abstract!Init, ToSet
<1> QED
  BY <1>1, InvHolds, RefinementStep, PTL DEF Spec, Abstract!Safety
-----------------------------------------------------------------------------
(* How often a row is published.  Its lanes are the workers that may hold   *)
(* it: its handler and the sweeps, of every instance.                       *)

Lanes(r) == Instances \X ({r} \cup Sweeps)

\* Lanes that may publish r, those of them whose process is shutting down
\* (the fault that is its signal has paid for them), and lanes that have
\* published it and will save it.
Waiting(r) == {w \in Lanes(r) : r \in todo[w] \ inSave[w]}
Doomed(r) == {w \in Waiting(r) : proc[w[1]] \in {"stopping", "unplugged"}}
Saving(r) == {w \in Lanes(r) : r \in inSave[w] /\ proc[w[1]] = "running"}

\* Each lane may publish once per fault, and once more.
Budget(k) == k * Cardinality(Instances) * (1 + Cardinality(Sweeps))

\* Until a row is saved its lanes are used up at one copy each, and only a
\* fault can empty them again; once it is saved no lane is filled anew.
CopiesPaid(r) ==
    IF r \in sent
    THEN Copies(r) + Cardinality(Waiting(r)) <= Budget(faults + 1)
    ELSE Copies(r) + Cardinality(Doomed(r)) <= Budget(faults) + Cardinality(Saving(r))
CopyInv == \A r \in Rows : CopiesPaid(r)

\* What the workers hold: a process that is not running is told of nothing,
\* one that is down does nothing, and a handler has one row, its own.
HandsInv ==
    /\ \A i \in Instances : /\ stream[i] # "closed" => proc[i] = "running"
                            /\ notified[i] # {} => proc[i] = "running"
    /\ \A w \in Workers : proc[w[1]] = "down" => todo[w] = {}
    /\ \A i \in Instances, x \in Rows : todo[<<i, x>>] \subseteq {x}
    /\ \A w \in Workers : \A x, y \in inSave[w] : x = y

LEMMA BudgetGrows ==
    /\ \A k \in Nat : Budget(k) \in Nat /\ Budget(k + 1) = Budget(k) + Budget(1)
    /\ \A r \in Rows : IsFiniteSet(Lanes(r)) /\ Cardinality(Lanes(r)) = Budget(1)
<1> DEFINE I == Cardinality(Instances)
           S == Cardinality(Sweeps)
<1>1. I \in Nat /\ S \in Nat
  BY FiniteAssumption, FS_CardinalityType
<1>2. ASSUME NEW k \in Nat
      PROVE  Budget(k) \in Nat /\ Budget(k + 1) = Budget(k) + Budget(1)
  <2> HIDE DEF I, S
  <2>1. k * I \in Nat /\ (k + 1) * I = k * I + I /\ 1 * I = I
    BY <1>1
  <2>2. ASSUME NEW a \in Nat, NEW b \in Nat
        PROVE  a * (1 + S) \in Nat /\ (a + b) * (1 + S) = a * (1 + S) + b * (1 + S)
    BY <1>1
  <2>3. /\ (k * I) * (1 + S) \in Nat
        /\ (k * I + I) * (1 + S) = (k * I) * (1 + S) + I * (1 + S)
    BY <1>1, <2>1, <2>2
  <2> QED
    BY <2>1, <2>3 DEF Budget, I, S
<1>3. ASSUME NEW r \in Rows
      PROVE  IsFiniteSet(Lanes(r)) /\ Cardinality(Lanes(r)) = Budget(1)
  <2>1. r \notin Sweeps
    BY RowsAssumption
  <2>2. {r} \cup Sweeps = Sweeps \cup {r}
    OBVIOUS
  <2>3. IsFiniteSet({r} \cup Sweeps) /\ Cardinality({r} \cup Sweeps) = S + 1
    BY <2>1, <2>2, FiniteAssumption, FS_AddElement
  <2>4. IsFiniteSet(Lanes(r)) /\ Cardinality(Lanes(r)) = I * (S + 1)
    BY <2>3, FiniteAssumption, FS_Product DEF Lanes
  <2> HIDE DEF I, S
  <2>5. I * (S + 1) = 1 * I * (1 + S)
    BY <1>1
  <2> QED
    BY <2>4, <2>5 DEF Budget, I, S
<1> QED
  BY <1>2, <1>3

\* Sets of lanes, and how many they are.
LEMMA LanesCount ==
    ASSUME NEW r \in Rows, NEW X \in SUBSET Lanes(r), NEW Y \in SUBSET Lanes(r)
    PROVE  /\ Cardinality(X) \in Nat /\ Cardinality(Y) \in Nat
           /\ X \subseteq Y => Cardinality(X) <= Cardinality(Y)
           /\ X \subseteq Y /\ X # Y => Cardinality(X) + 1 <= Cardinality(Y)
           /\ X \cap Y = {} => Cardinality(X) + Cardinality(Y) <= Budget(1)
           /\ X \cap Y = {} /\ X \cup Y # Lanes(r) =>
                 Cardinality(X) + Cardinality(Y) + 1 <= Budget(1)
<1>1. IsFiniteSet(Lanes(r)) /\ Cardinality(Lanes(r)) = Budget(1) /\ Budget(1) \in Nat
  BY BudgetGrows
<1>2. ASSUME NEW A, NEW B, IsFiniteSet(B), A \subseteq B
      PROVE  /\ IsFiniteSet(A) /\ Cardinality(A) \in Nat /\ Cardinality(B) \in Nat
             /\ Cardinality(A) <= Cardinality(B)
             /\ A # B => Cardinality(A) + 1 <= Cardinality(B)
  <2>1. /\ IsFiniteSet(A) /\ Cardinality(A) <= Cardinality(B)
        /\ A # B => Cardinality(A) # Cardinality(B)
    BY <1>2, FS_Subset
  <2>2. Cardinality(A) \in Nat /\ Cardinality(B) \in Nat
    BY <1>2, <2>1, FS_CardinalityType
  <2> QED
    BY <2>1, <2>2
<1>3. IsFiniteSet(X) /\ IsFiniteSet(Y) /\ Cardinality(X) \in Nat /\ Cardinality(Y) \in Nat
  BY <1>1, <1>2
<1>4. X \cap Y = {} => Cardinality(X \cup Y) = Cardinality(X) + Cardinality(Y)
  <2>1. ASSUME X \cap Y = {} PROVE Cardinality(X \cup Y) = Cardinality(X) + Cardinality(Y)
    <3>1. Cardinality(X \cap Y) = 0
      BY <2>1, FS_EmptySet
    <3>2. Cardinality(X \cup Y) = Cardinality(X) + Cardinality(Y) - Cardinality(X \cap Y)
      BY <1>3, FS_Union
    <3> QED
      BY <1>3, <3>1, <3>2
  <2> QED
    BY <2>1
<1>5. /\ Cardinality(X \cup Y) <= Budget(1)
      /\ X \cup Y # Lanes(r) => Cardinality(X \cup Y) + 1 <= Budget(1)
  BY <1>1, <1>2
<1> QED
  BY <1>2, <1>3, <1>4, <1>5

LEMMA CopiesCount ==
    ASSUME TypeOK, NEW r \in Rows
    PROVE  /\ Copies(r) \in Nat
           /\ topic' = topic => Copies(r)' = Copies(r)
           /\ \A x \in Rows : topic' = Append(topic, x) =>
                 Copies(r)' = IF x = r THEN Copies(r) + 1 ELSE Copies(r)
<1> DEFINE K == {k \in DOMAIN topic : topic[k] = r}
<1>1. topic \in Seq(Rows) /\ Len(topic) \in Nat /\ DOMAIN topic = 1..Len(topic)
  BY DEF TypeOK
<1>2. IsFiniteSet(K)
  <2>1. K \subseteq 1..Len(topic) /\ IsFiniteSet(1..Len(topic))
    BY <1>1, FS_Interval
  <2> QED
    BY <2>1, FS_Subset
<1>3. Cardinality(K) \in Nat
  BY <1>2, FS_CardinalityType
<1>4. ASSUME NEW x \in Rows, topic' = Append(topic, x)
      PROVE  Copies(r)' = IF x = r THEN Copies(r) + 1 ELSE Copies(r)
  <2> DEFINE n == Len(topic) + 1
  <2>1. /\ DOMAIN topic' = 1..Len(topic) \cup {n} /\ n \notin 1..Len(topic)
        /\ topic'[n] = x /\ \A k \in 1..Len(topic) : topic'[k] = topic[k]
    BY <1>1, <1>4
  <2>2. {k \in DOMAIN topic' : topic'[k] = r} = IF x = r THEN K \cup {n} ELSE K
    BY <1>1, <2>1
  <2>3. n \notin K
    BY <1>1, <2>1
  <2>4. Cardinality(K \cup {n}) = Cardinality(K) + 1
    BY <1>2, <2>3, FS_AddElement
  <2> QED
    BY <2>2, <2>4 DEF Copies
<1> QED
  BY <1>3, <1>4 DEF Copies

LEMMA HandsStep == TypeOK /\ HandsInv /\ [Next]_vars => HandsInv'
<1> SUFFICES ASSUME TypeOK, HandsInv, [Next]_vars PROVE HandsInv'
  OBVIOUS
<1>0. /\ proc \in [Instances -> Stages] /\ notified \in [Instances -> SUBSET Rows]
      /\ stream \in [Instances -> {"closed", "opening", "open"}]
      /\ todo \in [Workers -> SUBSET Rows] /\ inSave \in [Workers -> SUBSET Rows]
      /\ \A i \in Instances, x \in Rows : <<i, x>> \in Workers
      /\ \A w \in Workers : w[1] \in Instances
  BY DEF TypeOK, Workers
\* A step that leaves what the workers hold, or takes it from them.
<1>1. ASSUME \A w \in Workers : /\ todo'[w] \subseteq todo[w]
                                /\ inSave'[w] \subseteq inSave[w],
             \A i \in Instances :
                /\ stream'[i] # "closed" => proc'[i] = "running"
                /\ notified'[i] # {} => proc'[i] = "running"
                /\ proc'[i] = "down" => \/ proc[i] = "down"
                                        \/ \A w \in Workers : w[1] = i => todo'[w] = {}
      PROVE  HandsInv'
  BY <1>0, <1>1 DEF HandsInv
<1>2. ASSUME NEW i \in Instances, Process(i) PROVE HandsInv'
  <2>1. CASE Boot(i) \/ StreamOpens(i) \/ StreamError(i) \/ Stop(i) \/ Unplug(i)
    <3>1. todo' = todo /\ inSave' = inSave
      BY <2>1 DEF Boot, StreamOpens, StreamError, Stop, Unplug
    <3>2. \A j \in Instances : /\ stream'[j] # "closed" => proc'[j] = "running"
                               /\ notified'[j] # {} => proc'[j] = "running"
                               /\ proc'[j] = "down" => proc[j] = "down"
      BY <1>0, <2>1 DEF HandsInv, Boot, StreamOpens, StreamError, Stop, Unplug
    <3> QED
      BY <1>1, <3>1, <3>2
  <2>2. CASE Dies(i)
    <3>1. \A w \in Workers : /\ todo'[w] = IF w[1] = i THEN {} ELSE todo[w]
                             /\ inSave'[w] = IF w[1] = i THEN {} ELSE inSave[w]
      BY <2>2 DEF Dies
    <3>2. \A j \in Instances : /\ stream'[j] # "closed" => proc'[j] = "running"
                               /\ notified'[j] # {} => proc'[j] = "running"
                               /\ proc'[j] = "down" => proc[j] = "down" \/ j = i
      BY <1>0, <2>2 DEF HandsInv, Dies
    <3> QED
      BY <1>1, <3>1, <3>2
  <2> QED
    BY <1>2, <2>1, <2>2 DEF Process, Exit, Crash
<1>3. ASSUME NEW i \in Instances, NEW r \in Rows, Commit(i, r) PROVE HandsInv'
  <2>1. todo' = todo /\ inSave' = inSave /\ stream' = stream /\ proc' = proc
    BY <1>3 DEF Commit
  <2>2. \A j \in Instances : notified'[j] # {} => notified[j] # {} \/ stream[j] = "open"
    BY <1>3 DEF Commit
  <2> QED
    BY <1>1, <2>1, <2>2 DEF HandsInv
<1>4. ASSUME NEW i \in Instances, NEW r \in Rows, Change(i, r) PROVE HandsInv'
  <2>1. /\ stream' = stream /\ proc' = proc /\ inSave' = inSave /\ proc[i] = "running"
        /\ \A j \in Instances : notified'[j] # {} => notified[j] # {}
    BY <1>0, <1>4 DEF Change, HandleChange, HandleChangeFails, HandsInv
  <2>2. CASE HandleChangeFails(i, r)
    BY <1>1, <2>1, <2>2 DEF HandleChangeFails, HandsInv
  <2>3. CASE HandleChange(i, r)
    <3>1. /\ todo'[<<i, r>>] \subseteq {r}
          /\ \A w \in Workers \ {<<i, r>>} : todo'[w] = todo[w]
      BY <1>0, <2>3 DEF HandleChange
    <3>2. \A w \in Workers : proc'[w[1]] = "down" => todo'[w] = {}
      BY <2>1, <3>1 DEF HandsInv
    <3>3. \A j \in Instances, x \in Rows : todo'[<<j, x>>] \subseteq {x}
      <4> SUFFICES ASSUME NEW j \in Instances, NEW x \in Rows
                   PROVE  todo'[<<j, x>>] \subseteq {x}
        OBVIOUS
      <4>1. CASE j = i /\ x = r
        BY <3>1, <4>1
      <4>2. CASE ~(j = i /\ x = r)
        <5>1. <<j, x>> \in Workers \ {<<i, r>>}
          BY <1>0, <4>2
        <5> QED
          BY <3>1, <5>1 DEF HandsInv
      <4> QED
        BY <4>1, <4>2
    <3> QED
      BY <2>1, <3>2, <3>3 DEF HandsInv
  <2> QED
    BY <1>4, <2>2, <2>3 DEF Change
<1>5. ASSUME NEW i \in Instances, NEW s \in Sweeps, StartSweep(i, s) PROVE HandsInv'
  <2>1. UNCHANGED <<stream, proc, notified, inSave>> /\ proc[i] = "running"
    BY <1>5 DEF StartSweep
  <2>2. \A w \in Workers \ {<<i, s>>} : todo'[w] = todo[w]
    BY <1>0, <1>5 DEF StartSweep
  <2>3. \A j \in Instances, x \in Rows : <<j, x>> \in Workers \ {<<i, s>>}
    BY <1>0, RowsAssumption
  <2> QED
    BY <2>1, <2>2, <2>3 DEF HandsInv
<1>6. ASSUME NEW w \in Workers, Publication(w) PROVE HandsInv'
  <2>1. UNCHANGED <<stream, proc, notified>>
    BY <1>6 DEF Publication, PublishOk, PublishFails, SaveOk, SaveFails, GiveUp
  <2>2. CASE PublishOk(w)
    <3>1. PICK x \in todo[w] : inSave' = [inSave EXCEPT ![w] = {x}]
      BY <2>2 DEF PublishOk
    <3>2. todo' = todo
      BY <2>2 DEF PublishOk
    <3> QED
      BY <1>0, <2>1, <3>1, <3>2 DEF HandsInv
  <2>3. CASE PublishFails(w) \/ SaveOk(w) \/ SaveFails(w)
    <3>1. \A v \in Workers : todo'[v] \subseteq todo[v] /\ inSave'[v] \subseteq inSave[v]
      BY <1>0, <2>3 DEF PublishFails, SaveOk, SaveFails, GiveUp
    <3> QED
      BY <1>1, <2>1, <3>1 DEF HandsInv
  <2> QED
    BY <1>6, <2>2, <2>3 DEF Publication
<1>7. CASE UNCHANGED vars
  BY <1>7 DEF vars, HandsInv
<1> QED
  BY <1>2, <1>3, <1>4, <1>5, <1>6, <1>7 DEF Next

-----------------------------------------------------------------------------
\* A step without a fault: a copy is paid for by a lane that is used up.
LEMMA LaneUsed ==
    ASSUME TypeOK, NEW r \in Rows, CopiesPaid(r), faults' = faults,
           r \in sent' <=> r \in sent, Copies(r)' \in Nat,
           r \in sent => Waiting(r)' \subseteq Waiting(r),
           r \notin sent => Doomed(r)' \subseteq Doomed(r) /\ Saving(r) \subseteq Saving(r)',
           \/ Copies(r)' = Copies(r)
           \/ /\ Copies(r)' = Copies(r) + 1
              /\ IF r \in sent THEN Waiting(r)' # Waiting(r)
                 ELSE Doomed(r)' # Doomed(r) \/ Saving(r)' # Saving(r)
    PROVE  CopiesPaid(r)'
<1>1. /\ Waiting(r) \in SUBSET Lanes(r) /\ Waiting(r)' \in SUBSET Lanes(r)
      /\ Doomed(r) \in SUBSET Lanes(r) /\ Doomed(r)' \in SUBSET Lanes(r)
      /\ Saving(r) \in SUBSET Lanes(r) /\ Saving(r)' \in SUBSET Lanes(r)
  BY DEF Waiting, Doomed, Saving, Lanes
<1>2. Copies(r) \in Nat /\ faults \in Nat
  BY CopiesCount, LimitAssumption DEF TypeOK
<1>3. Budget(faults)' = Budget(faults) /\ Budget(faults + 1)' = Budget(faults + 1)
      /\ Budget(faults) \in Nat /\ Budget(faults + 1) \in Nat
  BY <1>2, BudgetGrows DEF Budget
<1>4. CASE r \in sent
  <2>1. /\ Cardinality(Waiting(r)) \in Nat /\ Cardinality(Waiting(r)') \in Nat
        /\ Cardinality(Waiting(r)') <= Cardinality(Waiting(r))
        /\ Waiting(r)' # Waiting(r) =>
              Cardinality(Waiting(r)') + 1 <= Cardinality(Waiting(r))
    BY <1>1, <1>4, LanesCount
  <2> QED
    BY <1>2, <1>3, <1>4, <2>1 DEF CopiesPaid
<1>5. CASE r \notin sent
  <2>1. /\ Cardinality(Doomed(r)) \in Nat /\ Cardinality(Doomed(r)') \in Nat
        /\ Cardinality(Doomed(r)') <= Cardinality(Doomed(r))
        /\ Doomed(r)' # Doomed(r) =>
              Cardinality(Doomed(r)') + 1 <= Cardinality(Doomed(r))
    BY <1>1, <1>5, LanesCount
  <2>2. /\ Cardinality(Saving(r)) \in Nat /\ Cardinality(Saving(r)') \in Nat
        /\ Cardinality(Saving(r)) <= Cardinality(Saving(r)')
        /\ Saving(r)' # Saving(r) =>
              Cardinality(Saving(r)) + 1 <= Cardinality(Saving(r)')
    BY <1>1, <1>5, LanesCount
  <2> QED
    BY <1>2, <1>3, <1>5, <2>1, <2>2 DEF CopiesPaid
<1> QED
  BY <1>4, <1>5

\* A fault pays for all lanes anew.
LEMMA LanesReset ==
    ASSUME TypeOK, NEW r \in Rows, CopiesPaid(r), faults' = faults + 1,
           r \in sent' <=> r \in sent, Copies(r)' \in Nat,
           Waiting(r)' \subseteq Waiting(r),
           \/ Copies(r)' = Copies(r)
           \/ Copies(r)' = Copies(r) + 1 /\ Waiting(r)' # Waiting(r)
    PROVE  CopiesPaid(r)'
<1>1. /\ Waiting(r) \in SUBSET Lanes(r) /\ Waiting(r)' \in SUBSET Lanes(r)
      /\ Doomed(r) \in SUBSET Lanes(r) /\ Doomed(r)' \in SUBSET Lanes(r)
      /\ Saving(r) \in SUBSET Lanes(r) /\ Saving(r)' \in SUBSET Lanes(r)
  BY DEF Waiting, Doomed, Saving, Lanes
<1>2. Copies(r) \in Nat /\ faults \in Nat
  BY CopiesCount, LimitAssumption DEF TypeOK
<1>3. /\ Budget(faults)' = Budget(faults) + Budget(1)
      /\ Budget(faults + 1)' = Budget(faults + 1) + Budget(1)
      /\ Budget(faults) \in Nat /\ Budget(faults + 1) \in Nat /\ Budget(1) \in Nat
  <2>1. Budget(faults)' = Budget(faults + 1) /\ Budget(faults + 1)' = Budget(faults + 2)
    BY <1>2 DEF Budget
  <2>2. faults + 1 \in Nat /\ faults + 2 = (faults + 1) + 1
    BY <1>2
  <2> QED
    BY <1>2, <2>1, <2>2, BudgetGrows
<1>4. CASE r \in sent
  <2>1. /\ Cardinality(Waiting(r)) \in Nat /\ Cardinality(Waiting(r)') \in Nat
        /\ Cardinality(Waiting(r)') <= Cardinality(Waiting(r))
        /\ Waiting(r)' # Waiting(r) =>
              Cardinality(Waiting(r)') + 1 <= Cardinality(Waiting(r))
    BY <1>1, LanesCount
  <2> QED
    BY <1>2, <1>3, <1>4, <2>1 DEF CopiesPaid
<1>5. CASE r \notin sent
  <2>1. Doomed(r)' \subseteq Waiting(r)' /\ Saving(r) \cap Waiting(r) = {}
    BY DEF Doomed, Waiting, Saving
  <2>2. /\ Saving(r) \cap Doomed(r)' = {}
        /\ Waiting(r)' # Waiting(r) => Saving(r) \cup Doomed(r)' # Lanes(r)
    BY <1>1, <2>1
  <2>3. /\ Cardinality(Saving(r)) \in Nat /\ Cardinality(Doomed(r)') \in Nat
        /\ Cardinality(Saving(r)) + Cardinality(Doomed(r)') <= Budget(1)
        /\ Waiting(r)' # Waiting(r) =>
              Cardinality(Saving(r)) + Cardinality(Doomed(r)') + 1 <= Budget(1)
    BY <1>1, <2>2, LanesCount
  <2>4. Cardinality(Doomed(r)) \in Nat /\ Cardinality(Saving(r)') \in Nat
    BY <1>1, LanesCount
  <2> QED
    BY <1>2, <1>3, <1>5, <2>3, <2>4 DEF CopiesPaid
<1> QED
  BY <1>4, <1>5

\* The row is saved as sent: the copies of other lanes that will save it too
\* are paid for, and those that wait for their turn are no more than the rest.
LEMMA RowSaved ==
    ASSUME TypeOK, NEW r \in Rows, CopiesPaid(r), faults' \in {faults, faults + 1},
           r \notin sent, r \in sent', Copies(r)' = Copies(r),
           Waiting(r)' \subseteq Waiting(r)
    PROVE  CopiesPaid(r)'
<1>1. /\ Waiting(r) \in SUBSET Lanes(r) /\ Waiting(r)' \in SUBSET Lanes(r)
      /\ Doomed(r) \in SUBSET Lanes(r) /\ Saving(r) \in SUBSET Lanes(r)
  BY DEF Waiting, Doomed, Saving, Lanes
<1>2. Copies(r) \in Nat /\ faults \in Nat
  BY CopiesCount, LimitAssumption DEF TypeOK
<1>3. /\ Budget(faults + 1)' \in {Budget(faults) + Budget(1), Budget(faults) + Budget(1) + Budget(1)}
      /\ Budget(faults) \in Nat /\ Budget(1) \in Nat
  <2>1. Budget(faults + 1)' \in {Budget(faults + 1), Budget(faults + 2)}
    BY <1>2 DEF Budget
  <2>2. faults + 1 \in Nat /\ faults + 2 = (faults + 1) + 1
    BY <1>2
  <2> QED
    BY <1>2, <2>1, <2>2, BudgetGrows
<1>4. Saving(r) \cap Waiting(r)' = {}
  BY DEF Waiting, Saving
<1>5. /\ Cardinality(Saving(r)) \in Nat /\ Cardinality(Waiting(r)') \in Nat
      /\ Cardinality(Saving(r)) + Cardinality(Waiting(r)') <= Budget(1)
  BY <1>1, <1>4, LanesCount
<1>6. Cardinality(Doomed(r)) \in Nat
  BY <1>1, LanesCount
<1> QED
  BY <1>2, <1>3, <1>5, <1>6 DEF CopiesPaid

\* Steps of a process: a boot or a death frees lanes, a signal dooms them.
LEMMA CopiesByProcess ==
    ASSUME TypeOK, HandsInv, NEW r \in Rows, CopiesPaid(r),
           NEW i \in Instances, Process(i)
    PROVE  CopiesPaid(r)'
<1>0. /\ proc \in [Instances -> Stages] /\ faults \in Nat
      /\ todo \in [Workers -> SUBSET Rows] /\ inSave \in [Workers -> SUBSET Rows]
      /\ Lanes(r) \subseteq Workers /\ \A w \in Workers : w[1] \in Instances
  BY LimitAssumption DEF TypeOK, Workers, Lanes
<1>1. sent' = sent /\ topic' = topic
  BY DEF Process, Boot, StreamOpens, StreamError, Stop, Unplug, Exit, Crash, Dies
<1>2. Copies(r)' = Copies(r) /\ Copies(r)' \in Nat
  BY <1>1, CopiesCount
<1>3. CASE Boot(i) \/ StreamOpens(i) \/ Unplug(i)
  <2>1. UNCHANGED <<todo, inSave, faults>>
    BY <1>3 DEF Boot, StreamOpens, Unplug
  <2>2. \A j \in Instances :
           /\ proc'[j] \in {"stopping", "unplugged"} => proc[j] \in {"stopping", "unplugged"}
           /\ proc[j] = "running" => proc'[j] = "running"
    BY <1>0, <1>3 DEF Boot, StreamOpens, Unplug
  <2>3. /\ Waiting(r)' = Waiting(r) /\ Doomed(r)' \subseteq Doomed(r)
        /\ Saving(r) \subseteq Saving(r)'
    BY <1>0, <2>1, <2>2 DEF Waiting, Doomed, Saving
  <2> QED
    BY <1>1, <1>2, <2>1, <2>3, LaneUsed
<1>4. CASE StreamError(i) \/ Stop(i)
  <2>1. todo' = todo /\ inSave' = inSave /\ faults' = faults + 1
    BY <1>4 DEF StreamError, Stop, Fault
  <2>2. Waiting(r)' \subseteq Waiting(r)
    BY <2>1 DEF Waiting
  <2> QED
    BY <1>1, <1>2, <2>1, <2>2, LanesReset
<1>5. ASSUME Dies(i)
      PROVE  /\ Waiting(r)' \subseteq Waiting(r) /\ Doomed(r)' \subseteq Doomed(r)
             /\ proc[i] # "running" => Saving(r) \subseteq Saving(r)'
  <2>1. /\ \A w \in Workers : /\ todo'[w] = IF w[1] = i THEN {} ELSE todo[w]
                              /\ inSave'[w] = IF w[1] = i THEN {} ELSE inSave[w]
        /\ proc'[i] = "down" /\ \A j \in Instances \ {i} : proc'[j] = proc[j]
    BY <1>0, <1>5 DEF Dies
  <2> QED
    BY <1>0, <2>1 DEF Waiting, Doomed, Saving
<1>6. CASE Exit(i)
  <2>1. faults' = faults /\ Dies(i) /\ proc[i] # "running"
    BY <1>6 DEF Exit
  <2> QED
    BY <1>1, <1>2, <1>5, <2>1, LaneUsed
<1>7. CASE Crash(i)
  <2>1. faults' = faults + 1 /\ Dies(i)
    BY <1>7 DEF Crash, Fault
  <2> QED
    BY <1>1, <1>2, <1>5, <2>1, LanesReset
<1> QED
  BY <1>3, <1>4, <1>6, <1>7 DEF Process

\* Lanes are filled by a running process only, and not for a row that is sent.
LEMMA CopiesByIntake ==
    ASSUME TypeOK, HandsInv, NEW r \in Rows, CopiesPaid(r), NEW i \in Instances,
           \/ \E x \in Rows : Commit(i, x) \/ Change(i, x)
           \/ \E s \in Sweeps : StartSweep(i, s)
    PROVE  CopiesPaid(r)'
<1>0. /\ todo \in [Workers -> SUBSET Rows] /\ faults \in Nat
      /\ Lanes(r) \subseteq Workers /\ r \notin Sweeps
  BY LimitAssumption, RowsAssumption DEF TypeOK, Workers, Lanes
<1>1. sent' = sent /\ topic' = topic /\ proc' = proc /\ inSave' = inSave
  BY DEF Commit, Change, HandleChange, HandleChangeFails, StartSweep
<1>2. Copies(r)' = Copies(r) /\ Copies(r)' \in Nat
  BY <1>1, CopiesCount
<1>3. Saving(r)' = Saving(r)
  BY <1>1 DEF Saving
\* One worker of a running process takes rows, not r if that is sent.
<1>4. ASSUME NEW w \in Workers, proc[w[1]] = "running", faults' = faults,
             \A v \in Workers \ {w} : todo'[v] = todo[v],
             w \in Lanes(r) /\ r \in sent => r \notin todo'[w]
      PROVE  CopiesPaid(r)'
  <2>1. Doomed(r)' \subseteq Doomed(r)
    BY <1>0, <1>1, <1>4 DEF Waiting, Doomed
  <2>2. r \in sent => Waiting(r)' \subseteq Waiting(r)
    BY <1>0, <1>1, <1>4 DEF Waiting
  <2> QED
    BY <1>1, <1>2, <1>3, <1>4, <2>1, <2>2, LaneUsed
<1>5. ASSUME NEW x \in Rows, Commit(i, x) PROVE CopiesPaid(r)'
  <2>1. todo' = todo /\ faults' = faults
    BY <1>5 DEF Commit
  <2>2. Waiting(r)' = Waiting(r) /\ Doomed(r)' = Doomed(r)
    BY <1>1, <2>1 DEF Waiting, Doomed
  <2> QED
    BY <1>1, <1>2, <1>3, <2>1, <2>2, LaneUsed
<1>6. ASSUME NEW x \in Rows, HandleChangeFails(i, x) PROVE CopiesPaid(r)'
  <2>1. todo' = todo /\ faults' = faults + 1
    BY <1>6 DEF HandleChangeFails, Fault
  <2>2. Waiting(r)' = Waiting(r)
    BY <1>1, <2>1 DEF Waiting
  <2> QED
    BY <1>1, <1>2, <2>1, <2>2, LanesReset
<1>7. ASSUME NEW x \in Rows, HandleChange(i, x) PROVE CopiesPaid(r)'
  <2> DEFINE w == <<i, x>>
  <2>1. w \in Workers /\ w[1] = i /\ w[2] = x
    BY DEF Workers
  <2>2. proc[i] = "running" /\ faults' = faults
    BY <1>7 DEF HandleChange, HandsInv
  <2>3. /\ \A v \in Workers \ {w} : todo'[v] = todo[v]
        /\ todo'[w] = IF x \in sent THEN {} ELSE {x}
    BY <1>0, <1>7, <2>1 DEF HandleChange
  <2>4. w \in Lanes(r) => x = r
    BY <2>1, RowsAssumption DEF Lanes
  <2> HIDE DEF w
  <2> QED
    BY <1>4, <2>1, <2>2, <2>3, <2>4
<1>8. ASSUME NEW s \in Sweeps, StartSweep(i, s) PROVE CopiesPaid(r)'
  <2> DEFINE w == <<i, s>>
  <2>1. w \in Workers /\ w[1] = i
    BY DEF Workers
  <2>2. proc[i] = "running" /\ faults' = faults
    BY <1>8 DEF StartSweep
  <2>3. PICK batch \in Batches : todo' = [todo EXCEPT ![w] = batch]
    BY <1>8 DEF StartSweep
  <2>4. batch \subseteq Pending
    BY <2>3, BatchesArePending
  <2>5. /\ \A v \in Workers \ {w} : todo'[v] = todo[v]
        /\ r \in sent => r \notin todo'[w]
    BY <1>0, <2>1, <2>3, <2>4 DEF Pending
  <2> HIDE DEF w
  <2> QED
    BY <1>4, <2>1, <2>2, <2>5
<1> QED
  BY <1>5, <1>6, <1>7, <1>8 DEF Change

\* Steps of a worker.
LEMMA CopiesByWorker ==
    ASSUME TypeOK, TypeOK', HandsInv, NEW r \in Rows, CopiesPaid(r),
           NEW w \in Workers, Publication(w)
    PROVE  CopiesPaid(r)'
<1>0. /\ todo \in [Workers -> SUBSET Rows] /\ inSave \in [Workers -> SUBSET Rows]
      /\ proc \in [Instances -> Stages] /\ faults \in Nat /\ w[1] \in Instances
      /\ Lanes(r) \subseteq Workers /\ proc' = proc
  BY LimitAssumption DEF TypeOK, Workers, Lanes, Publication, PublishOk,
     PublishFails, SaveOk, SaveFails, GiveUp
\* Only a lane of r publishes r.
<1>1. r \in todo[w] => w \in Lanes(r)
  <2>1. PICK i \in Instances, h \in Rows \cup Sweeps : w = <<i, h>>
    BY DEF Workers
  <2>2. h \in Rows /\ r \in todo[w] => h = r
    BY <2>1 DEF HandsInv
  <2> QED
    BY <2>1, <2>2 DEF Lanes
<1>2. Copies(r) \in Nat /\ Copies(r)' \in Nat
  <2>1. topic' = topic \/ \E x \in Rows : topic' = Append(topic, x)
    BY <1>0 DEF Publication, PublishOk, PublishFails, SaveOk, SaveFails
  <2> QED
    BY <2>1, CopiesCount
<1>3. CASE PublishOk(w)
  <2>1. PICK x \in todo[w] : /\ topic' = Append(topic, x)
                             /\ inSave' = [inSave EXCEPT ![w] = {x}]
    BY <1>3 DEF PublishOk
  <2>2. /\ UNCHANGED <<sent, todo, faults>> /\ inSave[w] = {}
        /\ proc[w[1]] \in {"running", "stopping"}
    BY <1>0, <1>3, <2>1 DEF PublishOk, HandsInv, Stages
  <2>3. x \in Rows /\ Copies(r)' = IF x = r THEN Copies(r) + 1 ELSE Copies(r)
    BY <1>0, <2>1, CopiesCount
  <2>4. /\ inSave'[w] = {x} /\ \A v \in Workers \ {w} : inSave'[v] = inSave[v]
    BY <1>0, <2>1
  <2>5. /\ Waiting(r)' \subseteq Waiting(r) /\ Doomed(r)' \subseteq Doomed(r)
        /\ Saving(r) \subseteq Saving(r)'
    BY <1>0, <2>2, <2>4 DEF Waiting, Doomed, Saving
  <2>6. ASSUME x = r
        PROVE  /\ Waiting(r)' # Waiting(r)
               /\ Doomed(r)' # Doomed(r) \/ Saving(r)' # Saving(r)
    <3>1. w \in Lanes(r) /\ w \in Waiting(r) /\ w \notin Waiting(r)'
      BY <1>1, <2>1, <2>2, <2>4, <2>6 DEF Waiting
    <3>2. CASE proc[w[1]] = "running"
      BY <1>0, <2>2, <2>4, <2>6, <3>1, <3>2 DEF Saving
    <3>3. CASE proc[w[1]] = "stopping"
      BY <1>0, <3>1, <3>3 DEF Doomed
    <3> QED
      BY <2>2, <3>1, <3>2, <3>3
  <2> QED
    BY <1>2, <2>2, <2>3, <2>5, <2>6, LaneUsed
<1>4. CASE PublishFails(w)
  <2>1. PICK x \in todo[w] : topic' = topic \/ topic' = Append(topic, x)
    BY <1>4 DEF PublishFails
  <2>2. /\ sent' = sent /\ inSave[w] = {} /\ todo'[w] = {} /\ inSave'[w] = {}
        /\ \A v \in Workers \ {w} : todo'[v] = todo[v] /\ inSave'[v] = inSave[v]
    BY <1>0, <1>4 DEF PublishFails, GiveUp
  <2>3. /\ x \in Rows
        /\ Copies(r)' = Copies(r) \/ (x = r /\ Copies(r)' = Copies(r) + 1)
    BY <1>0, <2>1, CopiesCount
  <2>4. /\ Waiting(r)' \subseteq Waiting(r) /\ Doomed(r)' \subseteq Doomed(r)
        /\ Saving(r) \subseteq Saving(r)'
    BY <1>0, <2>2 DEF Waiting, Doomed, Saving
  <2>5. x = r => w \in Waiting(r) /\ w \notin Waiting(r)'
    BY <1>1, <2>1, <2>2 DEF Waiting
  <2>6. CASE proc[w[1]] = "unplugged"
    <3>1. faults' = faults
      BY <1>4, <2>6 DEF PublishFails
    <3>2. x = r => w \in Doomed(r) /\ w \notin Doomed(r)'
      BY <2>5, <2>6 DEF Doomed
    <3> QED
      BY <1>2, <2>2, <2>3, <2>4, <2>5, <3>1, <3>2, LaneUsed
  <2>7. CASE proc[w[1]] # "unplugged"
    <3>1. faults' = faults + 1
      BY <1>4, <2>7 DEF PublishFails, Fault
    <3> QED
      BY <1>2, <2>2, <2>3, <2>4, <2>5, <3>1, LanesReset
  <2> QED
    BY <2>6, <2>7
<1>5. CASE SaveOk(w)
  <2>1. PICK x \in inSave[w] : /\ sent' = sent \cup {x}
                               /\ todo' = [todo EXCEPT ![w] = @ \ {x}]
    BY <1>5 DEF SaveOk
  <2>2. /\ inSave[w] = {x} /\ todo'[w] = todo[w] \ {x} /\ inSave'[w] = {}
        /\ \A v \in Workers \ {w} : todo'[v] = todo[v] /\ inSave'[v] = inSave[v]
    BY <1>0, <1>5, <2>1 DEF SaveOk, HandsInv
  <2>3. faults' = faults /\ Copies(r)' = Copies(r)
    BY <1>5, CopiesCount DEF SaveOk
  <2>4. Waiting(r)' = Waiting(r) /\ Doomed(r)' = Doomed(r)
    BY <1>0, <2>2 DEF Waiting, Doomed
  <2>5. CASE r \notin sent /\ x = r
    BY <2>1, <2>3, <2>4, <2>5, RowSaved
  <2>6. CASE r \in sent \/ x # r
    <3>1. x # r => Saving(r) \subseteq Saving(r)'
      BY <1>0, <2>2 DEF Saving
    <3> QED
      BY <1>2, <2>1, <2>3, <2>4, <2>6, <3>1, LaneUsed
  <2> QED
    BY <2>5, <2>6
<1>6. CASE SaveFails(w)
  <2>1. PICK x \in inSave[w] : sent' \in {sent, sent \cup {x}}
    BY <1>6 DEF SaveFails
  <2>2. /\ todo'[w] = {} /\ inSave'[w] = {} /\ faults' = faults + 1
        /\ \A v \in Workers \ {w} : todo'[v] = todo[v] /\ inSave'[v] = inSave[v]
    BY <1>0, <1>6 DEF SaveFails, GiveUp, Fault
  <2>3. Copies(r)' = Copies(r)
    BY <1>6, CopiesCount DEF SaveFails
  <2>4. Waiting(r)' \subseteq Waiting(r)
    BY <1>0, <2>2 DEF Waiting
  <2>5. CASE r \notin sent /\ r \in sent'
    BY <2>2, <2>3, <2>4, <2>5, RowSaved
  <2>6. CASE r \in sent' <=> r \in sent
    BY <1>2, <2>2, <2>3, <2>4, <2>6, LanesReset
  <2> QED
    BY <2>1, <2>5, <2>6
<1> QED
  BY <1>3, <1>4, <1>5, <1>6 DEF Publication

LEMMA CopyStep == TypeOK /\ HandsInv /\ CopyInv /\ [Next]_vars => CopyInv'
<1> SUFFICES ASSUME TypeOK, HandsInv, [Next]_vars, NEW r \in Rows, CopiesPaid(r)
             PROVE  CopiesPaid(r)'
  BY DEF CopyInv
<1>1. TypeOK'
  BY TypeStep
<1>2. CASE UNCHANGED vars
  BY <1>2 DEF vars, CopiesPaid, Copies, Waiting, Doomed, Saving, Budget
<1> QED
  BY <1>1, <1>2, CopiesByProcess, CopiesByIntake, CopiesByWorker DEF Next

\* Between two faults each lane publishes a row once at most, for any number
\* of instances and overlapping sweeps (outboxRelay.js:15-58).
THEOREM CopiesBounded == Spec => []CopiesBound
<1>1. Init => TypeOK /\ HandsInv /\ CopyInv
  <2> SUFFICES ASSUME Init PROVE TypeOK /\ HandsInv /\ CopyInv
    OBVIOUS
  <2>1. TypeOK
    BY LimitAssumption DEF Init, TypeOK, Stages
  <2>2. HandsInv
    BY DEF Init, HandsInv, Workers
  <2>3. ASSUME NEW r \in Rows PROVE CopiesPaid(r)
    <3>1. Copies(r) = 0 /\ r \notin sent
      <4>1. {k \in DOMAIN topic : topic[k] = r} = {}
        BY DEF Init
      <4> QED
        BY <4>1, FS_EmptySet DEF Init, Copies
    <3>2. Doomed(r) = {} /\ Saving(r) = {}
      BY DEF Init, Waiting, Doomed, Saving, Lanes, Workers
    <3>3. Budget(faults) \in Nat
      BY BudgetGrows DEF Init
    <3> QED
      BY <3>1, <3>2, <3>3, FS_EmptySet DEF CopiesPaid
  <2> QED
    BY <2>1, <2>2, <2>3 DEF CopyInv
<1>2. TypeOK /\ CopyInv => CopiesBound
  <2> SUFFICES ASSUME TypeOK, NEW r \in Rows, CopiesPaid(r)
               PROVE  Copies(r) <= Budget(faults + 1)
    BY DEF CopyInv, CopiesBound, Budget
  <2>1. /\ Copies(r) \in Nat /\ faults \in Nat
        /\ Waiting(r) \in SUBSET Lanes(r) /\ Doomed(r) \in SUBSET Lanes(r)
        /\ Saving(r) \in SUBSET Lanes(r) /\ {} \in SUBSET Lanes(r)
    BY CopiesCount, LimitAssumption DEF TypeOK, Waiting, Doomed, Saving
  <2>2. /\ Cardinality(Waiting(r)) \in Nat /\ Cardinality(Doomed(r)) \in Nat
        /\ Cardinality(Saving(r)) \in Nat
        /\ Cardinality(Saving(r)) + Cardinality({}) <= Budget(1)
    BY <2>1, LanesCount
  <2>3. /\ Budget(faults) \in Nat /\ Budget(1) \in Nat
        /\ Budget(faults + 1) = Budget(faults) + Budget(1) /\ Cardinality({}) = 0
    BY <2>1, BudgetGrows, FS_EmptySet
  <2> QED
    BY <2>1, <2>2, <2>3 DEF CopiesPaid
<1> QED
  BY <1>1, <1>2, TypeStep, HandsStep, CopyStep, PTL DEF Spec
=============================================================================
