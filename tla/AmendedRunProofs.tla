-------------------------- MODULE AmendedRunProofs --------------------------
(***************************************************************************)
(* Proofs about AmendedRun: types, then that a life knows of the cache     *)
(* being closed (Kept), then the use of the candidates over the lives      *)
(* (UseInv), the sessions that begin with them (SessionInv), and last what *)
(* the rows say of looks at the world (HonestInv).                         *)
(***************************************************************************)
EXTENDS AmendedRun, TLAPS

-----------------------------------------------------------------------------
(* Sequences.                                                              *)

LEMMA SeqUpdate ==
  ASSUME NEW S, NEW s \in Seq(S), NEW i \in 1..Len(s), NEW v \in S
  PROVE  /\ [s EXCEPT ![i] = v] \in Seq(S)
         /\ Len([s EXCEPT ![i] = v]) = Len(s)
         /\ \A j \in 1..Len(s) : [s EXCEPT ![i] = v][j] = IF j = i THEN v ELSE s[j]
  OBVIOUS

LEMMA SeqAppend ==
  ASSUME NEW S, NEW s \in Seq(S), NEW v \in S
  PROVE  /\ Append(s, v) \in Seq(S)
         /\ Len(Append(s, v)) = Len(s) + 1
         /\ \A j \in 1..Len(s) : Append(s, v)[j] = s[j]
         /\ Append(s, v)[Len(s) + 1] = v
  OBVIOUS

LEMMA SeqTail ==
  ASSUME NEW S, NEW s \in Seq(S), s # <<>>
  PROVE  /\ Tail(s) \in Seq(S)
         /\ Len(s) >= 1
         /\ Head(s) = s[1] /\ s[1] \in S
         /\ Len(Tail(s)) = Len(s) - 1
         /\ \A j \in 1..(Len(s) - 1) : Tail(s)[j] = s[j + 1]
  OBVIOUS

-----------------------------------------------------------------------------
(* Types.                                                                  *)

LEMMA UseTypes ==
  ASSUME NEW a \in Actor, NEW c \in Candidate, NEW st \in Import, NEW seq \in Nat, NEW h \in Hash,
         NEW live \in BOOLEAN, NEW open \in BOOLEAN
  PROVE  /\ Diverge(a, c, st, seq, h, open) \in Import
         /\ Take(a, c, st, seq, h, open) \in Import
         /\ Reconcile(a, c, st, seq, h, live, open) \in Import
         /\ Seed(c, st) \in Nat
  <1>0. c.answers \in Nat /\ c.carry \in BOOLEAN BY DEF Candidate
  <1>1. Diverge(a, c, st, seq, h, open) \in Import
    BY <1>0 DEF Diverge, Import
  <1>2. \A n \in Nat : [st EXCEPT !.consumed = n] \in Import
    BY DEF Import
  <1>3. [st EXCEPT !.diverged = TRUE] \in Import
    BY DEF Import
  <1>4. st.consumed \in Nat BY DEF Import
  <1>5. Take(a, c, st, seq, h, open) \in Import
    BY <1>1, <1>2 DEF Take
  <1>6. Reconcile(a, c, st, seq, h, live, open) \in Import
    BY <1>1, <1>2, <1>3, <1>4 DEF Reconcile
  <1>7. Seed(c, st) \in Nat
    BY <1>0, <1>4 DEF Seed
  <1> QED BY <1>1, <1>5, <1>6, <1>7

LEMMA OfferedType ==
  ASSUME JournalType, NEW a \in Actor
  PROVE  Offered(a) \in Candidate
  BY DEF JournalType, Offered, Candidate

(* What the predecessor's journal comes to has its type.                   *)
LEMMA MoreType ==
  ASSUME NEW old, NEW f \in MoreAnswers(old), NEW was, NEW g \in MoreResults(was)
  PROVE  /\ f \in [Actor -> Nat] /\ \A a \in Actor : f[a] <= Len(Entries[a]) /\ old[a] <= f[a]
         /\ g \in [Key -> Nat]
  <1>1. \A a \in Actor : Len(Entries[a]) \in Nat BY ImportAssumption
  <1>2. \A k \in Key : Recorded[k] \in Nat BY ImportAssumption
  <1> QED BY <1>1, <1>2 DEF MoreAnswers, MoreResults

LEMMA InitType == Init => TypeOK
  <1> SUFFICES ASSUME Init PROVE TypeOK
    OBVIOUS
  <1>1. /\ asks \in [Actor -> Seq(Row)] /\ turns \in [Actor -> Seq(1..MaxAsks)]
        /\ calls \in [Key -> Seq([done: BOOLEAN, record: Nat])]
        /\ \A a \in Actor : Len(asks[a]) = 0 /\ Len(turns[a]) = 0
        /\ \A k \in Key : Len(calls[k]) = 0
    BY DEF Init
  <1>2. NothingUsed \in Import BY DEF NothingUsed, Import
  <1>3. JournalType
    <2>0. /\ answered \in [Actor -> Nat] /\ \A a \in Actor : answered[a] <= Len(Entries[a])
          /\ results \in [Key -> Nat]
      BY MoreType DEF Init
    <2>1. \A a \in Actor : Len(asks[a]) <= MaxAsks
      <3>1. 0 <= MaxAsks BY RunAssumption
      <3>2. \A a \in Actor : Len(asks[a]) = 0 BY <1>1
      <3> QED BY <3>1, <3>2, Zenon
    <2>2. store \in [Actor -> [seeded: Nat, own: BOOLEAN]]
      BY DEF Init
    <2>3. closed = FALSE /\ life = 1
      BY DEF Init
    <2> QED BY <1>1, <2>0, <2>1, <2>2, <2>3 DEF JournalType
  <1>4. EngineType
    <2>1. table = TRUE /\ importClosed = FALSE /\ offer \in [Actor -> Offers]
      BY DEF Init
    <2>2. /\ admitted = [a \in Actor |-> 0] /\ current = [a \in Actor |-> 0]
          /\ met = [k \in Key |-> 0] /\ cursor = [k \in Key |-> 0]
      BY DEF Init
    <2>3. imported \in [Actor -> Import] /\ prior \in [Actor -> SUBSET (1..MaxAsks)]
      BY <1>2 DEF Init
    <2>4. noted \in [Actor -> {"none", "pure", "world"}]
      BY DEF Init
    <2>5. \A a \in Actor : admitted[a] <= Len(asks[a]) /\ current[a] <= admitted[a]
      <3>1. \A a \in Actor : admitted[a] = 0 /\ current[a] = 0 BY <2>2
      <3>2. \A a \in Actor : Len(asks[a]) = 0 BY <1>1
      <3>3. 0 <= 0 OBVIOUS
      <3> QED BY <3>1, <3>2, <3>3, Zenon
    <2>6. \A k \in Key : met[k] <= Len(calls[k])
      BY <1>1, <2>2
    <2>7. /\ admitted \in [Actor -> Nat] /\ current \in [Actor -> Nat]
          /\ met \in [Key -> Nat] /\ cursor \in [Key -> Nat]
      BY <2>2
    <2> QED BY <2>1, <2>3, <2>4, <2>5, <2>6, <2>7 DEF EngineType
  <1>5. DriverType BY <1>1 DEF Init, DriverType
  <1>6. HistoryType BY <1>2 DEF Init, HistoryType
  <1> QED BY <1>3, <1>4, <1>5, <1>6 DEF TypeOK

(* An ask more is admitted: what refers to admitted asks stays right.      *)
LEMMA AdmittedMore ==
  ASSUME TypeOK, NEW a \in Actor, admitted' = [admitted EXCEPT ![a] = @ + 1], UNCHANGED driver
  PROVE  DriverType'
  <1>1. \A b \in Actor : admitted'[b] \in Nat /\ admitted[b] <= admitted'[b] /\ admitted[b] \in Nat
    BY DEF TypeOK, EngineType
  <1>2. UNCHANGED <<session, seed, subject, turns, looked, writing, counting>>
    BY DEF driver
  <1>3. \A b \in Actor : \A j \in 1..Len(turns[b]) : turns[b][j] \in Nat
    BY RunAssumption DEF TypeOK, DriverType
  <1>4. \A b \in Actor : \A j \in 1..Len(turns[b]) : turns[b][j] <= admitted'[b]
    BY <1>1, <1>3 DEF TypeOK, DriverType
  <1>5. \A b \in Actor : \A i \in counting[b] : i \in Nat /\ i <= admitted'[b]
    BY <1>1, RunAssumption DEF TypeOK, DriverType
  <1>6. \A b \in Actor : subject[b] <= admitted'[b]
    BY <1>1 DEF TypeOK, DriverType
  <1> QED BY <1>2, <1>4, <1>5, <1>6 DEF TypeOK, DriverType

LEMMA AskFreshType ==
  ASSUME TypeOK, NEW a \in Actor, NEW h \in Hash, AskFresh(a, h)
  PROVE  TypeOK'
  <1> DEFINE seq == admitted[a]
             hit == HasCandidate(a) /\ Hit(a, Offered(a), imported[a], seq, h, ~importClosed)
             row == IF hit THEN CachedRow(a, seq, h) ELSE LiveRow(h)
  <1> USE DEF TypeOK
  <1>1. row \in Row
    <2>1. CASE hit
      <3>1. seq + 1 \in 1..Len(Entries[a])
        BY <2>1 DEF Hit, Matches, Offered, EngineType, JournalType
      <3>2. Entries[a][seq + 1] \in Entry BY <3>1, ImportAssumption
      <3> QED BY <2>1, <3>2 DEF CachedRow, Row, Entry
    <2>2. CASE ~hit
      BY <2>2 DEF LiveRow, Row
    <2> QED BY <2>1, <2>2
  <1>2. imported' \in [Actor -> Import]
    BY UseTypes, OfferedType DEF AskFresh, EngineType, JournalType
  <1>3. /\ seq \in Nat /\ seq = Len(asks[a]) /\ seq < MaxAsks
        /\ admitted' = [admitted EXCEPT ![a] = @ + 1]
        /\ asks' = [asks EXCEPT ![a] = Append(asks[a], row)]
    BY DEF AskFresh, EngineType
  <1>4. /\ asks' \in [Actor -> Seq(Row)]
        /\ \A b \in Actor : Len(asks'[b]) <= MaxAsks
        /\ \A b \in Actor : Len(asks'[b]) = IF b = a THEN seq + 1 ELSE Len(asks[b])
    <2>1. asks \in [Actor -> Seq(Row)] /\ \A b \in Actor : Len(asks[b]) <= MaxAsks
      BY DEF JournalType
    <2> HIDE DEF row, seq, TypeOK
    <2>2. Append(asks[a], row) \in Seq(Row) /\ Len(Append(asks[a], row)) = seq + 1
      BY <1>1, <1>3, <2>1, SeqAppend
    <2> QED BY <1>3, <2>1, <2>2, RunAssumption
  <1>5. prior' \in [Actor -> SUBSET (1..MaxAsks)] /\ saw' \in [Actor -> SUBSET (1..MaxAsks)]
    <2>1. seq + 1 \in 1..MaxAsks
      BY <1>3, RunAssumption
    <2>2. prior' \in {prior, [prior EXCEPT ![a] = @ \cup {seq + 1}]}
      BY DEF AskFresh
    <2>3. saw' \in {saw, [saw EXCEPT ![a] = @ \cup {seq + 1}]}
      BY DEF AskFresh, AlsoSaw
    <2>4. {prior, saw} \subseteq [Actor -> SUBSET (1..MaxAsks)]
      BY DEF EngineType, HistoryType
    <2> HIDE DEF seq
    <2> QED BY <2>1, <2>2, <2>3, <2>4
  <1>6. JournalType' BY <1>4 DEF AskFresh, JournalType
  <1>7. EngineType'
    <2>1. UNCHANGED <<table, offer, importClosed, met, cursor, current, noted, calls>>
      BY DEF AskFresh, ask
    <2>2. /\ admitted' \in [Actor -> Nat]
          /\ \A b \in Actor : admitted'[b] <= Len(asks'[b]) /\ current[b] <= admitted'[b]
      BY <1>3, <1>4 DEF EngineType
    <2> QED BY <1>2, <1>5, <2>1, <2>2 DEF EngineType
  <1>8. DriverType' BY <1>3, AdmittedMore DEF AskFresh
  <1>9. HistoryType' BY <1>5 DEF AskFresh, HistoryType
  <1> QED BY <1>6, <1>7, <1>8, <1>9

LEMMA AskRecordedType ==
  ASSUME TypeOK, NEW a \in Actor, AskRecorded(a)
  PROVE  TypeOK'
  <1> DEFINE seq == admitted[a]
  <1> USE DEF TypeOK
  <1>1. /\ seq \in Nat /\ seq < Len(asks[a]) /\ Len(asks[a]) <= MaxAsks
        /\ admitted' = [admitted EXCEPT ![a] = @ + 1]
    BY DEF AskRecorded, EngineType, JournalType
  <1>2. asks[a][seq + 1] \in Row
    BY <1>1 DEF JournalType
  <1>3. imported' \in [Actor -> Import]
    BY <1>1, <1>2, UseTypes, OfferedType DEF AskRecorded, EngineType, LiveBefore, Row
  <1>4. prior' \in [Actor -> SUBSET (1..MaxAsks)]
    BY <1>1, RunAssumption DEF AskRecorded, EngineType
  <1>5. JournalType' BY DEF AskRecorded, JournalType, disk, journal
  <1>6. EngineType'
    <2>1. UNCHANGED <<asks, calls, table, offer, importClosed, met, cursor, current, noted>>
      BY DEF AskRecorded, ask, disk, journal
    <2>2. /\ admitted' \in [Actor -> Nat]
          /\ \A b \in Actor : admitted'[b] <= Len(asks[b]) /\ current[b] <= admitted'[b]
      BY <1>1 DEF EngineType
    <2> QED BY <1>3, <1>4, <2>1, <2>2 DEF EngineType
  <1>7. DriverType' BY <1>1, AdmittedMore DEF AskRecorded
  <1>8. HistoryType'
    <2>1. seq + 1 \in 1..MaxAsks BY <1>1, RunAssumption
    <2>2. saw' \in {saw, [saw EXCEPT ![a] = @ \cup {seq + 1}]} BY DEF AskRecorded, AlsoSaw
    <2>3. UNCHANGED <<changed, based>> BY DEF AskRecorded
    <2> HIDE DEF seq
    <2> QED BY <2>1, <2>2, <2>3 DEF HistoryType
  <1> QED BY <1>5, <1>6, <1>7, <1>8

LEMMA WorldCallType ==
  ASSUME TypeOK, NEW k \in Key, WorldCall(k)
  PROVE  TypeOK'
  <1> DEFINE WRow == [done: BOOLEAN, record: Nat]
             i == met[k] + 1
             done == i <= Len(calls[k]) /\ calls[k][i].done
             hit == ~done /\ table /\ ~importClosed /\ cursor[k] < results[k]
             row == [done |-> hit, record |-> IF hit THEN cursor[k] + 1 ELSE 0]
  <1>1. /\ row \in WRow
        /\ i \in Nat /\ i <= Len(calls[k]) + 1 /\ i >= 1 /\ calls \in [Key -> Seq(WRow)]
        /\ met \in [Key -> Nat] /\ \A l \in Key : met[l] <= Len(calls[l])
    BY DEF TypeOK, EngineType, JournalType
  <1>2. /\ calls' = IF done THEN calls ELSE [calls EXCEPT ![k] = Put(calls[k], i, row)]
        /\ met' = [met EXCEPT ![k] = i]
        /\ done => i <= Len(calls[k])
    BY DEF WorldCall
  <1>3. /\ calls' \in [Key -> Seq(WRow)]
        /\ \A l \in Key : met'[l] <= Len(calls'[l])
    <2> HIDE DEF row, i, WRow, done
    <2>1. Put(calls[k], i, row) \in Seq(WRow) /\ Len(Put(calls[k], i, row)) >= i
      BY <1>1, SeqAppend, SeqUpdate DEF Put
    <2> QED BY <1>1, <1>2, <2>1
  <1>4. {closed', changed', importClosed'} \subseteq BOOLEAN
    BY DEF WorldCall, Close, Change, TypeOK, JournalType, EngineType, HistoryType
  <1>5. met' \in [Key -> Nat] /\ cursor' \in [Key -> Nat]
    BY DEF WorldCall, TypeOK, EngineType
  <1>6. UNCHANGED <<asks, store, life, answered, results, table, offer, admitted, imported, prior,
                    current, noted, driver, based, saw>>
    BY DEF WorldCall, ask
  <1>7. JournalType' BY <1>3, <1>4, <1>6 DEF TypeOK, JournalType
  <1>8. EngineType' BY <1>3, <1>4, <1>5, <1>6 DEF TypeOK, EngineType
  <1>9. DriverType' /\ HistoryType' BY <1>4, <1>6 DEF TypeOK, DriverType, HistoryType, driver
  <1> QED BY <1>7, <1>8, <1>9 DEF TypeOK

LEMMA WorldCallEndsType ==
  ASSUME TypeOK, NEW k \in Key, NEW i \in 1..MaxCalls, WorldCallEnds(k, i)
  PROVE  TypeOK'
  <1> DEFINE WRow == [done: BOOLEAN, record: Nat]
             row == [calls[k][i] EXCEPT !.done = TRUE]
  <1>1. i \in 1..Len(calls[k]) /\ calls \in [Key -> Seq(WRow)]
    BY RunAssumption DEF WorldCallEnds, TypeOK, JournalType, EngineType
  <1>2. row \in WRow
    <2>1. calls[k][i] \in WRow
      <3> HIDE DEF WRow
      <3> QED BY <1>1
    <2> QED BY <2>1
  <1>3. calls' = [calls EXCEPT ![k] = [calls[k] EXCEPT ![i] = row]] BY DEF WorldCallEnds
  <1>4. /\ calls' \in [Key -> Seq(WRow)]
        /\ \A l \in Key : Len(calls'[l]) = Len(calls[l])
    <2> HIDE DEF row, WRow
    <2> QED BY <1>1, <1>2, <1>3, SeqUpdate
  <1>5. UNCHANGED <<asks, closed, store, life, answered, results, engine, ask, driver, history>>
    BY DEF WorldCallEnds
  <1>6. JournalType' BY <1>4, <1>5 DEF TypeOK, JournalType
  <1>7. EngineType' BY <1>4, <1>5 DEF TypeOK, EngineType, engine, ask
  <1>8. DriverType' /\ HistoryType'
    BY <1>5 DEF TypeOK, DriverType, HistoryType, driver, history, engine
  <1> QED BY <1>6, <1>7, <1>8 DEF TypeOK

(* A row of an actor's asks is replaced.                                   *)
LEMMA RowReplaced ==
  ASSUME JournalType, NEW a \in Actor, NEW i \in 1..Len(asks[a]), NEW row \in Row,
         asks' = [asks EXCEPT ![a] = [asks[a] EXCEPT ![i] = row]]
  PROVE  /\ asks' \in [Actor -> Seq(Row)]
         /\ \A b \in Actor : Len(asks'[b]) = Len(asks[b])
         /\ \A b \in Actor : \A j \in 1..Len(asks[b]) :
              asks'[b][j] = IF b = a /\ j = i THEN row ELSE asks[b][j]
  <1>1. asks \in [Actor -> Seq(Row)]
    BY DEF JournalType
  <1> QED BY <1>1, SeqUpdate

(* The ask an actor's runtime works on is in the journal.                  *)
LEMMA WorksType ==
  ASSUME TypeOK, NEW a \in Actor, NEW i \in 1..MaxAsks, Works(a, i)
  PROVE  i \in 1..Len(asks[a]) /\ i <= admitted[a] /\ asks[a][i] \in Row
  <1>1. i \in Nat /\ i >= 1 /\ i <= admitted[a] /\ admitted[a] \in Nat /\ admitted[a] <= Len(asks[a])
    BY RunAssumption DEF Works, TypeOK, EngineType
  <1>2. i \in 1..Len(asks[a]) BY <1>1
  <1> QED BY <1>1, <1>2 DEF TypeOK, JournalType

(* So is the ask of a turn.                                                *)
LEMMA TurnType ==
  ASSUME TypeOK, NEW a \in Actor, turns[a] # <<>>
  PROVE  LET i == Head(turns[a])
         IN  i \in 1..MaxAsks /\ i \in 1..Len(asks[a]) /\ i <= admitted[a] /\ asks[a][i] \in Row
  <1> DEFINE i == Head(turns[a])
  <1>1. i \in 1..MaxAsks /\ i = turns[a][1] /\ 1 \in 1..Len(turns[a])
    <2> DEFINE T == 1..MaxAsks
    <2>1. turns[a] \in Seq(T)
      BY DEF TypeOK, DriverType
    <2> HIDE DEF T
    <2>2. Head(turns[a]) \in T /\ Head(turns[a]) = turns[a][1] /\ Len(turns[a]) >= 1
      BY <2>1, SeqTail
    <2>3. Len(turns[a]) \in Nat BY <2>1
    <2> QED BY <2>2, <2>3 DEF T
  <1>2. i <= admitted[a] BY <1>1 DEF TypeOK, DriverType
  <1>3. admitted[a] \in Nat /\ admitted[a] <= Len(asks[a]) BY DEF TypeOK, EngineType
  <1> HIDE DEF i
  <1>4. i \in 1..Len(asks[a]) BY <1>1, <1>2, <1>3, RunAssumption
  <1> QED BY <1>1, <1>2, <1>4 DEF TypeOK, JournalType, i

LEMMA CountingType ==
  ASSUME TypeOK, NEW a \in Actor, NEW i \in counting[a]
  PROVE  i \in 1..MaxAsks /\ i \in 1..Len(asks[a]) /\ i <= admitted[a] /\ asks[a][i] \in Row
  <1>1. i \in 1..MaxAsks /\ i <= admitted[a]
    BY DEF TypeOK, DriverType
  <1>2. admitted[a] \in Nat /\ admitted[a] <= Len(asks[a]) BY DEF TypeOK, EngineType
  <1>3. i \in 1..Len(asks[a]) BY <1>1, <1>2, RunAssumption
  <1> QED BY <1>1, <1>3 DEF TypeOK, JournalType

(* What the engine refers to is right when rows are replaced only.         *)
LEMMA RowsReplacedType ==
  ASSUME TypeOK, asks' \in [Actor -> Seq(Row)], \A b \in Actor : Len(asks'[b]) = Len(asks[b]),
         UNCHANGED <<calls, closed, store, life, answered, results, engine>>,
         current' \in [Actor -> Nat], \A b \in Actor : current'[b] <= admitted[b],
         noted' \in [Actor -> {"none", "pure", "world"}]
  PROVE  JournalType' /\ EngineType'
  <1>1. JournalType' BY DEF TypeOK, JournalType
  <1>2. UNCHANGED <<table, offer, importClosed, admitted, imported, prior, met, cursor, calls>>
    BY DEF engine
  <1> QED BY <1>1, <1>2 DEF TypeOK, EngineType

LEMMA DispatchType ==
  ASSUME TypeOK, NEW a \in Actor, Dispatch(a)
  PROVE  TypeOK'
  <1> USE DEF TypeOK
  <1>1. PICK i \in 1..admitted[a] : current' = [current EXCEPT ![a] = i]
    BY DEF Dispatch
  <1>2. /\ current' \in [Actor -> Nat] /\ \A b \in Actor : current'[b] <= admitted[b]
        /\ noted' \in [Actor -> {"none", "pure", "world"}]
    BY <1>1 DEF Dispatch, EngineType
  <1>3. seed' \in [Actor -> Nat] /\ session' \in [Actor -> {"none", "creating", "ready"}]
    <2>1. Seed(Offered(a), imported[a]) \in Nat
      <3>1. imported[a].consumed \in Nat /\ Offered(a).answers \in Nat
        BY DEF EngineType, Import, Offered, JournalType
      <3> QED BY <3>1 DEF Seed
    <2> QED BY <2>1 DEF Dispatch, DriverType
  <1>4. JournalType' BY DEF Dispatch, JournalType, disk, journal
  <1>5. UNCHANGED <<asks, calls, table, offer, importClosed, admitted, imported, prior, met, cursor>>
    BY DEF Dispatch, disk, journal, engine
  <1>6. EngineType' BY <1>2, <1>5 DEF EngineType
  <1>7. DriverType' BY <1>3, <1>5 DEF Dispatch, DriverType
  <1>8. HistoryType' BY DEF Dispatch, HistoryType, history
  <1> QED BY <1>4, <1>6, <1>7, <1>8

LEMMA SessionReadyType ==
  ASSUME TypeOK, NEW a \in Actor, SessionReady(a)
  PROVE  TypeOK'
  <1> USE DEF TypeOK
  <1>1. store' \in [Actor -> [seeded: Nat, own: BOOLEAN]]
    BY DEF SessionReady, SeedInto, JournalType, DriverType
  <1>2. UNCHANGED <<asks, calls, closed, life, answered, results, engine, ask, seed, subject, turns,
                    looked, writing, counting, history>>
    BY DEF SessionReady, journal
  <1>3. JournalType' BY <1>1, <1>2 DEF JournalType
  <1>4. EngineType' BY <1>2 DEF EngineType, engine, ask
  <1>5. DriverType' BY <1>2 DEF SessionReady, DriverType, engine
  <1>6. HistoryType' BY <1>2 DEF HistoryType, history
  <1> QED BY <1>3, <1>4, <1>5, <1>6

LEMMA StartAskType ==
  ASSUME TypeOK, NEW a \in Actor, StartAsk(a)
  PROVE  TypeOK'
  <1> USE DEF TypeOK
  <1>1. UNCHANGED <<asks, calls, closed, life, answered, results, engine, ask, session, seed, writing,
                    counting, changed, saw>>
    BY DEF StartAsk, journal
  <1>2. /\ current[a] \in 1..MaxAsks /\ current[a] <= admitted[a]
        /\ current[a] \in Nat /\ admitted[a] \in Nat
    <2>1. /\ current[a] \in Nat /\ current[a] # 0 /\ current[a] <= admitted[a]
          /\ admitted[a] \in Nat /\ admitted[a] <= Len(asks[a]) /\ Len(asks[a]) <= MaxAsks
      BY DEF StartAsk, EngineType, JournalType
    <2>2. Len(asks[a]) \in Nat BY DEF JournalType
    <2> QED BY <2>1, <2>2, RunAssumption
  <1>3. /\ turns' \in [Actor -> Seq(1..MaxAsks)]
        /\ \A b \in Actor : \A j \in 1..Len(turns'[b]) : turns'[b][j] <= admitted[b]
    <2> DEFINE T == 1..MaxAsks
    <2>1. /\ turns \in [Actor -> Seq(T)] /\ current[a] \in T
          /\ \A b \in Actor : \A j \in 1..Len(turns[b]) : turns[b][j] <= admitted[b]
          /\ turns' = [turns EXCEPT ![a] = Append(turns[a], current[a])]
      BY <1>2 DEF StartAsk, DriverType
    <2> HIDE DEF T
    <2>2. /\ Append(turns[a], current[a]) \in Seq(T)
          /\ \A j \in 1..Len(Append(turns[a], current[a])) :
               Append(turns[a], current[a])[j] <= admitted[a]
      BY <1>2, <2>1, SeqAppend
    <2>3. turns' \in [Actor -> Seq(T)] BY <2>1, <2>2
    <2>4. \A b \in Actor : \A j \in 1..Len(turns'[b]) : turns'[b][j] <= admitted[b]
      BY <2>1, <2>2
    <2> QED BY <2>3, <2>4 DEF T
  <1>4. JournalType' BY <1>1 DEF StartAsk, JournalType
  <1>5. EngineType' BY <1>1 DEF EngineType, engine, ask
  <1>6. DriverType'
    <2>1. subject' \in [Actor -> Nat] /\ \A b \in Actor : subject'[b] <= admitted[b]
      BY <1>2 DEF StartAsk, DriverType
    <2>2. looked' \in [Actor -> BOOLEAN] BY DEF StartAsk, DriverType
    <2>3. UNCHANGED <<admitted, session, seed, writing, counting>> BY <1>1 DEF engine
    <2> QED BY <1>3, <2>1, <2>2, <2>3 DEF DriverType
  <1>7. HistoryType' BY <1>1 DEF StartAsk, HistoryType
  <1> QED BY <1>4, <1>5, <1>6, <1>7

LEMMA LookType ==
  ASSUME TypeOK, NEW a \in Actor, NEW i \in 1..MaxAsks, Look(a, i)
  PROVE  TypeOK'
  <1> USE DEF TypeOK
  <1>1. JournalType' BY DEF Look, JournalType, disk, journal
  <1>2. EngineType' BY DEF Look, EngineType, engine, ask, disk, journal
  <1>3. DriverType' BY DEF Look, DriverType, engine
  <1>4. HistoryType' BY DEF Look, AlsoSaw, HistoryType
  <1> QED BY <1>1, <1>2, <1>3, <1>4

LEMMA StartWriteType ==
  ASSUME TypeOK, NEW a \in Actor, NEW i \in 1..MaxAsks, StartWrite(a, i)
  PROVE  TypeOK'
  <1> USE DEF TypeOK
  <1>1. JournalType' BY DEF StartWrite, Close, JournalType, EngineType
  <1>2. EngineType' BY DEF StartWrite, Close, EngineType, ask
  <1>3. DriverType' BY DEF StartWrite, DriverType
  <1>4. HistoryType' BY DEF StartWrite, AlsoSaw, HistoryType
  <1> QED BY <1>1, <1>2, <1>3, <1>4

LEMMA WriteType ==
  ASSUME TypeOK, NEW a \in Actor, Write(a)
  PROVE  TypeOK'
  <1> USE DEF TypeOK
  <1>1. JournalType' BY DEF Write, JournalType, disk, journal
  <1>2. EngineType' BY DEF Write, EngineType, engine, ask, disk, journal
  <1>3. DriverType' BY DEF Write, DriverType, engine
  <1>4. HistoryType' BY DEF Write, Change, EngineType, HistoryType
  <1> QED BY <1>1, <1>2, <1>3, <1>4

LEMMA SettledType ==
  ASSUME TypeOK, NEW a \in Actor, NEW i \in 1..Len(asks[a]),
         NEW outcome \in {"completed", "failed"}, Settled(a, i, outcome),
         UNCHANGED <<calls, closed, store, life, answered, results, engine, noted>>
  PROVE  JournalType' /\ EngineType'
  <1> DEFINE row == [asks[a][i] EXCEPT !.status = outcome, !.pure = Journaled(a, i, noted[a])]
  <1>1. row \in Row
    <2>1. asks[a][i] \in Row BY DEF TypeOK, JournalType
    <2> QED BY <2>1 DEF Row, Journaled
  <1>2. asks' = [asks EXCEPT ![a] = [asks[a] EXCEPT ![i] = row]]
    BY DEF Settled
  <1>3. asks' \in [Actor -> Seq(Row)] /\ \A b \in Actor : Len(asks'[b]) = Len(asks[b])
    <2> HIDE DEF row
    <2> QED BY <1>1, <1>2, RowReplaced DEF TypeOK
  <1>4. current' \in [Actor -> Nat] /\ \A b \in Actor : current'[b] <= admitted[b]
    BY DEF Settled, TypeOK, EngineType
  <1>5. noted' \in [Actor -> {"none", "pure", "world"}] BY DEF TypeOK, EngineType
  <1> QED BY <1>3, <1>4, <1>5, RowsReplacedType

LEMMA SubmitType ==
  ASSUME TypeOK, NEW a \in Actor, NEW i \in 1..MaxAsks, Submit(a, i)
  PROVE  TypeOK'
  <1>1. i \in 1..Len(asks[a]) BY WorksType DEF Submit
  <1>2. JournalType' /\ EngineType' BY <1>1, SettledType DEF Submit
  <1>3. DriverType' BY DEF Submit, TypeOK, DriverType, driver, engine
  <1>4. HistoryType' BY DEF Submit, TypeOK, HistoryType, history
  <1> QED BY <1>2, <1>3, <1>4 DEF TypeOK

(* The first turn of a session is over.                                    *)
LEMMA TurnsType ==
  ASSUME TypeOK, NEW a \in Actor, turns[a] # <<>>, turns' = [turns EXCEPT ![a] = Tail(@)],
         UNCHANGED admitted
  PROVE  /\ turns' \in [Actor -> Seq(1..MaxAsks)]
         /\ \A b \in Actor : \A j \in 1..Len(turns'[b]) : turns'[b][j] <= admitted'[b]
  <1> DEFINE T == 1..MaxAsks
  <1>1. /\ turns \in [Actor -> Seq(T)]
        /\ \A b \in Actor : \A j \in 1..Len(turns[b]) : turns[b][j] <= admitted[b]
        /\ turns' = [turns EXCEPT ![a] = Tail(turns[a])]
    BY DEF TypeOK, DriverType
  <1> HIDE DEF T
  <1>2. /\ Tail(turns[a]) \in Seq(T)
        /\ \A j \in 1..Len(Tail(turns[a])) : Tail(turns[a])[j] <= admitted[a]
    BY <1>1, SeqTail
  <1>3. turns' \in [Actor -> Seq(T)] BY <1>1, <1>2
  <1>4. \A b \in Actor : \A j \in 1..Len(turns'[b]) : turns'[b][j] <= admitted'[b]
    BY <1>1, <1>2
  <1> QED BY <1>3, <1>4 DEF T

LEMMA TurnResolvesType ==
  ASSUME TypeOK, NEW a \in Actor, TurnResolves(a)
  PROVE  TypeOK'
  <1> DEFINE i == Head(turns[a])
             row == [asks[a][i] EXCEPT !.pure = Journaled(a, i, Counted(a))]
  <1>1. turns[a] # <<>> BY DEF TurnResolves
  <1>2. i \in 1..MaxAsks /\ i \in 1..Len(asks[a]) /\ i <= admitted[a] /\ asks[a][i] \in Row
    BY <1>1, TurnType
  <1>3. row \in Row BY <1>2 DEF Row, Journaled
  <1>4. asks' = asks \/ asks' = [asks EXCEPT ![a] = [asks[a] EXCEPT ![i] = row]]
    BY DEF TurnResolves
  <1>5. asks' \in [Actor -> Seq(Row)] /\ \A b \in Actor : Len(asks'[b]) = Len(asks[b])
    <2>1. CASE asks' = asks BY <2>1 DEF TypeOK, JournalType
    <2>2. CASE asks' = [asks EXCEPT ![a] = [asks[a] EXCEPT ![i] = row]]
      <3> HIDE DEF row, i
      <3> QED BY <1>2, <1>3, <2>2, RowReplaced DEF TypeOK
    <2> QED BY <1>4, <2>1, <2>2
  <1>6. noted' \in [Actor -> {"none", "pure", "world"}]
    BY DEF TurnResolves, Counted, TypeOK, EngineType
  <1>7. /\ UNCHANGED <<calls, closed, store, life, answered, results, engine, admitted, current, session, seed,
                       subject, looked, writing, history>>
        /\ turns' = [turns EXCEPT ![a] = Tail(@)]
        /\ counting' = [counting EXCEPT ![a] = @ \cup {i}]
    BY DEF TurnResolves, engine
  <1>8. current' \in [Actor -> Nat] /\ \A b \in Actor : current'[b] <= admitted[b]
    BY <1>7 DEF TypeOK, EngineType
  <1>9. JournalType' /\ EngineType'
    BY <1>5, <1>6, <1>7, <1>8, RowsReplacedType
  <1>10. DriverType'
    <2>1. /\ turns' \in [Actor -> Seq(1..MaxAsks)]
          /\ \A b \in Actor : \A j \in 1..Len(turns'[b]) : turns'[b][j] <= admitted'[b]
      BY <1>1, <1>7, TurnsType
    <2>2. counting' \in [Actor -> SUBSET (1..MaxAsks)]
      BY <1>2, <1>7 DEF TypeOK, DriverType
    <2>3. \A b \in Actor : \A j \in counting'[b] : j <= admitted'[b]
      BY <1>2, <1>7 DEF TypeOK, DriverType
    <2> QED BY <1>7, <2>1, <2>2, <2>3 DEF TypeOK, DriverType
  <1>11. HistoryType' BY <1>7 DEF TypeOK, HistoryType, history
  <1> QED BY <1>9, <1>10, <1>11 DEF TypeOK

LEMMA ExchangeEndsType ==
  ASSUME TypeOK, NEW a \in Actor, NEW i \in 1..MaxAsks, ExchangeEnds(a, i)
  PROVE  TypeOK'
  <1> DEFINE old == asks[a][i]
             outcome == IF old.status # "running" THEN old.status
                        ELSE IF old.hash \in Typed THEN "failed" ELSE "completed"
             row == [old EXCEPT !.status = outcome,
                                !.pure = IF old.status = "running"
                                         THEN Journaled(a, i, noted[a]) ELSE old.pure,
                                !.boundary = old.boundary \/ BoundaryFits(a, i)]
  <1>1. i \in 1..Len(asks[a]) /\ old \in Row BY CountingType DEF ExchangeEnds
  <1>2. row \in Row BY <1>1 DEF Row, Journaled, BoundaryFits
  <1>3. asks' = [asks EXCEPT ![a] = [asks[a] EXCEPT ![i] = row]]
    BY DEF ExchangeEnds
  <1>4. asks' \in [Actor -> Seq(Row)] /\ \A b \in Actor : Len(asks'[b]) = Len(asks[b])
    <2> HIDE DEF row
    <2> QED BY <1>1, <1>2, <1>3, RowReplaced DEF TypeOK
  <1>5. /\ UNCHANGED <<calls, closed, store, life, answered, results, engine, admitted, noted, session, seed,
                       subject, turns, looked, writing, history>>
        /\ counting' = [counting EXCEPT ![a] = @ \ {i}]
        /\ current' = IF old.status = "running" THEN [current EXCEPT ![a] = 0] ELSE current
    <2>1. UNCHANGED <<calls, closed, store, life, answered, results, engine, noted, session, seed,
                      subject, turns, looked, writing, history>>
      BY Zenon DEF ExchangeEnds
    <2>2. UNCHANGED admitted BY <2>1 DEF engine
    <2>3. counting' = [counting EXCEPT ![a] = @ \ {i}]
      BY DEF ExchangeEnds
    <2>4. current' = IF old.status = "running" THEN [current EXCEPT ![a] = 0] ELSE current
      BY DEF ExchangeEnds
    <2> QED BY <2>1, <2>2, <2>3, <2>4
  <1>6. current' \in [Actor -> Nat] /\ \A b \in Actor : current'[b] <= admitted[b]
    BY <1>5 DEF TypeOK, EngineType
  <1>7. noted' \in [Actor -> {"none", "pure", "world"}]
    <2>1. noted' = noted BY <1>5
    <2> QED BY <2>1 DEF TypeOK, EngineType
  <1>8. JournalType' /\ EngineType'
    BY <1>4, <1>5, <1>6, <1>7, RowsReplacedType
  <1>9. DriverType' BY <1>5 DEF TypeOK, DriverType
  <1>10. HistoryType' BY <1>5 DEF TypeOK, HistoryType, history
  <1> QED BY <1>8, <1>9, <1>10 DEF TypeOK

LEMMA NudgeType ==
  ASSUME TypeOK, NEW a \in Actor, NEW i \in 1..MaxAsks, Nudge(a, i)
  PROVE  TypeOK'
  <1> USE DEF TypeOK
  <1>1. i <= admitted[a] BY DEF Nudge, DriverType
  <1>2. UNCHANGED <<disk, engine, ask, session, seed, subject, looked, writing, history>>
    BY DEF Nudge
  <1>3. /\ turns' \in [Actor -> Seq(1..MaxAsks)]
        /\ \A b \in Actor : \A j \in 1..Len(turns'[b]) : turns'[b][j] <= admitted[b]
    <2> DEFINE T == 1..MaxAsks
    <2>1. /\ turns \in [Actor -> Seq(T)] /\ i \in T
          /\ \A b \in Actor : \A j \in 1..Len(turns[b]) : turns[b][j] <= admitted[b]
          /\ turns' = [turns EXCEPT ![a] = Append(turns[a], i)]
      BY DEF Nudge, DriverType
    <2> HIDE DEF T
    <2>2. /\ Append(turns[a], i) \in Seq(T)
          /\ \A j \in 1..Len(Append(turns[a], i)) : Append(turns[a], i)[j] <= admitted[a]
      BY <1>1, <2>1, SeqAppend
    <2>3. turns' \in [Actor -> Seq(T)] BY <2>1, <2>2
    <2>4. \A b \in Actor : \A j \in 1..Len(turns'[b]) : turns'[b][j] <= admitted[b]
      BY <2>1, <2>2
    <2> QED BY <2>3, <2>4 DEF T
  <1>4. JournalType' BY <1>2 DEF JournalType, disk, journal
  <1>5. EngineType' BY <1>2 DEF EngineType, engine, ask, disk, journal
  <1>6. DriverType'
    <2>1. UNCHANGED <<admitted, session, seed, subject, looked, writing>> BY <1>2 DEF engine
    <2>2. counting' = [counting EXCEPT ![a] = @ \ {i}] BY DEF Nudge
    <2> QED BY <1>3, <2>1, <2>2 DEF DriverType
  <1>7. HistoryType' BY <1>2 DEF HistoryType, history
  <1> QED BY <1>4, <1>5, <1>6, <1>7

LEMMA TurnRejectedType ==
  ASSUME TypeOK, NEW a \in Actor, TurnRejected(a)
  PROVE  TypeOK'
  <1> DEFINE i == Head(turns[a])
  <1>1. turns[a] # <<>> BY DEF TurnRejected
  <1>2. i \in 1..Len(asks[a]) BY <1>1, TurnType
  <1>3. /\ UNCHANGED <<calls, closed, store, life, answered, results, engine, admitted, noted, session, seed,
                       subject, looked, writing, counting, history>>
        /\ turns' = [turns EXCEPT ![a] = Tail(@)]
    BY DEF TurnRejected, engine
  <1>4. JournalType' /\ EngineType'
    <2>1. CASE IsRunning(a, i)
      <3>1. Settled(a, i, "failed") BY <2>1 DEF TurnRejected
      <3> QED BY <1>2, <1>3, <3>1, SettledType
    <2>2. CASE ~IsRunning(a, i)
      <3>1. UNCHANGED <<asks, current>> BY <2>2 DEF TurnRejected
      <3> QED BY <1>3, <3>1, RowsReplacedType DEF TypeOK, JournalType, EngineType
    <2> QED BY <2>1, <2>2
  <1>5. DriverType' BY <1>1, <1>3, TurnsType DEF TypeOK, DriverType
  <1>6. HistoryType' BY <1>3 DEF TypeOK, HistoryType, history
  <1> QED BY <1>4, <1>5, <1>6 DEF TypeOK

LEMMA ResumeType == ASSUME TypeOK, Resume PROVE TypeOK'
  <1> USE DEF TypeOK
  <1>1. UNCHANGED <<asks, calls, closed, store, changed, based, saw>> /\ life' = life + 1
    BY DEF Resume, journal, history
  <1>2. JournalType'
    <2>1. /\ answered' \in [Actor -> Nat] /\ \A a \in Actor : answered'[a] <= Len(Entries[a])
          /\ results' \in [Key -> Nat]
      BY MoreType DEF Resume
    <2> QED BY <1>1, <2>1 DEF JournalType
  <1>3. EngineType'
    <2>1. table' \in BOOLEAN /\ importClosed' \in BOOLEAN /\ offer' \in [Actor -> Offers]
      BY DEF Resume, RecoverClosed, JournalType, Offers
    <2>2. imported' \in [Actor -> Import]
      BY DEF Resume, NothingUsed, Import
    <2>3. /\ admitted' = [a \in Actor |-> 0] /\ current' = [a \in Actor |-> 0]
          /\ met' = [k \in Key |-> 0] /\ cursor' = [k \in Key |-> 0]
          /\ prior' = [a \in Actor |-> {}] /\ noted' = [a \in Actor |-> "none"]
      BY DEF Resume
    <2>4. \A a \in Actor : admitted'[a] <= Len(asks'[a]) /\ current'[a] <= admitted'[a]
      BY <1>1, <2>3 DEF JournalType
    <2>5. \A k \in Key : met'[k] <= Len(calls'[k])
      <3>1. \A k \in Key : Len(calls[k]) \in Nat BY DEF JournalType
      <3> QED BY <1>1, <2>3, <3>1
    <2>6. /\ admitted' \in [Actor -> Nat] /\ current' \in [Actor -> Nat]
          /\ met' \in [Key -> Nat] /\ cursor' \in [Key -> Nat]
          /\ prior' \in [Actor -> SUBSET (1..MaxAsks)]
          /\ noted' \in [Actor -> {"none", "pure", "world"}]
      BY <2>3
    <2> QED BY <2>1, <2>2, <2>4, <2>5, <2>6 DEF EngineType
  <1>4. DriverType'
    <2>1. /\ subject' = [a \in Actor |-> 0] /\ turns' = [a \in Actor |-> <<>>]
          /\ counting' = [a \in Actor |-> {}] /\ admitted' = [a \in Actor |-> 0]
          /\ session' = [a \in Actor |-> "none"] /\ seed' = [a \in Actor |-> 0]
          /\ looked' = [a \in Actor |-> FALSE] /\ writing' = [a \in Actor |-> FALSE]
      BY DEF Resume
    <2> QED BY <2>1 DEF DriverType
  <1>5. HistoryType' BY <1>1 DEF HistoryType
  <1> QED BY <1>2, <1>3, <1>4, <1>5

LEMMA StutterType == ASSUME TypeOK, UNCHANGED vars PROVE TypeOK'
  BY DEF TypeOK, JournalType, EngineType, DriverType, HistoryType, vars, disk, journal, engine, ask,
         driver, history

LEMMA TypeStep == ASSUME TypeOK, [Next]_vars PROVE TypeOK'
  <1>1. CASE UNCHANGED vars BY <1>1, StutterType
  <1>2. CASE Resume BY <1>2, ResumeType
  <1>3. ASSUME NEW k \in Key, WorldCall(k) PROVE TypeOK' BY <1>3, WorldCallType
  <1>4. ASSUME NEW k \in Key, NEW i \in 1..MaxCalls, WorldCallEnds(k, i) PROVE TypeOK'
    BY <1>4, WorldCallEndsType
  <1>5. ASSUME NEW a \in Actor, NEW h \in Hash, AskFresh(a, h) PROVE TypeOK'
    BY <1>5, AskFreshType
  <1>6. ASSUME NEW a \in Actor,
               \/ AskRecorded(a) \/ Dispatch(a) \/ SessionReady(a) \/ StartAsk(a)
               \/ Write(a) \/ TurnResolves(a) \/ TurnRejected(a)
        PROVE TypeOK'
    BY <1>6, AskRecordedType, DispatchType, SessionReadyType, StartAskType, WriteType,
       TurnResolvesType, TurnRejectedType
  <1>7. ASSUME NEW a \in Actor, NEW i \in 1..MaxAsks,
               \/ Look(a, i) \/ StartWrite(a, i)
               \/ Submit(a, i) \/ ExchangeEnds(a, i) \/ Nudge(a, i)
        PROVE TypeOK'
    BY <1>7, LookType, StartWriteType, SubmitType, ExchangeEndsType, NudgeType
  <1> QED BY <1>1, <1>2, <1>3, <1>4, <1>5, <1>6, <1>7 DEF Next

(* The state has its type in every life of a run.                          *)
THEOREM TypeCorrect == Spec => []TypeOK
  <1>1. TypeOK /\ [Next]_vars => TypeOK'
    BY TypeStep
  <1> QED BY <1>1, InitType, PTL DEF Spec
-----------------------------------------------------------------------------
(* The cache is closed.                                                    *)

(* In a life with a table nothing is written before the journal has it     *)
(* that the cache is closed, and every such life reads it there.           *)
Kept ==
  /\ table => importClosed = closed
  /\ changed => closed
  /\ \A a \in Actor : table /\ writing[a] => closed
  /\ \A a \in Actor : HasCandidate(a) => table

LEMMA KeptStep == ASSUME TypeOK, Kept, [Next]_vars PROVE Kept'
  <1> USE DEF Kept, TypeOK, JournalType, EngineType, DriverType, HistoryType, HasCandidate
  <1>1. CASE UNCHANGED vars BY <1>1 DEF vars, disk, journal, engine, driver, history
  <1>2. CASE Resume BY <1>2 DEF Resume, RecoverClosed, journal, history
  <1>3. ASSUME NEW k \in Key, WorldCall(k) PROVE Kept'
    <2>1. /\ UNCHANGED <<table, offer, writing>>
          /\ \/ UNCHANGED <<importClosed, closed, changed>>
             \/ /\ importClosed' = TRUE /\ closed' = (closed \/ table)
                /\ changed' = (changed \/ table)
      BY <1>3 DEF WorldCall, Close, Change, driver
    <2>2. CASE UNCHANGED <<importClosed, closed, changed>> BY <2>1, <2>2
    <2>3. CASE importClosed' = TRUE /\ closed' = (closed \/ table) /\ changed' = (changed \/ table)
      BY <2>1, <2>3
    <2> QED BY <2>1, <2>2, <2>3
  <1>4. ASSUME NEW k \in Key, NEW i \in 1..MaxCalls, WorldCallEnds(k, i) PROVE Kept'
    BY <1>4 DEF WorldCallEnds, engine, driver, history
  <1>5. ASSUME NEW a \in Actor, NEW h \in Hash, AskFresh(a, h) PROVE Kept'
    BY <1>5 DEF AskFresh, driver
  <1>6. ASSUME NEW a \in Actor,
               \/ AskRecorded(a) \/ Dispatch(a) \/ SessionReady(a) \/ StartAsk(a)
               \/ Write(a) \/ TurnResolves(a) \/ TurnRejected(a)
        PROVE Kept'
    <2>1. CASE AskRecorded(a) BY <2>1 DEF AskRecorded, disk, journal, driver
    <2>2. CASE Dispatch(a) BY <2>2 DEF Dispatch, disk, journal, engine, history
    <2>3. CASE SessionReady(a) BY <2>3 DEF SessionReady, journal, engine, history
    <2>4. CASE StartAsk(a) BY <2>4 DEF StartAsk, journal, engine
    <2>5. CASE Write(a) BY <2>5 DEF Write, Change, disk, journal, engine
    <2>6. CASE TurnResolves(a) BY <2>6 DEF TurnResolves, engine, history
    <2>7. CASE TurnRejected(a) BY <2>7 DEF TurnRejected, engine, history
    <2> QED BY <1>6, <2>1, <2>2, <2>3, <2>4, <2>5, <2>6, <2>7
  <1>7. ASSUME NEW a \in Actor, NEW i \in 1..MaxAsks,
               \/ Look(a, i) \/ StartWrite(a, i)
               \/ Submit(a, i) \/ ExchangeEnds(a, i) \/ Nudge(a, i)
        PROVE Kept'
    <2>1. CASE Look(a, i) BY <2>1 DEF Look, disk, journal, engine
    <2>2. CASE StartWrite(a, i) BY <2>2 DEF StartWrite, Close
    <2>3. CASE Submit(a, i) BY <2>3 DEF Submit, engine, driver, history
    <2>4. CASE ExchangeEnds(a, i) BY <2>4 DEF ExchangeEnds, engine, history
    <2>5. CASE Nudge(a, i) BY <2>5 DEF Nudge, disk, journal, engine, history
    <2> QED BY <1>7, <2>1, <2>2, <2>3, <2>4, <2>5
  <1> QED BY <1>1, <1>2, <1>3, <1>4, <1>5, <1>6, <1>7 DEF Next

-----------------------------------------------------------------------------
(* Rows.                                                                   *)

(* What a row keeps once it is there: whether its ask is executed, and     *)
(* which one it is.  An ask that was settled stays settled.                *)
SameRows(rows, new) ==
  /\ Len(new) = Len(rows)
  /\ \A i \in 1..Len(rows) :
       /\ new[i].hash = rows[i].hash
       /\ new[i].live = rows[i].live
       /\ new[i].early = rows[i].early
       /\ new[i].status = "running" => rows[i].status = "running"

Fresh == \E a \in Actor, h \in Hash : AskFresh(a, h)

LEMMA SettledRows ==
  ASSUME TypeOK, NEW a \in Actor, NEW i \in 1..Len(asks[a]),
         NEW outcome \in {"completed", "failed"}, Settled(a, i, outcome)
  PROVE  \A b \in Actor : SameRows(asks[b], asks'[b])
  <1> DEFINE row == [asks[a][i] EXCEPT !.status = outcome, !.pure = Journaled(a, i, noted[a])]
  <1>1. asks[a][i] \in Row BY DEF TypeOK, JournalType
  <1>2. /\ row \in Row /\ row.hash = asks[a][i].hash /\ row.live = asks[a][i].live
        /\ row.early = asks[a][i].early /\ row.status # "running"
    BY <1>1 DEF Row, Journaled
  <1>3. asks' = [asks EXCEPT ![a] = [asks[a] EXCEPT ![i] = row]]
    BY DEF Settled
  <1> HIDE DEF row
  <1> QED BY <1>2, <1>3, RowReplaced DEF TypeOK, SameRows

RowsStay == \A a \in Actor : SameRows(asks[a], asks'[a])

LEMMA StepRows ==
  ASSUME TypeOK, [Next]_vars, ~Fresh
  PROVE  RowsStay
  <1>0. asks' = asks => RowsStay
    BY DEF SameRows, RowsStay
  <1>1. CASE UNCHANGED vars BY <1>0, <1>1 DEF vars, disk, journal
  <1>2. CASE Resume BY <1>0, <1>2 DEF Resume, journal
  <1>3. ASSUME NEW k \in Key, WorldCall(k) PROVE RowsStay
    BY <1>0, <1>3 DEF WorldCall
  <1>4. ASSUME NEW k \in Key, NEW i \in 1..MaxCalls, WorldCallEnds(k, i) PROVE RowsStay
    BY <1>0, <1>4 DEF WorldCallEnds
  <1>5. ASSUME NEW a \in Actor,
               AskRecorded(a) \/ Dispatch(a) \/ SessionReady(a) \/ StartAsk(a) \/ Write(a)
        PROVE RowsStay
    BY <1>0, <1>5 DEF AskRecorded, Dispatch, SessionReady, StartAsk, Write, disk, journal
  <1>6. ASSUME NEW a \in Actor, TurnRejected(a) PROVE RowsStay
    <2> DEFINE i == Head(turns[a])
    <2>1. i \in 1..Len(asks[a]) BY <1>6, TurnType DEF TurnRejected
    <2>3. asks' = asks \/ Settled(a, i, "failed") BY <1>6 DEF TurnRejected
    <2> HIDE DEF i
    <2> QED BY <1>0, <2>1, <2>3, SettledRows DEF RowsStay
  <1>7. ASSUME NEW a \in Actor, TurnResolves(a) PROVE RowsStay
    <2> DEFINE i == Head(turns[a])
               row == [asks[a][i] EXCEPT !.pure = Journaled(a, i, Counted(a))]
    <2>1. i \in 1..Len(asks[a]) /\ asks[a][i] \in Row BY <1>7, TurnType DEF TurnResolves
    <2>3. asks' = asks \/ asks' = [asks EXCEPT ![a] = [asks[a] EXCEPT ![i] = row]]
      BY <1>7 DEF TurnResolves
    <2>4. /\ row \in Row /\ row.hash = asks[a][i].hash /\ row.live = asks[a][i].live
          /\ row.early = asks[a][i].early /\ row.status = asks[a][i].status
      BY <2>1 DEF Row, Journaled
    <2> HIDE DEF i, row
    <2> QED BY <1>0, <2>1, <2>3, <2>4, RowReplaced DEF TypeOK, SameRows, RowsStay
  <1>8. ASSUME NEW a \in Actor, NEW i \in 1..MaxAsks, Look(a, i) \/ StartWrite(a, i) \/ Nudge(a, i)
        PROVE RowsStay
    BY <1>0, <1>8 DEF Look, StartWrite, Nudge, disk, journal
  <1>9. ASSUME NEW a \in Actor, NEW i \in 1..MaxAsks, Submit(a, i) PROVE RowsStay
    BY <1>9, WorksType, SettledRows DEF Submit, RowsStay
  <1>10. ASSUME NEW a \in Actor, NEW i \in 1..MaxAsks, ExchangeEnds(a, i) PROVE RowsStay
    <2> DEFINE old == asks[a][i]
               outcome == IF old.status # "running" THEN old.status
                          ELSE IF old.hash \in Typed THEN "failed" ELSE "completed"
               row == [old EXCEPT !.status = outcome,
                                  !.pure = IF old.status = "running"
                                           THEN Journaled(a, i, noted[a]) ELSE old.pure,
                                  !.boundary = old.boundary \/ BoundaryFits(a, i)]
    <2>1. i \in 1..Len(asks[a]) /\ old \in Row BY <1>10, CountingType DEF ExchangeEnds
    <2>2. /\ row \in Row /\ row.hash = old.hash /\ row.live = old.live
          /\ row.early = old.early /\ row.status # "running"
      BY <2>1 DEF Row, Journaled, BoundaryFits
    <2>3. asks' = [asks EXCEPT ![a] = [asks[a] EXCEPT ![i] = row]]
      BY <1>10 DEF ExchangeEnds
    <2> HIDE DEF row
    <2> QED BY <2>1, <2>2, <2>3, RowReplaced DEF TypeOK, SameRows, RowsStay
  <1>11. ASSUME NEW a \in Actor,
                \/ AskRecorded(a) \/ Dispatch(a) \/ SessionReady(a) \/ StartAsk(a)
                \/ Write(a) \/ TurnResolves(a) \/ TurnRejected(a)
         PROVE RowsStay
    BY <1>5, <1>6, <1>7, <1>11
  <1>12. ASSUME NEW a \in Actor, NEW i \in 1..MaxAsks,
                \/ Look(a, i) \/ StartWrite(a, i)
                \/ Submit(a, i) \/ ExchangeEnds(a, i) \/ Nudge(a, i)
         PROVE RowsStay
    BY <1>8, <1>9, <1>10, <1>12
  <1>13. ASSUME NEW a \in Actor, NEW h \in Hash, AskFresh(a, h) PROVE RowsStay
    BY <1>13 DEF Fresh
  <1> QED BY <1>1, <1>2, <1>3, <1>4, <1>11, <1>12, <1>13 DEF Next

(* What AskFresh writes.                                                   *)
LEMMA FreshRows ==
  ASSUME TypeOK, Kept, NEW a \in Actor, NEW h \in Hash, AskFresh(a, h)
  PROVE  \E row \in Row :
           /\ asks' = [asks EXCEPT ![a] = Append(asks[a], row)]
           /\ row.hash = h
           /\ admitted[a] = Len(asks[a]) /\ admitted' = [admitted EXCEPT ![a] = Len(asks[a]) + 1]
           /\ HasCandidate(a) =>
                /\ row = IF Hit(a, Offered(a), imported[a], Len(asks[a]), h, ~closed)
                         THEN CachedRow(a, Len(asks[a]), h) ELSE LiveRow(h)
                /\ imported' = [imported EXCEPT
                                  ![a] = Take(a, Offered(a), imported[a], Len(asks[a]), h, ~closed)]
           /\ ~HasCandidate(a) => row = LiveRow(h) /\ imported' = imported
  <1> DEFINE seq == admitted[a]
             hit == HasCandidate(a) /\ Hit(a, Offered(a), imported[a], seq, h, ~closed)
             row == IF hit THEN CachedRow(a, seq, h) ELSE LiveRow(h)
  <1>1. seq = Len(asks[a]) /\ seq \in Nat /\ imported \in [Actor -> Import]
    BY DEF AskFresh, TypeOK, EngineType
  <1>2. row \in Row /\ row.hash = h
    <2>1. CASE hit
      <3>1. seq + 1 \in 1..Len(Entries[a])
        BY <1>1, <2>1 DEF Hit, Matches, Offered, TypeOK, JournalType
      <3>2. Entries[a][seq + 1] \in Entry BY <3>1, ImportAssumption
      <3> QED BY <2>1, <3>2 DEF CachedRow, Row, Entry
    <2>2. CASE ~hit
      BY <2>2 DEF LiveRow, Row, TypeOK, JournalType
    <2> QED BY <2>1, <2>2
  <1>3. HasCandidate(a) => importClosed = closed BY DEF Kept
  <1>4. /\ asks' = [asks EXCEPT ![a] = Append(asks[a], row)]
        /\ admitted' = [admitted EXCEPT ![a] = seq + 1]
    <2>1. /\ asks' = [asks EXCEPT ![a] = Append(asks[a],
                        IF HasCandidate(a) /\ Hit(a, Offered(a), imported[a], seq, h, ~importClosed)
                        THEN CachedRow(a, seq, h) ELSE LiveRow(h))]
          /\ admitted' = [admitted EXCEPT ![a] = seq + 1]
      BY Zenon DEF AskFresh
    <2>2. CASE HasCandidate(a) BY <1>3, <2>1, <2>2
    <2>3. CASE ~HasCandidate(a) BY <2>1, <2>3
    <2> QED BY <2>2, <2>3
  <1>5. HasCandidate(a) =>
          imported' = [imported EXCEPT ![a] = Take(a, Offered(a), imported[a], seq, h, ~closed)]
    <2>1. imported' = [imported EXCEPT ![a] =
                         IF HasCandidate(a) THEN Take(a, Offered(a), imported[a], seq, h, ~importClosed)
                         ELSE imported[a]]
      BY Zenon DEF AskFresh
    <2> QED BY <1>3, <2>1
  <1>6. ~HasCandidate(a) => imported' = imported
    BY <1>1 DEF AskFresh
  <1>7. /\ HasCandidate(a) => row = IF Hit(a, Offered(a), imported[a], seq, h, ~closed)
                                    THEN CachedRow(a, seq, h) ELSE LiveRow(h)
        /\ ~HasCandidate(a) => row = LiveRow(h)
    OBVIOUS
  <1> HIDE DEF row
  <1> QED BY <1>1, <1>2, <1>4, <1>5, <1>6, <1>7
-----------------------------------------------------------------------------
(* Nothing stale.                                                          *)

LEMMA NoStaleAsk ==
  ASSUME TypeOK, Kept, [Next]_vars, changed, NEW a \in Actor,
         NEW i \in DOMAIN asks'[a] \ DOMAIN asks[a]
  PROVE  asks'[a][i].live \/ asks'[a][i].pure
  <1>1. DOMAIN asks[a] = 1..Len(asks[a]) /\ asks \in [Actor -> Seq(Row)]
    BY DEF TypeOK, JournalType
  <1>2. Fresh
    <2> SUFFICES ASSUME ~Fresh PROVE FALSE
      OBVIOUS
    <2>1. Len(asks'[a]) = Len(asks[a]) BY StepRows DEF SameRows, RowsStay
    <2>2. asks'[a] \in Seq(Row)
      <3>1. TypeOK' BY TypeStep
      <3> QED BY <3>1 DEF TypeOK, JournalType
    <2>3. DOMAIN asks'[a] = 1..Len(asks'[a]) BY <2>2
    <2> QED BY <1>1, <2>1, <2>3
  <1>3. PICK b \in Actor, h \in Hash : AskFresh(b, h) BY <1>2 DEF Fresh
  <1>4. PICK row \in Row :
          /\ asks' = [asks EXCEPT ![b] = Append(asks[b], row)]
          /\ HasCandidate(b) =>
               row = IF Hit(b, Offered(b), imported[b], Len(asks[b]), h, ~closed)
                     THEN CachedRow(b, Len(asks[b]), h) ELSE LiveRow(h)
          /\ ~HasCandidate(b) => row = LiveRow(h)
    BY <1>3, FreshRows
  <1>5. a = b /\ i = Len(asks[a]) + 1
    <2>1. asks'[b] = Append(asks[b], row) /\ (a # b => asks'[a] = asks[a])
      BY <1>1, <1>4
    <2>2. a = b BY <2>1
    <2>3. DOMAIN Append(asks[b], row) = 1..(Len(asks[b]) + 1)
      BY <1>1
    <2>4. i \in 1..(Len(asks[a]) + 1) /\ i \notin 1..Len(asks[a]) BY <1>1, <2>1, <2>2, <2>3
    <2>5. Len(asks[a]) \in Nat BY <1>1
    <2> QED BY <2>2, <2>4, <2>5
  <1>6. asks'[a][i] = row
    BY <1>1, <1>4, <1>5, SeqAppend
  <1>7. row.live \/ row.pure
    <2>1. CASE HasCandidate(b) /\ Hit(b, Offered(b), imported[b], Len(asks[b]), h, ~closed)
      BY <1>4, <2>1 DEF Hit, CachedRow, Kept
    <2>2. CASE ~(HasCandidate(b) /\ Hit(b, Offered(b), imported[b], Len(asks[b]), h, ~closed))
      BY <1>4, <2>2 DEF LiveRow
    <2> QED BY <2>1, <2>2
  <1> QED BY <1>6, <1>7

LEMMA NoStaleCall ==
  ASSUME TypeOK, Kept, [Next]_vars, changed, NEW k \in Key, NEW i \in DOMAIN calls'[k],
         calls'[k][i].record # 0
  PROVE  i \in DOMAIN calls[k] /\ calls[k][i].record # 0
  <1> DEFINE WRow == [done: BOOLEAN, record: Nat]
  <1>1. calls \in [Key -> Seq(WRow)]
    BY DEF TypeOK, JournalType
  <1>2. CASE calls' = calls BY <1>2
  <1>3. ASSUME NEW l \in Key, WorldCall(l), calls' # calls
        PROVE  i \in DOMAIN calls[k] /\ calls[k][i].record # 0
    <2> DEFINE m == met[l] + 1
               row == [done |-> FALSE, record |-> 0]
    <2>1. calls' = [calls EXCEPT ![l] = Put(calls[l], m, row)]
      <3>1. ~(table /\ ~importClosed)
        <4>1. closed BY Zenon DEF Kept
        <4>2. table \in BOOLEAN /\ importClosed \in BOOLEAN /\ closed \in BOOLEAN
          BY DEF TypeOK, JournalType, EngineType
        <4>3. table => importClosed = closed BY Zenon DEF Kept
        <4> QED BY <4>1, <4>2, <4>3
      <3> QED BY <1>3, <3>1, Zenon DEF WorldCall
    <2>2. row.record = 0 /\ row \in WRow OBVIOUS
    <2>3. m \in Nat /\ m <= Len(calls[l]) + 1 /\ m >= 1
      BY DEF TypeOK, EngineType
    <2> HIDE DEF row, WRow, m
    <2>4. CASE k # l BY <1>1, <2>1, <2>4
    <2>5. CASE k = l /\ m \in DOMAIN calls[l]
      <3>1. calls'[k] = [calls[k] EXCEPT ![m] = row] BY <1>1, <2>1, <2>5 DEF Put
      <3> QED BY <1>1, <2>2, <2>5, <3>1
    <2>6. CASE k = l /\ m \notin DOMAIN calls[l]
      <3>1. calls'[k] = Append(calls[k], row) BY <1>1, <2>1, <2>6 DEF Put
      <3>2. DOMAIN calls[k] = 1..Len(calls[k]) /\ Len(calls[k]) \in Nat
        BY <1>1
      <3>3. DOMAIN calls'[k] = 1..(Len(calls[k]) + 1)
        BY <1>1, <2>2, <3>1
      <3>4. \A j \in 1..Len(calls[k]) : calls'[k][j] = calls[k][j]
        BY <1>1, <2>2, <3>1, SeqAppend
      <3>5. calls'[k][Len(calls[k]) + 1] = row
        BY <1>1, <2>2, <3>1, SeqAppend
      <3>6. i # Len(calls[k]) + 1 BY <2>2, <3>5
      <3> QED BY <3>2, <3>3, <3>4, <3>6
    <2> QED BY <2>4, <2>5, <2>6
  <1>4. ASSUME NEW l \in Key, NEW m \in 1..MaxCalls, WorldCallEnds(l, m)
        PROVE  i \in DOMAIN calls[k] /\ calls[k][i].record # 0
    <2> DEFINE row == [calls[l][m] EXCEPT !.done = TRUE]
    <2>1. calls' = [calls EXCEPT ![l] = [calls[l] EXCEPT ![m] = row]]
      BY <1>4 DEF WorldCallEnds
    <2>2. m \in 1..Len(calls[l])
      BY <1>4, RunAssumption DEF WorldCallEnds, TypeOK, JournalType, EngineType
    <2>3. row.record = calls[l][m].record
      <3>1. calls[l][m] \in WRow
        <4> HIDE DEF WRow
        <4> QED BY <1>1, <2>2
      <3> QED BY <3>1
    <2> HIDE DEF row, WRow
    <2> QED BY <1>1, <2>1, <2>2, <2>3
  <1>5. CASE UNCHANGED vars BY <1>2, <1>5 DEF vars, disk, journal
  <1>6. CASE Resume BY <1>2, <1>6 DEF Resume, journal
  <1>7. CASE \E a \in Actor, h \in Hash : AskFresh(a, h) BY <1>2, <1>7 DEF AskFresh
  <1>8. ASSUME NEW a \in Actor,
               \/ AskRecorded(a) \/ Dispatch(a) \/ SessionReady(a) \/ StartAsk(a)
               \/ Write(a) \/ TurnResolves(a) \/ TurnRejected(a)
        PROVE calls' = calls
    BY <1>8 DEF AskRecorded, Dispatch, SessionReady, StartAsk, Write, TurnResolves, TurnRejected,
       disk, journal
  <1>9. ASSUME NEW a \in Actor, NEW j \in 1..MaxAsks,
               \/ Look(a, j) \/ StartWrite(a, j)
               \/ Submit(a, j) \/ ExchangeEnds(a, j) \/ Nudge(a, j)
        PROVE calls' = calls
    BY <1>9 DEF Look, StartWrite, Submit, ExchangeEnds, Nudge, disk, journal
  <1> HIDE DEF WRow
  <1> QED BY <1>2, <1>3, <1>4, <1>5, <1>6, <1>7, <1>8, <1>9 DEF Next

(* Whatever the interruptions and whatever the tables of the lives, no     *)
(* answer for which the predecessor looked at the world and no result of a *)
(* world call is used after a write that was made with a table.            *)
THEOREM NothingStaleUsed == Spec => NothingStale
  <1>1. Init => Kept
    BY DEF Init, Kept, HasCandidate
  <1>2. TypeOK /\ Kept /\ [Next]_vars => Kept'
    BY KeptStep
  <1>3. TypeOK /\ Kept /\ [Next]_vars =>
          [changed =>
             /\ \A a \in Actor : \A i \in DOMAIN asks'[a] \ DOMAIN asks[a] :
                  asks'[a][i].live \/ asks'[a][i].pure
             /\ \A k \in Key : \A i \in DOMAIN calls'[k] :
                  calls'[k][i].record # 0 => i \in DOMAIN calls[k] /\ calls[k][i].record # 0]_vars
    BY NoStaleAsk, NoStaleCall
  <1> QED BY <1>1, <1>2, <1>3, TypeCorrect, PTL DEF Spec, NothingStale
-----------------------------------------------------------------------------
(* The use of a candidate.                                                 *)

(* What the first n rows say about the use of a candidate: the answers     *)
(* before the first executed ask were taken from it, and nothing after.    *)
Follows(a, c, rows, st, n) ==
  \/ /\ \A i \in 1..n : ~rows[i].live
     /\ st = [consumed |-> n, diverged |-> FALSE, carried |-> FALSE]
  \/ \E k \in 1..n :
       /\ rows[k].live
       /\ \A i \in 1..(k - 1) : ~rows[i].live
       /\ st = [consumed |-> k - 1,
                diverged |-> TRUE,
                carried  |-> /\ rows[k].early
                             /\ c.carry
                             /\ k - 1 = c.answers
                             /\ NextHash(a, k - 1) = rows[k].hash]

(* An ask that was not executed was answered as the predecessor had        *)
(* answered it, as were all before it.                                     *)
RowsFit(a, rows, n) ==
  \A i \in 1..Len(rows) :
    /\ rows[i].status = "running" => rows[i].live
    /\ ~rows[i].live =>
         /\ i <= n
         /\ Entries[a][i].hash = rows[i].hash
         /\ \A j \in 1..i : ~rows[j].live

UseInv ==
  \A a \in Actor :
    /\ RowsFit(a, asks[a], answered[a])
    /\ HasCandidate(a) => Follows(a, Offered(a), asks[a], imported[a], admitted[a])
    /\ ~HasCandidate(a) => imported[a] = NothingUsed

LEMMA UsedUpTo ==
  ASSUME NEW st \in Import, NEW n \in Nat, ~st.diverged, ~st.carried
  PROVE  [st EXCEPT !.consumed = n] = [consumed |-> n, diverged |-> FALSE, carried |-> FALSE]
  <1> DEFINE new == [st EXCEPT !.consumed = n]
  <1>1. new \in Import /\ new.consumed = n /\ ~new.diverged /\ ~new.carried
    BY DEF Import
  <1>2. \A x \in Import : x.consumed = n /\ ~x.diverged /\ ~x.carried =>
          x = [consumed |-> n, diverged |-> FALSE, carried |-> FALSE]
    BY DEF Import
  <1> QED BY <1>1, <1>2

LEMMA FollowsSame ==
  ASSUME NEW a \in Actor, NEW c, NEW rows \in Seq(Row), NEW new \in Seq(Row), NEW st \in Import, NEW n \in Nat,
         n <= Len(rows), n <= Len(new), Follows(a, c, rows, st, n),
         \A i \in 1..n : /\ new[i].live = rows[i].live
                         /\ new[i].early = rows[i].early
                         /\ new[i].hash = rows[i].hash
  PROVE  Follows(a, c, new, st, n)
  <1>1. CASE /\ \A i \in 1..n : ~rows[i].live
             /\ st = [consumed |-> n, diverged |-> FALSE, carried |-> FALSE]
    BY <1>1 DEF Follows
  <1>2. ASSUME NEW k \in 1..n,
               /\ rows[k].live
               /\ \A i \in 1..(k - 1) : ~rows[i].live
               /\ st = [consumed |-> k - 1,
                        diverged |-> TRUE,
                        carried  |-> /\ rows[k].early
                                     /\ c.carry
                                     /\ k - 1 = c.answers
                                     /\ NextHash(a, k - 1) = rows[k].hash]
        PROVE Follows(a, c, new, st, n)
    <2>1. \A i \in 1..(k - 1) : ~new[i].live
      BY <1>2
    <2>2. new[k].live /\ new[k].early = rows[k].early /\ new[k].hash = rows[k].hash
      BY <1>2
    <2> QED BY <1>2, <2>1, <2>2 DEF Follows
  <1> QED BY <1>1, <1>2 DEF Follows

LEMMA FollowsDiverged ==
  ASSUME NEW a \in Actor, NEW c, NEW rows, NEW n \in Nat, NEW st, Follows(a, c, rows, st, n)
  PROVE  /\ st \in Import
         /\ st.diverged <=> \E k \in 1..n : rows[k].live
         /\ ~st.diverged => st = [consumed |-> n, diverged |-> FALSE, carried |-> FALSE]
  <1>1. CASE /\ \A i \in 1..n : ~rows[i].live
             /\ st = [consumed |-> n, diverged |-> FALSE, carried |-> FALSE]
    BY <1>1 DEF Import
  <1>2. ASSUME NEW k \in 1..n,
               /\ rows[k].live
               /\ \A i \in 1..(k - 1) : ~rows[i].live
               /\ st = [consumed |-> k - 1,
                        diverged |-> TRUE,
                        carried  |-> /\ rows[k].early
                                     /\ c.carry
                                     /\ k - 1 = c.answers
                                     /\ NextHash(a, k - 1) = rows[k].hash]
        PROVE /\ st \in Import
              /\ st.diverged /\ \E l \in 1..n : rows[l].live
    <2>1. k - 1 \in Nat OBVIOUS
    <2> QED BY <1>2, <2>1 DEF Import
  <1> QED BY <1>1, <1>2 DEF Follows

(* The next ask is the first that is executed, or one after it.            *)
LEMMA FollowsLive ==
  ASSUME NEW a \in Actor, NEW c, NEW rows \in Seq(Row), NEW n \in Nat, n + 1 <= Len(rows),
         NEW st \in Import, Follows(a, c, rows, st, n), rows[n + 1].live
  PROVE  Follows(a, c, rows,
                 IF st.diverged THEN st ELSE Diverge(a, c, st, n, rows[n + 1].hash, rows[n + 1].early),
                 n + 1)
  <1>1. CASE /\ \A i \in 1..n : ~rows[i].live
             /\ st = [consumed |-> n, diverged |-> FALSE, carried |-> FALSE]
    <2>1. /\ n + 1 \in 1..(n + 1) /\ \A i \in 1..((n + 1) - 1) : ~rows[i].live
          /\ (n + 1) - 1 = n
      BY <1>1
    <2>2. Diverge(a, c, st, n, rows[n + 1].hash, rows[n + 1].early) =
            [consumed |-> (n + 1) - 1,
             diverged |-> TRUE,
             carried  |-> /\ rows[n + 1].early
                          /\ c.carry
                          /\ (n + 1) - 1 = c.answers
                          /\ NextHash(a, (n + 1) - 1) = rows[n + 1].hash]
      <3>1. st.consumed = n /\ (n + 1) - 1 = n
        BY <1>1
      <3>2. (/\ rows[n + 1].early
             /\ c.carry
             /\ n = c.answers
             /\ n = n
             /\ NextHash(a, n) = rows[n + 1].hash) =
            (/\ rows[n + 1].early
             /\ c.carry
             /\ n = c.answers
             /\ NextHash(a, n) = rows[n + 1].hash)
        OBVIOUS
      <3> QED BY <3>1, <3>2, Zenon DEF Diverge
    <2>3. ~st.diverged BY <1>1
    <2> QED BY <2>1, <2>2, <2>3 DEF Follows
  <1>2. ASSUME NEW k \in 1..n,
               /\ rows[k].live
               /\ \A i \in 1..(k - 1) : ~rows[i].live
               /\ st = [consumed |-> k - 1,
                        diverged |-> TRUE,
                        carried  |-> /\ rows[k].early
                                     /\ c.carry
                                     /\ k - 1 = c.answers
                                     /\ NextHash(a, k - 1) = rows[k].hash]
        PROVE Follows(a, c, rows, st, n + 1) /\ st.diverged
    <2>1. k \in 1..(n + 1) OBVIOUS
    <2> QED BY <1>2, <2>1 DEF Follows
  <1> QED BY <1>1, <1>2 DEF Follows

(* The next ask was answered.                                              *)
LEMMA FollowsAnswered ==
  ASSUME NEW a \in Actor, NEW c, NEW rows \in Seq(Row), NEW n \in Nat, n + 1 <= Len(rows),
         NEW st \in Import, Follows(a, c, rows, st, n), ~rows[n + 1].live, \A i \in 1..n : ~rows[i].live
  PROVE  /\ ~st.diverged /\ st.consumed = n
         /\ Follows(a, c, rows, [st EXCEPT !.consumed = n + 1], n + 1)
  <1>1. st = [consumed |-> n, diverged |-> FALSE, carried |-> FALSE] /\ st \in Import
    BY DEF Follows, Import
  <1>2. [st EXCEPT !.consumed = n + 1] =
          [consumed |-> n + 1, diverged |-> FALSE, carried |-> FALSE]
    <2>1. ~st.diverged /\ ~st.carried /\ n + 1 \in Nat BY <1>1
    <2> QED BY <1>1, <2>1, UsedUpTo
  <1>3. \A i \in 1..(n + 1) : ~rows[i].live
    OBVIOUS
  <1> QED BY <1>1, <1>2, <1>3 DEF Follows

LEMMA FollowsNothing ==
  ASSUME NEW a, NEW c, NEW rows
  PROVE  Follows(a, c, rows, NothingUsed, 0)
  BY DEF Follows, NothingUsed

LEMMA UseInit == Init => UseInv
  <1> SUFFICES ASSUME Init, NEW a \in Actor
               PROVE  /\ RowsFit(a, asks[a], answered[a])
                      /\ Follows(a, Offered(a), asks[a], imported[a], admitted[a])
                      /\ imported[a] = NothingUsed
    BY DEF UseInv
  <1>1. Len(asks[a]) = 0 /\ admitted[a] = 0 /\ imported[a] = NothingUsed
    BY DEF Init
  <1>2. RowsFit(a, asks[a], answered[a]) BY <1>1 DEF RowsFit
  <1> QED BY <1>1, <1>2, FollowsNothing

(* Where the rows stay, so does what they say of the use; and the rows fit *)
(* a predecessor that has answered more.                                   *)
LEMMA UseKept ==
  ASSUME TypeOK, TypeOK', UseInv, RowsStay, NEW a \in Actor, answered[a] <= answered'[a]
  PROVE  /\ RowsFit(a, asks'[a], answered'[a])
         /\ HasCandidate(a) => Follows(a, Offered(a), asks'[a], imported[a], admitted[a])
  <1>1. /\ asks[a] \in Seq(Row) /\ asks'[a] \in Seq(Row)
        /\ imported[a] \in Import /\ answered[a] \in Nat /\ answered'[a] \in Nat
        /\ SameRows(asks[a], asks'[a]) /\ admitted[a] \in Nat /\ admitted[a] <= Len(asks[a])
    BY DEF TypeOK, JournalType, EngineType, RowsStay
  <1>2. RowsFit(a, asks[a], answered[a]) BY DEF UseInv
  <1>3. RowsFit(a, asks'[a], answered'[a])
    <2> DEFINE rows == asks[a]
               new == asks'[a]
    <2> SUFFICES ASSUME NEW i \in 1..Len(new)
                 PROVE  /\ new[i].status = "running" => new[i].live
                        /\ ~new[i].live =>
                             /\ i <= answered'[a]
                             /\ Entries[a][i].hash = new[i].hash
                             /\ \A j \in 1..i : ~new[j].live
      BY DEF RowsFit
    <2>1. /\ Len(new) = Len(rows) /\ Len(rows) \in Nat
          /\ \A j \in 1..Len(rows) :
               /\ new[j].hash = rows[j].hash
               /\ new[j].live = rows[j].live
               /\ new[j].status = "running" => rows[j].status = "running"
      BY <1>1 DEF SameRows
    <2>2. \A j \in 1..Len(rows) :
            /\ rows[j].status = "running" => rows[j].live
            /\ ~rows[j].live =>
                 /\ j <= answered[a]
                 /\ Entries[a][j].hash = rows[j].hash
                 /\ \A l \in 1..j : ~rows[l].live
      BY <1>2 DEF RowsFit
    <2> HIDE DEF rows, new
    <2>3. \A j \in 1..i : j \in 1..Len(rows)
      BY <2>1
    <2>4. i \in 1..Len(rows) /\ (i <= answered[a] => i <= answered'[a])
      BY <1>1, <2>1
    <2> QED BY <2>1, <2>2, <2>3, <2>4
  <1>4. ASSUME HasCandidate(a)
        PROVE  Follows(a, Offered(a), asks'[a], imported[a], admitted[a])
    <2>1. Follows(a, Offered(a), asks[a], imported[a], admitted[a]) BY <1>4 DEF UseInv
    <2>2. Len(asks[a]) \in Nat /\ admitted[a] <= Len(asks'[a])
      BY <1>1 DEF SameRows
    <2>3. \A i \in 1..admitted[a] : /\ asks'[a][i].live = asks[a][i].live
                                    /\ asks'[a][i].early = asks[a][i].early
                                    /\ asks'[a][i].hash = asks[a][i].hash
      BY <1>1, <2>2 DEF SameRows
    <2> DEFINE c == Offered(a)
    <2> HIDE DEF c
    <2> QED BY <1>1, <2>1, <2>2, <2>3, FollowsSame DEF c
  <1> QED BY <1>3, <1>4

(* The use after a recorded ask.                                           *)
LEMMA ReconcileFollows ==
  ASSUME NEW a \in Actor, NEW c \in Candidate, NEW rows \in Seq(Row), NEW n \in Nat,
         n + 1 <= Len(rows), NEW st \in Import, Follows(a, c, rows, st, n),
         RowsFit(a, rows, c.answers)
  PROVE  Follows(a, c, rows,
                 Reconcile(a, c, st, n, rows[n + 1].hash, rows[n + 1].live, rows[n + 1].early),
                 n + 1)
  <1> DEFINE row == rows[n + 1]
  <1>1. CASE row.live
    <2>1. Reconcile(a, c, st, n, row.hash, row.live, row.early) =
            IF st.diverged THEN st ELSE Diverge(a, c, st, n, row.hash, row.early)
      BY <1>1 DEF Reconcile
    <2> QED BY <1>1, <2>1, FollowsLive
  <1>2. CASE ~row.live
    <2>1. /\ n + 1 \in 1..Len(rows) /\ n + 1 <= c.answers /\ Entries[a][n + 1].hash = row.hash
          /\ \A j \in 1..(n + 1) : ~rows[j].live
      BY <1>2 DEF RowsFit
    <2>2. \A j \in 1..n : j \in 1..(n + 1)
      OBVIOUS
    <2>3. c.answers \in Nat BY DEF Candidate
    <2>4. Matches(a, c, n, row.hash) BY <2>1, <2>3 DEF Matches
    <2>5. /\ ~st.diverged /\ st.consumed = n
          /\ Follows(a, c, rows, [st EXCEPT !.consumed = n + 1], n + 1)
      BY <1>2, <2>1, <2>2, FollowsAnswered
    <2>6. Reconcile(a, c, st, n, row.hash, row.live, row.early) = [st EXCEPT !.consumed = n + 1]
      <3> HIDE DEF row
      <3> QED BY <1>2, <2>4, <2>5 DEF Reconcile
    <2> QED BY <2>5, <2>6
  <1> QED BY <1>1, <1>2

LEMMA UseRecorded ==
  ASSUME TypeOK, TypeOK', Kept, UseInv, RowsStay, NEW a \in Actor, AskRecorded(a)
  PROVE  UseInv'
  <1> DEFINE n == admitted[a]
             row == asks[a][n + 1]
             st == imported[a]
             new == Reconcile(a, Offered(a), st, n, row.hash, row.live, row.early)
  <1>1. /\ n \in Nat /\ n + 1 <= Len(asks[a]) /\ asks[a] \in Seq(Row) /\ st \in Import
        /\ UNCHANGED <<asks, answered, offer>>
        /\ admitted' = [admitted EXCEPT ![a] = n + 1]
        /\ imported' = [imported EXCEPT ![a] = IF HasCandidate(a) THEN new ELSE st]
        /\ imported \in [Actor -> Import] /\ admitted \in [Actor -> Nat]
    BY DEF AskRecorded, LiveBefore, TypeOK, EngineType, JournalType, disk, journal
  <1>2. HasCandidate(a) => Follows(a, Offered(a), asks[a], new, n + 1)
    <2> SUFFICES ASSUME HasCandidate(a) PROVE Follows(a, Offered(a), asks[a], new, n + 1)
      OBVIOUS
    <2> DEFINE c == Offered(a)
    <2>1. Follows(a, c, asks[a], st, n) /\ RowsFit(a, asks[a], c.answers)
      BY DEF UseInv, Offered
    <2>2. c \in Candidate BY OfferedType DEF TypeOK
    <2> HIDE DEF c
    <2>3. Follows(a, c, asks[a],
                  Reconcile(a, c, st, n, asks[a][n + 1].hash, asks[a][n + 1].live,
                            asks[a][n + 1].early), n + 1)
      BY <1>1, <2>1, <2>2, ReconcileFollows
    <2> QED BY <2>3 DEF c
  <1> HIDE DEF new
  <1>3. /\ imported'[a] = (IF HasCandidate(a) THEN new ELSE imported[a]) /\ admitted'[a] = n + 1
        /\ \A b \in Actor \ {a} : imported'[b] = imported[b] /\ admitted'[b] = admitted[b]
    BY <1>1
  <1>4. ASSUME NEW b \in Actor
        PROVE  /\ RowsFit(b, asks'[b], answered'[b])
               /\ HasCandidate(b)' => Follows(b, Offered(b)', asks'[b], imported'[b], admitted'[b])
               /\ ~HasCandidate(b)' => imported'[b] = NothingUsed
    <2>1. (HasCandidate(b)' <=> HasCandidate(b)) /\ Offered(b)' = Offered(b)
      BY <1>1 DEF HasCandidate, Offered
    <2>2. CASE b = a BY <1>1, <1>2, <1>3, <2>1, <2>2 DEF UseInv
    <2>3. CASE b # a BY <1>1, <1>3, <2>1, <2>3 DEF UseInv
    <2> QED BY <2>2, <2>3
  <1> QED BY <1>4 DEF UseInv

(* The use after a fresh ask, and its row: an answer taken from the        *)
(* candidate, or an ask that is executed.                                  *)
LEMMA TakeFollows ==
  ASSUME NEW a \in Actor, NEW c \in Candidate, NEW rows \in Seq(Row), NEW st \in Import,
         NEW h \in Hash, NEW open \in BOOLEAN, NEW row \in Row, row.hash = h,
         Follows(a, c, rows, st, Len(rows)), RowsFit(a, rows, c.answers),
         IF Hit(a, c, st, Len(rows), h, open) THEN ~row.live /\ row.status = "completed"
                                              ELSE row.live /\ row.early = open
  PROVE  /\ RowsFit(a, Append(rows, row), c.answers)
         /\ Follows(a, c, Append(rows, row), Take(a, c, st, Len(rows), h, open), Len(rows) + 1)
  <1> DEFINE n == Len(rows)
             all == Append(rows, row)
             new == Take(a, c, st, n, h, open)
             hit == Hit(a, c, st, n, h, open)
  <1>1. /\ all \in Seq(Row) /\ Len(all) = n + 1 /\ all[n + 1] = row /\ n \in Nat
        /\ \A i \in 1..n : all[i] = rows[i]
        /\ n <= Len(all) /\ n <= Len(rows) /\ n + 1 <= Len(all)
    BY SeqAppend
  <1>2. Follows(a, c, all, st, n)
    <2> HIDE DEF all, n
    <2>1. \A i \in 1..n : /\ all[i].live = rows[i].live
                          /\ all[i].early = rows[i].early
                          /\ all[i].hash = rows[i].hash
      BY <1>1
    <2>2. Follows(a, c, rows, st, n) BY DEF n
    <2> QED BY <1>1, <2>1, <2>2, FollowsSame
  <1>3. hit => /\ new = [st EXCEPT !.consumed = n + 1] /\ ~st.diverged
               /\ n + 1 <= c.answers /\ Entries[a][n + 1].hash = h
    <2>1. c.answers \in Nat BY DEF Candidate
    <2> QED BY <1>1, <2>1 DEF Take, Hit, Matches
  <1>4. ~hit => new = IF st.diverged THEN st ELSE Diverge(a, c, st, n, row.hash, row.early)
    BY DEF Take
  <1>5. hit => ~row.live /\ row.status = "completed"
    OBVIOUS
  <1>6. ~hit => row.live
    OBVIOUS
  <1>7. hit => \A i \in 1..n : ~all[i].live
    <2> HIDE DEF all, n, hit, new
    <2> QED BY <1>1, <1>2, <1>3, FollowsDiverged
  <1>8. Follows(a, c, all, new, n + 1)
    <2> HIDE DEF all, n, hit, new
    <2>1. CASE hit
      <3>1. Follows(a, c, all, [st EXCEPT !.consumed = n + 1], n + 1)
        BY <1>1, <1>2, <1>5, <1>7, <2>1, FollowsAnswered
      <3> QED BY <1>3, <2>1, <3>1
    <2>2. CASE ~hit
      <3>1. all[n + 1].live BY <1>1, <1>6, <2>2
      <3>2. Follows(a, c, all, IF st.diverged THEN st
                               ELSE Diverge(a, c, st, n, all[n + 1].hash, all[n + 1].early), n + 1)
        BY <1>1, <1>2, <3>1, FollowsLive
      <3> QED BY <1>1, <1>4, <2>2, <3>2
    <2> QED BY <2>1, <2>2
  <1>9. RowsFit(a, all, c.answers)
    <2> SUFFICES ASSUME NEW i \in 1..Len(all)
                 PROVE  /\ all[i].status = "running" => all[i].live
                        /\ ~all[i].live =>
                             /\ i <= c.answers
                             /\ Entries[a][i].hash = all[i].hash
                             /\ \A j \in 1..i : ~all[j].live
      BY DEF RowsFit
    <2>1. CASE i = n + 1
      <3> HIDE DEF all, n, hit, new
      <3>1. \A j \in 1..i : j \in 1..n \/ j = n + 1 BY <1>1, <2>1
      <3> QED BY <1>1, <1>3, <1>5, <1>6, <1>7, <2>1, <3>1
    <2>2. CASE i # n + 1
      <3>1. i \in 1..n /\ \A j \in 1..i : j \in 1..n BY <1>1, <2>2
      <3>2. /\ rows[i].status = "running" => rows[i].live
            /\ ~rows[i].live =>
                 /\ i <= c.answers
                 /\ Entries[a][i].hash = rows[i].hash
                 /\ \A j \in 1..i : ~rows[j].live
        BY <3>1 DEF RowsFit
      <3> HIDE DEF all, n
      <3> QED BY <1>1, <3>1, <3>2
    <2> QED BY <2>1, <2>2
  <1> QED BY <1>8, <1>9

(* Without a candidate, or after an executed ask, an ask is executed.      *)
LEMMA FreshLive ==
  ASSUME TypeOK, Kept, UseInv, NEW a \in Actor, NEW h \in Hash, AskFresh(a, h),
         \/ ~HasCandidate(a)
         \/ \E i \in 1..Len(asks[a]) : asks[a][i].live
  PROVE  asks'[a][Len(asks[a]) + 1].live
  <1>1. PICK row \in Row :
          /\ asks' = [asks EXCEPT ![a] = Append(asks[a], row)]
          /\ admitted[a] = Len(asks[a])
          /\ HasCandidate(a) =>
               row = IF Hit(a, Offered(a), imported[a], Len(asks[a]), h, ~closed)
                     THEN CachedRow(a, Len(asks[a]), h) ELSE LiveRow(h)
          /\ ~HasCandidate(a) => row = LiveRow(h)
    BY FreshRows
  <1>2. HasCandidate(a) => imported[a].diverged
    <2> SUFFICES ASSUME HasCandidate(a) PROVE imported[a].diverged
      OBVIOUS
    <2> DEFINE c == Offered(a)
    <2>1. Follows(a, c, asks[a], imported[a], admitted[a]) BY DEF UseInv
    <2>2. Len(asks[a]) \in Nat BY DEF TypeOK, JournalType
    <2> HIDE DEF c
    <2> QED BY <1>1, <2>1, <2>2, FollowsDiverged
  <1>3. row.live
    BY <1>1, <1>2 DEF Hit, LiveRow
  <1>4. asks \in [Actor -> Seq(Row)] BY DEF TypeOK, JournalType
  <1> QED BY <1>1, <1>3, <1>4, SeqAppend

LEMMA UseFresh ==
  ASSUME TypeOK, Kept, UseInv, NEW a \in Actor, NEW h \in Hash, AskFresh(a, h)
  PROVE  UseInv'
  <1> DEFINE rows == asks[a]
             n == Len(rows)
             st == imported[a]
             c == Offered(a)
             new == IF HasCandidate(a) THEN Take(a, c, st, n, h, ~closed) ELSE st
  <1>1. PICK row \in Row :
          /\ asks' = [asks EXCEPT ![a] = Append(rows, row)]
          /\ row.hash = h
          /\ admitted[a] = n /\ admitted' = [admitted EXCEPT ![a] = n + 1]
          /\ HasCandidate(a) =>
               /\ row = IF Hit(a, c, st, n, h, ~closed) THEN CachedRow(a, n, h) ELSE LiveRow(h)
               /\ imported' = [imported EXCEPT ![a] = Take(a, c, st, n, h, ~closed)]
          /\ ~HasCandidate(a) => row = LiveRow(h) /\ imported' = imported
    BY FreshRows
  <1>2. /\ rows \in Seq(Row) /\ n \in Nat /\ asks \in [Actor -> Seq(Row)]
        /\ imported \in [Actor -> Import] /\ admitted \in [Actor -> Nat]
        /\ st \in Import /\ answered[a] \in Nat
    BY DEF TypeOK, JournalType, EngineType
  <1>3. UNCHANGED <<answered, offer>>
    BY DEF AskFresh
  <1> DEFINE all == Append(rows, row)
  <1>4. ASSUME HasCandidate(a)
        PROVE  RowsFit(a, all, answered[a]) /\ Follows(a, c, all, new, n + 1)
    <2>1. c \in Candidate /\ c.answers = answered[a] BY OfferedType DEF TypeOK, Offered
    <2>2. Follows(a, c, rows, st, n) /\ RowsFit(a, rows, answered[a])
      BY <1>1, <1>4 DEF UseInv
    <2>3. IF Hit(a, c, st, n, h, ~closed) THEN ~row.live /\ row.status = "completed"
                                          ELSE row.live /\ row.early = ~closed
      BY <1>1, <1>4 DEF CachedRow, LiveRow
    <2>4. (~closed) \in BOOLEAN OBVIOUS
    <2>5. new = Take(a, c, st, n, h, ~closed) BY <1>4
    <2> DEFINE open == ~closed
    <2> HIDE DEF c, rows, st, open, new
    <2>6. /\ RowsFit(a, Append(rows, row), c.answers)
          /\ Follows(a, c, Append(rows, row), Take(a, c, st, Len(rows), h, open), Len(rows) + 1)
      <3>1. IF Hit(a, c, st, Len(rows), h, open) THEN ~row.live /\ row.status = "completed"
                                                ELSE row.live /\ row.early = open
        BY <2>3 DEF open
      <3>2. open \in BOOLEAN BY DEF open
      <3> QED BY <1>1, <1>2, <2>1, <2>2, <3>1, <3>2, TakeFollows
    <2> QED BY <2>1, <2>5, <2>6 DEF open
  <1>5. ASSUME ~HasCandidate(a)
        PROVE  RowsFit(a, all, answered[a])
    <2>1. row.live BY <1>1, <1>5 DEF LiveRow
    <2>2. /\ Len(all) = n + 1 /\ all[n + 1] = row
          /\ \A i \in 1..n : all[i] = rows[i]
      BY <1>2, SeqAppend
    <2>3. \A i \in 1..n : /\ rows[i].status = "running" => rows[i].live
                          /\ ~rows[i].live =>
                               /\ i <= answered[a]
                               /\ Entries[a][i].hash = rows[i].hash
                               /\ \A j \in 1..i : ~rows[j].live
      BY DEF UseInv, RowsFit
    <2> SUFFICES ASSUME NEW i \in 1..Len(all)
                 PROVE  /\ all[i].status = "running" => all[i].live
                        /\ ~all[i].live =>
                             /\ i <= answered[a]
                             /\ Entries[a][i].hash = all[i].hash
                             /\ \A j \in 1..i : ~all[j].live
      BY DEF RowsFit
    <2> HIDE DEF all, rows
    <2>4. CASE i = n + 1 BY <2>1, <2>2, <2>4
    <2>5. CASE i # n + 1
      <3>1. i \in 1..n /\ \A j \in 1..i : j \in 1..n BY <1>2, <2>2, <2>5
      <3> QED BY <2>2, <2>3, <3>1
    <2> QED BY <2>4, <2>5
  <1>6. ~HasCandidate(a) => new = NothingUsed
    BY DEF UseInv
  <1>7. /\ asks'[a] = all /\ imported'[a] = new /\ admitted'[a] = n + 1
        /\ \A b \in Actor \ {a} : /\ asks'[b] = asks[b]
                                  /\ imported'[b] = imported[b] /\ admitted'[b] = admitted[b]
    <2>1. HasCandidate(a) => imported' = [imported EXCEPT ![a] = new]
      BY <1>1
    <2>2. ~HasCandidate(a) => imported' = imported /\ new = imported[a]
      BY <1>1
    <2> HIDE DEF new
    <2> QED BY <1>1, <1>2, <2>1, <2>2
  <1> HIDE DEF all, n, new
  <1>8. ASSUME NEW b \in Actor
        PROVE  /\ RowsFit(b, asks'[b], answered'[b])
               /\ HasCandidate(b)' => Follows(b, Offered(b)', asks'[b], imported'[b], admitted'[b])
               /\ ~HasCandidate(b)' => imported'[b] = NothingUsed
    <2>1. (HasCandidate(b)' <=> HasCandidate(b)) /\ Offered(b)' = Offered(b)
      BY <1>3 DEF HasCandidate, Offered
    <2>2. CASE b = a BY <1>3, <1>4, <1>5, <1>6, <1>7, <2>1, <2>2
    <2>3. CASE b # a BY <1>3, <1>7, <2>1, <2>3 DEF UseInv
    <2> QED BY <2>2, <2>3
  <1> QED BY <1>8 DEF UseInv

LEMMA UseStep == ASSUME TypeOK, Kept, UseInv, [Next]_vars PROVE UseInv'
  <1>1. TypeOK' BY TypeStep
  <1>2. CASE Fresh BY <1>2, UseFresh DEF Fresh
  <1>3. CASE ~Fresh
    <2>1. RowsStay BY <1>3, StepRows
    <2>2. CASE \E a \in Actor : AskRecorded(a) BY <1>1, <2>1, <2>2, UseRecorded
    <2>3. CASE Resume
      <3>1. \A a \in Actor : /\ imported'[a] = NothingUsed /\ admitted'[a] = 0
                             /\ answered[a] <= answered'[a]
        BY <2>3, MoreType DEF Resume
      <3>2. ASSUME NEW a \in Actor
            PROVE  /\ RowsFit(a, asks'[a], answered'[a])
                   /\ Follows(a, Offered(a)', asks'[a], imported'[a], admitted'[a])
        <4>1. Follows(a, Offered(a)', asks'[a], NothingUsed, 0)
          BY FollowsNothing
        <4>2. RowsFit(a, asks'[a], answered'[a])
          BY <1>1, <2>1, <3>1, UseKept
        <4> QED BY <3>1, <4>1, <4>2
      <3> QED BY <3>1, <3>2 DEF UseInv
    <2>4. CASE ~Resume /\ ~\E a \in Actor : AskRecorded(a)
      <3>1. UNCHANGED <<imported, admitted, answered, offer>>
        <4>1. CASE UNCHANGED vars BY <4>1 DEF vars, disk, engine
        <4>2. ASSUME NEW k \in Key, WorldCall(k)
              PROVE  UNCHANGED <<imported, admitted, answered, offer>>
          BY <4>2 DEF WorldCall
        <4>3. ASSUME NEW k \in Key, NEW i \in 1..MaxCalls, WorldCallEnds(k, i)
              PROVE  UNCHANGED <<imported, admitted, answered, offer>>
          BY <4>3 DEF WorldCallEnds, engine
        <4>4. ASSUME NEW a \in Actor,
                     \/ Dispatch(a) \/ SessionReady(a) \/ StartAsk(a)
                     \/ Write(a) \/ TurnResolves(a) \/ TurnRejected(a)
              PROVE  UNCHANGED <<imported, admitted, answered, offer>>
          BY <4>4 DEF Dispatch, SessionReady, StartAsk, Write, TurnResolves, TurnRejected, engine,
             disk
        <4>5. ASSUME NEW a \in Actor, NEW i \in 1..MaxAsks,
                     \/ Look(a, i) \/ StartWrite(a, i)
                     \/ Submit(a, i) \/ ExchangeEnds(a, i) \/ Nudge(a, i)
              PROVE  UNCHANGED <<imported, admitted, answered, offer>>
          BY <4>5 DEF Look, StartWrite, Submit, ExchangeEnds, Nudge, engine, disk
        <4> QED BY <1>3, <2>4, <4>1, <4>2, <4>3, <4>4, <4>5 DEF Next, Fresh
      <3>2. ASSUME NEW a \in Actor
            PROVE  /\ RowsFit(a, asks'[a], answered'[a])
                   /\ HasCandidate(a) => Follows(a, Offered(a), asks'[a], imported[a], admitted[a])
                   /\ (HasCandidate(a)' <=> HasCandidate(a)) /\ Offered(a)' = Offered(a)
        <4>1. answered[a] <= answered'[a] BY <3>1 DEF TypeOK, JournalType
        <4> QED BY <1>1, <2>1, <3>1, <4>1, UseKept DEF HasCandidate, Offered
      <3> QED BY <3>1, <3>2 DEF UseInv
    <2> QED BY <2>2, <2>3, <2>4
  <1> QED BY <1>2, <1>3

(* The rows up to the first executed ask were answered, all others not.    *)
LEMMA FirstLive ==
  ASSUME NEW a, NEW rows, NEW m \in Nat, NEW n \in Nat, NEW k \in 1..n, Len(rows) = n,
         RowsFit(a, rows, m), rows[k].live, \A i \in 1..(k - 1) : ~rows[i].live
  PROVE  \A i \in 1..n : ~rows[i].live <=> i <= k - 1
  <1> SUFFICES ASSUME NEW i \in 1..n PROVE ~rows[i].live <=> i <= k - 1
    OBVIOUS
  <1>1. i <= k - 1 => ~rows[i].live OBVIOUS
  <1>2. ASSUME ~rows[i].live, i > k - 1 PROVE FALSE
    <2>1. \A j \in 1..i : ~rows[j].live BY <1>2 DEF RowsFit
    <2>2. k \in 1..i BY <1>2
    <2> QED BY <2>1, <2>2
  <1> QED BY <1>1, <1>2

(* Whatever the interruptions, and whatever the tables of the lives before *)
(* and of this one: once all recorded asks of an actor are admitted, the   *)
(* use of its candidate is what the rows say.                              *)
THEOREM RecoveryAlwaysExact == Spec => []RecoveryExact
  <1>1. Init => Kept
    BY DEF Init, Kept, HasCandidate
  <1>2. TypeOK /\ Kept /\ [Next]_vars => Kept'
    BY KeptStep
  <1>3. TypeOK /\ Kept /\ UseInv /\ [Next]_vars => UseInv'
    BY UseStep
  <1>4. TypeOK /\ UseInv => RecoveryExact
    <2> SUFFICES ASSUME TypeOK, UseInv, NEW a \in Actor, HasCandidate(a),
                        admitted[a] = Len(asks[a])
                 PROVE  LET c == imported[a].consumed
                        IN /\ c <= Len(asks[a])
                           /\ \A i \in DOMAIN asks[a] : ~asks[a][i].live <=> i <= c
                           /\ imported[a].diverged <=> c < Len(asks[a])
                           /\ imported[a].carried <=>
                                /\ c < Len(asks[a])
                                /\ asks[a][c + 1].early
                                /\ asks[a][c + 1].hash = NextHash(a, c)
                                /\ offer[a] = "carry" /\ c = answered[a]
      BY DEF RecoveryExact
    <2> DEFINE rows == asks[a]
               n == Len(rows)
               st == imported[a]
    <2>1. /\ n \in Nat /\ DOMAIN rows = 1..n /\ answered[a] \in Nat
          /\ Follows(a, Offered(a), rows, st, n) /\ RowsFit(a, rows, answered[a])
      BY DEF TypeOK, JournalType, UseInv
    <2> HIDE DEF rows, st
    <2>2. CASE /\ \A i \in 1..n : ~rows[i].live
               /\ st = [consumed |-> n, diverged |-> FALSE, carried |-> FALSE]
      <3>1. st.consumed = n /\ ~st.diverged /\ ~st.carried BY <2>2
      <3> QED BY <2>1, <2>2, <3>1 DEF rows, st
    <2>3. ASSUME NEW k \in 1..n,
                 /\ rows[k].live
                 /\ \A i \in 1..(k - 1) : ~rows[i].live
                 /\ st = [consumed |-> k - 1,
                          diverged |-> TRUE,
                          carried  |-> /\ rows[k].early
                                       /\ Offered(a).carry
                                       /\ k - 1 = Offered(a).answers
                                       /\ NextHash(a, k - 1) = rows[k].hash]
          PROVE  LET c == st.consumed
                 IN /\ c <= n
                    /\ \A i \in DOMAIN rows : ~rows[i].live <=> i <= c
                    /\ st.diverged <=> c < n
                    /\ st.carried <=>
                         /\ c < n
                         /\ rows[c + 1].early
                         /\ rows[c + 1].hash = NextHash(a, c)
                         /\ offer[a] = "carry" /\ c = answered[a]
      <3>1. \A i \in 1..n : ~rows[i].live <=> i <= k - 1
        BY <2>1, <2>3, FirstLive
      <3>2. Offered(a).carry = (offer[a] = "carry") /\ Offered(a).answers = answered[a]
        BY DEF Offered
      <3>3. /\ st.consumed = k - 1 /\ st.diverged /\ (k - 1) + 1 = k /\ k - 1 < n /\ k - 1 <= n
            /\ st.carried <=> /\ rows[k].early
                              /\ offer[a] = "carry"
                              /\ k - 1 = answered[a]
                              /\ NextHash(a, k - 1) = rows[k].hash
        <4> DEFINE carries == /\ rows[k].early
                              /\ Offered(a).carry
                              /\ k - 1 = Offered(a).answers
                              /\ NextHash(a, k - 1) = rows[k].hash
        <4>1. k - 1 \in Nat /\ k - 1 < n /\ k - 1 <= n /\ (k - 1) + 1 = k BY <2>1
        <4>2. carries <=> /\ rows[k].early
                          /\ offer[a] = "carry"
                          /\ k - 1 = answered[a]
                          /\ NextHash(a, k - 1) = rows[k].hash
          BY <3>2
        <4>3. st = [consumed |-> k - 1, diverged |-> TRUE, carried |-> carries] BY <2>3
        <4>4. carries \in BOOLEAN OBVIOUS
        <4> HIDE DEF carries
        <4>5. st.consumed = k - 1 /\ st.diverged /\ (st.carried <=> carries) BY <4>3, <4>4
        <4> QED BY <4>1, <4>2, <4>5
      <3> HIDE DEF n
      <3> QED BY <2>1, <3>1, <3>3
    <2> QED BY <2>1, <2>2, <2>3 DEF Follows, rows, st
  <1> QED BY <1>1, <1>2, <1>3, <1>4, UseInit, TypeCorrect, PTL DEF Spec
-----------------------------------------------------------------------------
(* The sessions.                                                           *)

(* The rows of an actor are those of one whose session began with s        *)
(* exchanges of the predecessor: as many as it was answered from, or, if   *)
(* the first ask that is executed goes on from the interrupted one, one    *)
(* more.  There is such an ask.                                            *)
Begun(a, rows, s) ==
  \E c \in 0..(Len(rows) - 1) :
    /\ rows[c + 1].live
    /\ \A i \in 1..Len(rows) : ~rows[i].live <=> i <= c
    /\ \/ s = c
       \/ s = c + 1 /\ rows[c + 1].early /\ rows[c + 1].hash = NextHash(a, c)

(* There is a session only once an ask is executed; what it is begun with  *)
(* is what the rows say, whichever of the tables it came from.             *)
SessionOf(a) ==
  /\ session[a] # "none" => IF HasCandidate(a) THEN Begun(a, asks[a], seed[a]) ELSE seed[a] = 0
  /\ session[a] = "ready" /\ HasCandidate(a) /\ ~store[a].own =>
       Begun(a, asks[a], store[a].seeded)
  /\ store[a].seeded # 0 => Begun(a, asks[a], store[a].seeded)
  /\ a \in based => store[a].own /\ Begun(a, asks[a], store[a].seeded)

SessionInv == \A a \in Actor : SessionOf(a)

LEMMA SessionInit == Init => SessionInv
  <1> SUFFICES ASSUME Init, NEW a \in Actor PROVE SessionOf(a)
    BY DEF SessionInv
  <1>1. session[a] = "none" /\ store[a].seeded = 0 /\ based = {}
    BY DEF Init
  <1> QED BY <1>1 DEF SessionOf

(* It stays so whatever becomes of the rows.                               *)
LEMMA BegunStays ==
  ASSUME TypeOK, Kept, UseInv, [Next]_vars, NEW a \in Actor, NEW s, Begun(a, asks[a], s)
  PROVE  Begun(a, asks'[a], s)
  <1> DEFINE rows == asks[a]
             new == asks'[a]
  <1>1. PICK c \in 0..(Len(rows) - 1) :
          /\ rows[c + 1].live
          /\ \A i \in 1..Len(rows) : ~rows[i].live <=> i <= c
          /\ \/ s = c
             \/ s = c + 1 /\ rows[c + 1].early /\ rows[c + 1].hash = NextHash(a, c)
    BY DEF Begun
  <1>2. rows \in Seq(Row) /\ Len(rows) \in Nat /\ c + 1 \in 1..Len(rows) /\ asks \in [Actor -> Seq(Row)]
    BY DEF TypeOK, JournalType
  <1>3. SUFFICES /\ Len(new) \in Nat /\ Len(rows) <= Len(new)
                 /\ \A i \in 1..Len(rows) : /\ new[i].live = rows[i].live
                                            /\ new[i].early = rows[i].early
                                            /\ new[i].hash = rows[i].hash
                 /\ \A i \in 1..Len(new) : i > Len(rows) => new[i].live
    <2> HIDE DEF rows, new
    <2>1. c \in 0..(Len(new) - 1) BY <1>2, <1>3
    <2>2. \A i \in 1..Len(new) : ~new[i].live <=> i <= c
      <3> SUFFICES ASSUME NEW i \in 1..Len(new) PROVE ~new[i].live <=> i <= c
        OBVIOUS
      <3>1. CASE i > Len(rows) BY <1>2, <1>3, <3>1
      <3>2. CASE i <= Len(rows)
        <4>1. i \in 1..Len(rows) BY <1>2, <3>2
        <4> QED BY <1>1, <1>3, <4>1
      <3> QED BY <1>2, <1>3, <3>1, <3>2
    <2> QED BY <1>1, <1>2, <1>3, <2>1, <2>2 DEF Begun, new
  <1>4. CASE ~Fresh
    <2>1. SameRows(rows, new) BY <1>4, StepRows DEF RowsStay
    <2> HIDE DEF rows, new
    <2> QED BY <1>2, <2>1 DEF SameRows
  <1>5. ASSUME NEW b \in Actor, NEW h \in Hash, AskFresh(b, h)
        PROVE  /\ Len(new) \in Nat /\ Len(rows) <= Len(new)
               /\ \A i \in 1..Len(rows) : new[i] = rows[i]
               /\ \A i \in 1..Len(new) : i > Len(rows) => new[i].live
    <2>1. PICK row \in Row : asks' = [asks EXCEPT ![b] = Append(asks[b], row)]
      BY <1>5, FreshRows
    <2>2. CASE b # a
      <3>1. new = rows BY <1>2, <2>1, <2>2
      <3> QED BY <1>2, <3>1
    <2>3. CASE b = a
      <3>1. new = Append(rows, row) BY <1>2, <2>1, <2>3
      <3>2. new[Len(rows) + 1].live
        BY <1>1, <1>2, <1>5, <2>3, FreshLive
      <3> HIDE DEF rows, new
      <3> QED BY <1>2, <3>1, <3>2, SeqAppend
    <2> QED BY <2>2, <2>3
  <1> QED BY <1>4, <1>5 DEF Fresh

(* The seed is asked for when an ask is executed; by then the use of the   *)
(* candidate is final.                                                     *)
LEMMA SeedFits ==
  ASSUME TypeOK, UseInv, NEW a \in Actor, Dispatch(a)
  PROVE  IF HasCandidate(a) THEN Begun(a, asks[a], Seed(Offered(a), imported[a]))
                            ELSE Seed(Offered(a), imported[a]) = 0
  <1>1. CASE ~HasCandidate(a)
    <2>1. imported[a] = NothingUsed BY <1>1 DEF UseInv
    <2> QED BY <1>1, <2>1 DEF NothingUsed, Seed
  <1>2. CASE HasCandidate(a)
    <2> DEFINE rows == asks[a]
               n == admitted[a]
               c == Offered(a)
               st == imported[a]
    <2>1. PICK i \in 1..n : IsRunning(a, i)
      BY DEF Dispatch
    <2>2. /\ rows \in Seq(Row) /\ n \in Nat /\ Len(rows) \in Nat /\ n <= Len(rows)
          /\ i \in 1..Len(rows) /\ answered[a] \in Nat
      BY DEF TypeOK, JournalType, EngineType
    <2>3. /\ RowsFit(a, rows, answered[a])
          /\ Follows(a, c, rows, st, n)
      BY <1>2 DEF UseInv
    <2>4. rows[i].live
      BY <2>1, <2>2, <2>3 DEF RowsFit, IsRunning
    <2> HIDE DEF rows, n, c, st
    <2>5. PICK k \in 1..n :
            /\ rows[k].live
            /\ \A l \in 1..(k - 1) : ~rows[l].live
            /\ st = [consumed |-> k - 1,
                     diverged |-> TRUE,
                     carried  |-> /\ rows[k].early
                                  /\ c.carry
                                  /\ k - 1 = c.answers
                                  /\ NextHash(a, k - 1) = rows[k].hash]
      BY <2>3, <2>4 DEF Follows
    <2>6. k \in 1..Len(rows) /\ k - 1 \in 0..(Len(rows) - 1) /\ (k - 1) + 1 = k
      BY <2>2
    <2>7. \A l \in 1..Len(rows) : ~rows[l].live <=> l <= k - 1
      BY <2>2, <2>3, <2>5, <2>6, FirstLive
    <2>8. \/ Seed(c, st) = k - 1
          \/ Seed(c, st) = (k - 1) + 1 /\ rows[k].early /\ rows[k].hash = NextHash(a, k - 1)
      <3>1. CASE st.carried
        <4>1. rows[k].early /\ k - 1 = c.answers /\ NextHash(a, k - 1) = rows[k].hash
          BY <2>5, <3>1
        <4> QED BY <3>1, <4>1 DEF Seed
      <3>2. CASE ~st.carried
        <4>1. st.consumed = k - 1 BY <2>5
        <4> QED BY <3>2, <4>1 DEF Seed
      <3> QED BY <3>1, <3>2
    <2>9. Begun(a, rows, Seed(c, st))
      BY <2>5, <2>6, <2>7, <2>8 DEF Begun
    <2> QED BY <1>2, <2>9 DEF rows, c, st
  <1> QED BY <1>1, <1>2

LEMMA SessionStep == ASSUME TypeOK, Kept, UseInv, SessionInv, [Next]_vars PROVE SessionInv'
  <1>1. \A a \in Actor : \A s : Begun(a, asks[a], s) => Begun(a, asks'[a], s)
    BY BegunStays
  <1>2. \A a \in Actor : SessionOf(a)
    BY DEF SessionInv
  <1>3. UNCHANGED <<session, seed, store, based, offer>> => SessionInv'
    BY <1>1, <1>2 DEF SessionInv, SessionOf, HasCandidate
  <1>4. /\ session \in [Actor -> {"none", "creating", "ready"}] /\ seed \in [Actor -> Nat]
        /\ store \in [Actor -> [seeded: Nat, own: BOOLEAN]] /\ based \subseteq Actor
    BY DEF TypeOK, DriverType, JournalType, HistoryType
  <1>5. CASE UNCHANGED vars BY <1>3, <1>5 DEF vars, disk, engine, driver, history
  <1>6. CASE Resume
    <2>1. session' = [b \in Actor |-> "none"] /\ UNCHANGED <<asks, store, based>>
      BY <1>6 DEF Resume, journal, history
    <2> QED BY <1>2, <2>1 DEF SessionInv, SessionOf
  <1>7. ASSUME NEW k \in Key, WorldCall(k) PROVE SessionInv'
    BY <1>3, <1>7 DEF WorldCall, driver
  <1>8. ASSUME NEW k \in Key, NEW i \in 1..MaxCalls, WorldCallEnds(k, i) PROVE SessionInv'
    BY <1>3, <1>8 DEF WorldCallEnds, engine, driver, history
  <1>9. ASSUME NEW a \in Actor, NEW h \in Hash, AskFresh(a, h) PROVE SessionInv'
    BY <1>3, <1>9 DEF AskFresh, driver
  <1>10. ASSUME NEW a \in Actor, Dispatch(a) PROVE SessionInv'
    <2>1. IF HasCandidate(a) THEN Begun(a, asks[a], Seed(Offered(a), imported[a]))
                             ELSE Seed(Offered(a), imported[a]) = 0
      BY <1>10, SeedFits
    <2>2. UNCHANGED <<asks, store, based, offer>> BY <1>10 DEF Dispatch, disk, journal, engine, history
    <2>3. CASE session[a] # "none"
      <3>1. UNCHANGED <<session, seed>> BY <1>10, <2>3 DEF Dispatch
      <3> QED BY <1>3, <2>2, <3>1
    <2>4. CASE session[a] = "none"
      <3>1. /\ session' = [session EXCEPT ![a] = "creating"]
            /\ seed' = [seed EXCEPT ![a] = Seed(Offered(a), imported[a])]
        BY <1>10, <2>4 DEF Dispatch
      <3>2. session'[a] = "creating" /\ seed'[a] = Seed(Offered(a), imported[a])
        BY <1>4, <3>1
      <3>3. \A b \in Actor \ {a} : session'[b] = session[b] /\ seed'[b] = seed[b]
        BY <1>4, <3>1
      <3> QED BY <1>2, <2>1, <2>2, <3>2, <3>3 DEF SessionInv, SessionOf, HasCandidate
    <2> QED BY <2>3, <2>4
  <1>11. ASSUME NEW a \in Actor, SessionReady(a) PROVE SessionInv'
    <2>1. /\ session[a] = "creating" /\ session' = [session EXCEPT ![a] = "ready"]
          /\ store' = [store EXCEPT ![a] = SeedInto(store[a], seed[a])]
          /\ UNCHANGED <<asks, seed, based, offer>>
      BY <1>11 DEF SessionReady, journal, engine, history
    <2>2. IF HasCandidate(a) THEN Begun(a, asks[a], seed[a]) ELSE seed[a] = 0
      BY <1>2, <2>1 DEF SessionOf
    <2>3. store[a].seeded \in Nat /\ seed[a] \in Nat /\ store[a] \in [seeded: Nat, own: BOOLEAN]
      BY <1>4
    <2>4. LET t == SeedInto(store[a], seed[a])
          IN /\ t.own = store[a].own
             /\ store[a].own => t.seeded = store[a].seeded
             /\ ~store[a].own => t.seeded = IF store[a].seeded < seed[a] THEN seed[a]
                                            ELSE store[a].seeded
      BY <2>3 DEF SeedInto
    <2>5. /\ store'[a] = SeedInto(store[a], seed[a]) /\ session'[a] = "ready"
          /\ \A b \in Actor \ {a} : store'[b] = store[b] /\ session'[b] = session[b]
      BY <1>4, <2>1
    <2>6. store[a].seeded # 0 => Begun(a, asks[a], store[a].seeded)
      BY <1>2 DEF SessionOf
    <2>7. /\ HasCandidate(a) /\ ~store'[a].own => Begun(a, asks[a], store'[a].seeded)
          /\ store'[a].seeded # 0 => Begun(a, asks[a], store'[a].seeded)
      <3>1. CASE store[a].own BY <2>4, <2>5, <2>6, <3>1
      <3>2. CASE ~store[a].own /\ store[a].seeded < seed[a]
        <4>1. store'[a].seeded = seed[a] /\ seed[a] # 0 BY <2>3, <2>4, <2>5, <3>2
        <4> QED BY <2>2, <4>1
      <3>3. CASE ~store[a].own /\ ~(store[a].seeded < seed[a])
        <4>1. store'[a].seeded = store[a].seeded BY <2>4, <2>5, <3>3
        <4>2. store[a].seeded = 0 => seed[a] = 0 BY <2>3, <3>3
        <4> QED BY <2>2, <2>6, <4>1, <4>2
      <3> QED BY <3>1, <3>2, <3>3
    <2>8. SessionOf(a)'
      <3>1. a \in based => store'[a].own /\ Begun(a, asks[a], store'[a].seeded)
        BY <1>2, <2>4, <2>5 DEF SessionOf
      <3> QED BY <2>1, <2>2, <2>5, <2>7, <3>1 DEF SessionOf, HasCandidate
    <2>9. \A b \in Actor \ {a} : SessionOf(b)'
      BY <1>2, <2>1, <2>5 DEF SessionOf, HasCandidate
    <2> QED BY <2>8, <2>9 DEF SessionInv
  <1>12. ASSUME NEW a \in Actor, StartAsk(a) PROVE SessionInv'
    <2>1. /\ session[a] = "ready" /\ UNCHANGED <<asks, session, seed, offer>>
          /\ store' = [store EXCEPT ![a].own = TRUE]
          /\ based' = IF ~store[a].own /\ HasCandidate(a) THEN based \cup {a} ELSE based
      BY <1>12 DEF StartAsk, journal, engine
    <2>2. /\ store'[a].seeded = store[a].seeded /\ store'[a].own
          /\ \A b \in Actor \ {a} : store'[b] = store[b]
      BY <1>4, <2>1
    <2>3. SessionOf(a)' BY <1>2, <2>1, <2>2 DEF SessionOf, HasCandidate
    <2>4. \A b \in Actor \ {a} : SessionOf(b)'
      BY <1>2, <2>1, <2>2 DEF SessionOf, HasCandidate
    <2> QED BY <2>3, <2>4 DEF SessionInv
  <1>13. ASSUME NEW a \in Actor,
               AskRecorded(a) \/ Write(a) \/ TurnResolves(a) \/ TurnRejected(a)
        PROVE SessionInv'
    BY <1>3, <1>13 DEF AskRecorded, Write, TurnResolves, TurnRejected, disk, engine, driver, history
  <1>14. ASSUME NEW a \in Actor, NEW i \in 1..MaxAsks,
                \/ Look(a, i) \/ StartWrite(a, i)
                \/ Submit(a, i) \/ ExchangeEnds(a, i) \/ Nudge(a, i)
         PROVE SessionInv'
    BY <1>3, <1>14 DEF Look, StartWrite, Submit, ExchangeEnds, Nudge, disk, engine, driver, history
  <1> QED BY <1>5, <1>6, <1>7, <1>8, <1>9, <1>10, <1>11, <1>12, <1>13, <1>14 DEF Next

(* A session that began to work with a candidate at hand holds, in every   *)
(* later life and whatever the tables, those exchanges of the predecessor  *)
(* that the script was answered from.                                      *)
THEOREM TranscriptAlwaysFits == Spec => []TranscriptFits
  <1>1. Init => Kept
    BY DEF Init, Kept, HasCandidate
  <1>2. TypeOK /\ Kept /\ [Next]_vars => Kept'
    BY KeptStep
  <1>3. TypeOK /\ Kept /\ UseInv /\ [Next]_vars => UseInv'
    BY UseStep
  <1>4. TypeOK /\ Kept /\ UseInv /\ SessionInv /\ [Next]_vars => SessionInv'
    BY SessionStep
  <1>5. TypeOK /\ SessionInv => TranscriptFits
    <2> SUFFICES ASSUME TypeOK, SessionInv, NEW a \in based
                 PROVE  \E c \in 0..Len(asks[a]) :
                          /\ \A i \in DOMAIN asks[a] : ~asks[a][i].live <=> i <= c
                          /\ \/ store[a].seeded = c
                             \/ /\ store[a].seeded = c + 1
                                /\ c < Len(asks[a])
                                /\ asks[a][c + 1].early
                                /\ asks[a][c + 1].hash = NextHash(a, c)
      BY DEF TranscriptFits
    <2>1. a \in Actor /\ Begun(a, asks[a], store[a].seeded)
      BY DEF TypeOK, HistoryType, SessionInv, SessionOf
    <2>2. DOMAIN asks[a] = 1..Len(asks[a]) /\ Len(asks[a]) \in Nat
      BY <2>1 DEF TypeOK, JournalType
    <2>3. PICK c \in 0..(Len(asks[a]) - 1) :
            /\ \A i \in 1..Len(asks[a]) : ~asks[a][i].live <=> i <= c
            /\ \/ store[a].seeded = c
               \/ /\ store[a].seeded = c + 1
                  /\ asks[a][c + 1].early /\ asks[a][c + 1].hash = NextHash(a, c)
      BY <2>1 DEF Begun
    <2>4. c \in 0..Len(asks[a]) /\ c < Len(asks[a]) BY <2>2
    <2> QED BY <2>2, <2>3, <2>4
  <1> QED BY <1>1, <1>2, <1>3, <1>4, <1>5, UseInit, SessionInit, TypeCorrect, PTL DEF Spec
-----------------------------------------------------------------------------
(* Turns and rows.                                                         *)

Has(s, x) == \E j \in 1..Len(s) : s[j] = x

Distinct(s) == \A j, k \in 1..Len(s) : s[j] = s[k] => j = k

(* The turns of a session are of different asks.                           *)
TurnInv(a) ==
  /\ Distinct(turns[a])
  /\ \A i \in counting[a] : ~Has(turns[a], i)
  /\ turns[a] # <<>> => subject[a] # 0

(* The engine executes a running ask; the driver's subject is it as long   *)
(* as it is running.                                                       *)
AskInv(a) ==
  /\ saw[a] \subseteq 1..Len(asks[a])
  /\ current[a] # 0 => IsRunning(a, current[a])
  /\ subject[a] # 0 /\ IsRunning(a, subject[a]) => current[a] = subject[a]

Pending(a, i) == Has(turns[a], i) \/ i \in counting[a]

(* An ask that is at work is the one both know of, and has no boundary.    *)
WorkInv(a, i) ==
  /\ IsRunning(a, i) => ~asks[a][i].boundary
  /\ Pending(a, i) => ~asks[a][i].boundary
  /\ Pending(a, i) /\ IsRunning(a, i) => current[a] = i /\ subject[a] = i

(* Who knows that the world was looked at for an ask.  When nobody does,   *)
(* the session is at another ask, and the row gets no boundary.            *)
LookInv(a, i) ==
  i \in saw[a] =>
    /\ IsRunning(a, i) /\ i <= admitted[a] => i \in prior[a] \/ subject[a] = i
    /\ subject[a] = i => i \in prior[a] \/ looked[a]
    /\ i \in counting[a] /\ IsRunning(a, i) => i \in prior[a] \/ noted[a] = "world"
    /\ ~IsRunning(a, i) /\ asks[a][i].live /\ asks[a][i].pure =>
         /\ ~asks[a][i].boundary
         /\ i \in counting[a] => subject[a] \notin {0, i}

Honest(a) ==
  /\ TurnInv(a)
  /\ AskInv(a)
  /\ \A i \in 1..Len(asks[a]) : WorkInv(a, i) /\ LookInv(a, i)

HonestInv == \A a \in Actor : Honest(a)

LEMMA HasAppend ==
  ASSUME NEW S, NEW s \in Seq(S), NEW v \in S
  PROVE  /\ \A x : Has(Append(s, v), x) <=> Has(s, x) \/ x = v
         /\ Distinct(s) /\ ~Has(s, v) => Distinct(Append(s, v))
  <1> DEFINE t == Append(s, v)
  <1>1. /\ Len(t) = Len(s) + 1 /\ Len(s) \in Nat /\ t[Len(s) + 1] = v
        /\ \A j \in 1..Len(s) : t[j] = s[j]
    BY SeqAppend
  <1> HIDE DEF t
  <1>2. \A j \in 1..Len(t) : j \in 1..Len(s) \/ j = Len(s) + 1
    BY <1>1
  <1>3. \A j \in 1..Len(s) : j \in 1..Len(t)
    BY <1>1
  <1>4. Len(s) + 1 \in 1..Len(t)
    BY <1>1
  <1>5. \A x : Has(t, x) <=> Has(s, x) \/ x = v
    BY <1>1, <1>2, <1>3, <1>4 DEF Has
  <1>6. Distinct(s) /\ ~Has(s, v) => Distinct(t)
    BY <1>1, <1>2 DEF Distinct, Has
  <1> QED BY <1>5, <1>6 DEF t

LEMMA HasTail ==
  ASSUME NEW S, NEW s \in Seq(S), s # <<>>, Distinct(s)
  PROVE  /\ Distinct(Tail(s))
         /\ Has(s, Head(s))
         /\ \A x : Has(Tail(s), x) <=> Has(s, x) /\ x # Head(s)
  <1> DEFINE t == Tail(s)
  <1>1. /\ Len(s) >= 1 /\ Len(s) \in Nat /\ Head(s) = s[1] /\ Len(t) = Len(s) - 1
        /\ \A j \in 1..(Len(s) - 1) : t[j] = s[j + 1]
    BY SeqTail
  <1> HIDE DEF t
  <1>2. \A j \in 1..Len(t) : t[j] = s[j + 1] /\ j + 1 \in 1..Len(s) /\ j + 1 # 1
    BY <1>1
  <1>3. Distinct(t)
    <2> SUFFICES ASSUME NEW j \in 1..Len(t), NEW k \in 1..Len(t), t[j] = t[k] PROVE j = k
      BY DEF Distinct
    <2>1. j + 1 = k + 1 BY <1>2 DEF Distinct
    <2> QED BY <2>1, <1>1
  <1>4. 1 \in 1..Len(s)
    BY <1>1
  <1>5. Has(s, Head(s)) BY <1>1, <1>4 DEF Has
  <1>6. ASSUME NEW x, Has(t, x) PROVE Has(s, x) /\ x # Head(s)
    <2>1. PICK j \in 1..Len(t) : t[j] = x BY <1>6 DEF Has
    <2>2. s[j + 1] = x /\ j + 1 \in 1..Len(s) /\ j + 1 # 1 BY <1>2, <2>1
    <2>3. s[j + 1] # s[1] BY <1>4, <2>2 DEF Distinct
    <2> QED BY <1>1, <2>2, <2>3 DEF Has
  <1>7. ASSUME NEW x, Has(s, x), x # Head(s) PROVE Has(t, x)
    <2>1. PICK j \in 1..Len(s) : s[j] = x BY <1>7 DEF Has
    <2>2. j # 1 BY <1>1, <1>7, <2>1
    <2>3. j - 1 \in 1..Len(t) /\ (j - 1) + 1 = j BY <1>1, <2>2
    <2>4. t[j - 1] = x BY <1>2, <2>1, <2>3
    <2> QED BY <2>3, <2>4 DEF Has
  <1> QED BY <1>3, <1>5, <1>6, <1>7 DEF t

(* What belongs to another actor stays as it is.                           *)
LEMMA HonestSame ==
  ASSUME NEW a \in Actor, Honest(a),
         asks'[a] = asks[a], turns'[a] = turns[a], counting'[a] = counting[a],
         current'[a] = current[a], subject'[a] = subject[a], noted'[a] = noted[a],
         looked'[a] = looked[a], saw'[a] = saw[a], prior'[a] = prior[a],
         admitted'[a] = admitted[a]
  PROVE  Honest(a)'
  <1>1. TurnInv(a)' BY DEF Honest, TurnInv
  <1>2. AskInv(a)' BY DEF Honest, AskInv, IsRunning
  <1>3. \A i \in 1..Len(asks'[a]) : WorkInv(a, i)' /\ LookInv(a, i)'
    BY DEF Honest, WorkInv, LookInv, Pending, IsRunning
  <1> QED BY <1>1, <1>2, <1>3 DEF Honest

LEMMA HonestInit == Init => HonestInv
  <1> SUFFICES ASSUME Init, NEW a \in Actor PROVE Honest(a)
    BY DEF HonestInv
  <1>1. /\ asks[a] = <<>> /\ turns[a] = <<>> /\ counting[a] = {} /\ current[a] = 0
        /\ subject[a] = 0 /\ saw[a] = {} /\ Len(asks[a]) = 0 /\ Len(turns[a]) = 0
    BY DEF Init
  <1>2. TurnInv(a)
    <2>1. Distinct(turns[a]) BY <1>1 DEF Distinct
    <2> QED BY <1>1, <2>1 DEF TurnInv
  <1>3. AskInv(a) BY <1>1 DEF AskInv
  <1>4. 1..Len(asks[a]) = {} BY <1>1
  <1> QED BY <1>2, <1>3, <1>4 DEF Honest

(* What is known of an actor in every step.                                *)
LEMMA ActorType ==
  ASSUME TypeOK, NEW a \in Actor
  PROVE  /\ asks[a] \in Seq(Row) /\ Len(asks[a]) \in Nat
         /\ turns[a] \in Seq(1..MaxAsks)
         /\ admitted[a] \in Nat /\ admitted[a] <= Len(asks[a])
         /\ current[a] \in Nat /\ current[a] <= admitted[a]
         /\ subject[a] \in Nat /\ subject[a] <= admitted[a]
         /\ \A i : Has(turns[a], i) \/ i \in counting[a] =>
                     i \in Nat /\ 1 <= i /\ i <= admitted[a]
  <1>1. /\ asks[a] \in Seq(Row) /\ turns[a] \in Seq(1..MaxAsks)
        /\ admitted[a] \in Nat /\ admitted[a] <= Len(asks[a])
        /\ current[a] \in Nat /\ current[a] <= admitted[a]
        /\ subject[a] \in Nat /\ subject[a] <= admitted[a]
    BY DEF TypeOK, JournalType, EngineType, DriverType
  <1>2. ASSUME NEW i, Has(turns[a], i) PROVE i \in Nat /\ 1 <= i /\ i <= admitted[a]
    <2>1. PICK j \in 1..Len(turns[a]) : turns[a][j] = i BY <1>2 DEF Has
    <2>2. turns[a][j] <= admitted[a] BY DEF TypeOK, DriverType
    <2>3. turns[a][j] \in 1..MaxAsks
      <3> DEFINE T == 1..MaxAsks
      <3>1. turns[a] \in Seq(T) BY <1>1
      <3> HIDE DEF T
      <3>2. turns[a][j] \in T BY <3>1
      <3> QED BY <3>2 DEF T
    <2> QED BY <2>1, <2>2, <2>3, RunAssumption
  <1>3. ASSUME NEW i \in counting[a] PROVE i \in Nat /\ 1 <= i /\ i <= admitted[a]
    <2>1. i \in 1..MaxAsks /\ i <= admitted[a] BY DEF TypeOK, DriverType
    <2> QED BY <2>1, RunAssumption
  <1> QED BY <1>1, <1>2, <1>3

(* One actor's step.                                                       *)
LEMMA HonestOthers ==
  ASSUME HonestInv, NEW a \in Actor, Honest(a)',
         \A b \in Actor \ {a} :
           /\ asks'[b] = asks[b] /\ turns'[b] = turns[b] /\ counting'[b] = counting[b]
           /\ current'[b] = current[b] /\ subject'[b] = subject[b] /\ noted'[b] = noted[b]
           /\ looked'[b] = looked[b] /\ saw'[b] = saw[b] /\ prior'[b] = prior[b]
           /\ admitted'[b] = admitted[b]
  PROVE  HonestInv'
  <1>1. ASSUME NEW b \in Actor PROVE Honest(b)'
    <2>1. CASE b = a BY <2>1
    <2>2. CASE b # a BY <2>2, HonestSame DEF HonestInv
    <2> QED BY <2>1, <2>2
  <1> QED BY <1>1 DEF HonestInv

LEMMA HonestFresh ==
  ASSUME TypeOK, HonestInv, NEW a \in Actor, NEW h \in Hash, AskFresh(a, h)
  PROVE  HonestInv'
  <1> DEFINE seq == admitted[a]
             hit == HasCandidate(a) /\ Hit(a, Offered(a), imported[a], seq, h, ~importClosed)
             row == IF hit THEN CachedRow(a, seq, h) ELSE LiveRow(h)
             all == Append(asks[a], row)
             m == seq + 1
  <1>1. /\ seq = Len(asks[a])
        /\ asks' = [asks EXCEPT ![a] = all]
        /\ admitted' = [admitted EXCEPT ![a] = m]
        /\ \/ prior' = prior /\ saw' = saw
           \/ /\ ~hit
              /\ prior' = [prior EXCEPT ![a] = @ \cup {m}]
              /\ saw' \in {saw, [saw EXCEPT ![a] = @ \cup {m}]}
    BY DEF AskFresh, AlsoSaw
  <1>2. UNCHANGED <<turns, counting, current, subject, noted, looked>>
    BY DEF AskFresh, ask, driver
  <1>3. /\ row \in Row
        /\ \/ hit /\ row.status = "completed" /\ ~row.live
           \/ ~hit /\ row.status = "running" /\ ~row.boundary
    <2>1. CASE hit
      <3>1. seq + 1 \in 1..Len(Entries[a])
        BY <2>1 DEF Hit, Matches, Offered, TypeOK, EngineType, JournalType
      <3>2. Entries[a][seq + 1] \in Entry BY <3>1, ImportAssumption
      <3> QED BY <2>1, <3>2 DEF CachedRow, Row, Entry
    <2>2. CASE ~hit
      BY <2>2 DEF LiveRow, Row, TypeOK, JournalType
    <2> QED BY <2>1, <2>2
  <1> HIDE DEF row, hit
  <1>4. /\ asks \in [Actor -> Seq(Row)] /\ admitted \in [Actor -> Nat]
        /\ prior \in [Actor -> SUBSET (1..MaxAsks)] /\ saw \in [Actor -> SUBSET (1..MaxAsks)]
        /\ seq \in Nat
    BY DEF TypeOK, JournalType, EngineType, HistoryType
  <1>5. /\ Len(all) = m /\ all[m] = row
        /\ \A j \in 1..seq : all[j] = asks[a][j]
    BY <1>1, <1>3, <1>4, SeqAppend
  <1>6. /\ asks'[a] = all /\ admitted'[a] = m
        /\ \/ prior'[a] = prior[a] /\ saw'[a] = saw[a]
           \/ /\ ~hit
              /\ prior'[a] = prior[a] \cup {m}
              /\ saw'[a] \subseteq saw[a] \cup {m}
        /\ saw[a] \subseteq saw'[a]
    BY <1>1, <1>4
  <1>7. \A b \in Actor \ {a} : /\ asks'[b] = asks[b] /\ admitted'[b] = admitted[b]
                               /\ prior'[b] = prior[b] /\ saw'[b] = saw[b]
    BY <1>1, <1>4
  <1>8. Honest(a) BY DEF HonestInv
  <1> HIDE DEF all
  <1>9. ASSUME NEW j \in 1..seq
        PROVE  asks'[a][j] = asks[a][j] /\ (j \in saw'[a] => j \in saw[a]) /\ j # m
    BY <1>4, <1>5, <1>6
  <1>10. TurnInv(a)' BY <1>2, <1>8 DEF Honest, TurnInv
  <1>11. AskInv(a)'
    <2>1. saw'[a] \subseteq 1..m
      BY <1>1, <1>4, <1>6, <1>8 DEF Honest, AskInv
    <2>2. \A j \in Nat : j # 0 /\ j <= seq => j \in 1..seq
      BY <1>4
    <2>3. current[a] \in Nat /\ current[a] <= seq /\ subject[a] \in Nat /\ subject[a] <= seq
      BY ActorType
    <2> QED BY <1>2, <1>5, <1>6, <1>8, <1>9, <2>1, <2>2, <2>3 DEF Honest, AskInv, IsRunning
  <1>12. ASSUME NEW j \in 1..seq PROVE WorkInv(a, j)' /\ LookInv(a, j)'
    <2>1. WorkInv(a, j) /\ LookInv(a, j) /\ j <= admitted[a]
      BY <1>1, <1>4, <1>8, <1>12 DEF Honest
    <2>2. prior[a] \subseteq prior'[a] BY <1>6
    <2> QED BY <1>2, <1>9, <2>1, <2>2 DEF WorkInv, LookInv, Pending, IsRunning
  <1>13. ASSUME NEW j \in Nat, j = m PROVE WorkInv(a, j)' /\ LookInv(a, j)'
    <2>1. ~Pending(a, j)' /\ subject'[a] # j
      <3>1. ~(j <= seq) BY <1>4, <1>13
      <3>2. ~(Has(turns[a], j) \/ j \in counting[a]) /\ subject[a] # j
        BY <3>1, ActorType
      <3> QED BY <1>2, <3>2 DEF Pending
    <2>2. asks'[a][j] = row BY <1>5, <1>6, <1>13
    <2>3. j \in saw'[a] => ~hit /\ j \in prior'[a]
      <3>1. m \notin saw[a]
        <4>1. m \notin 1..Len(asks[a]) BY <1>1, <1>4
        <4> QED BY <1>8, <4>1 DEF Honest, AskInv
      <3> QED BY <1>6, <1>13, <3>1
    <2>4. WorkInv(a, j)' BY <1>3, <2>1, <2>2 DEF WorkInv, IsRunning
    <2>5. LookInv(a, j)' BY <1>3, <2>1, <2>2, <2>3 DEF LookInv, IsRunning, Pending
    <2> QED BY <2>4, <2>5
  <1>14. \A j \in 1..Len(asks'[a]) : j \in 1..seq \/ j = m
    BY <1>4, <1>5, <1>6
  <1>15. Honest(a)' BY <1>10, <1>11, <1>12, <1>13, <1>14 DEF Honest
  <1> QED BY <1>2, <1>7, <1>15, HonestOthers

LEMMA HonestRecorded ==
  ASSUME TypeOK, HonestInv, NEW a \in Actor, AskRecorded(a)
  PROVE  HonestInv'
  <1> DEFINE m == admitted[a] + 1
  <1>1. /\ admitted' = [admitted EXCEPT ![a] = m]
        /\ prior' = IF asks[a][m].status = "running" THEN [prior EXCEPT ![a] = @ \cup {m}] ELSE prior
        /\ \/ saw' = saw
           \/ asks[a][m].status = "running" /\ saw' = [saw EXCEPT ![a] = @ \cup {m}]
        /\ UNCHANGED <<asks, turns, counting, current, subject, noted, looked>>
        /\ m \in 1..Len(asks[a])
    BY DEF AskRecorded, AlsoSaw, disk, journal, ask, driver, TypeOK, JournalType, EngineType
  <1>2. /\ admitted \in [Actor -> Nat] /\ prior \in [Actor -> SUBSET (1..MaxAsks)]
        /\ saw \in [Actor -> SUBSET (1..MaxAsks)]
    BY DEF TypeOK, EngineType, HistoryType
  <1>3. /\ admitted'[a] = m /\ prior[a] \subseteq prior'[a] /\ saw[a] \subseteq saw'[a]
        /\ IsRunning(a, m) => m \in prior'[a]
        /\ \A x \in saw'[a] : x \in saw[a] \/ (x = m /\ IsRunning(a, m))
        /\ \A b \in Actor \ {a} : /\ admitted'[b] = admitted[b] /\ prior'[b] = prior[b]
                                  /\ saw'[b] = saw[b]
    <2> HIDE DEF m
    <2>1. IsRunning(a, m) <=> asks[a][m].status = "running" BY DEF IsRunning
    <2>2. CASE saw' = saw BY <1>1, <1>2, <2>1, <2>2
    <2>3. CASE asks[a][m].status = "running" /\ saw' = [saw EXCEPT ![a] = @ \cup {m}]
      BY <1>1, <1>2, <2>1, <2>3
    <2> QED BY <1>1, <2>2, <2>3
  <1>4. Honest(a) BY DEF HonestInv
  <1>5. TurnInv(a)' BY <1>1, <1>4 DEF Honest, TurnInv
  <1> HIDE DEF m
  <1>6. AskInv(a)' BY <1>1, <1>3, <1>4 DEF Honest, AskInv, IsRunning
  <1>7. ASSUME NEW j \in 1..Len(asks[a]) PROVE WorkInv(a, j)' /\ LookInv(a, j)'
    <2>1. WorkInv(a, j) /\ LookInv(a, j) BY <1>4 DEF Honest
    <2>2. j <= m => j <= admitted[a] \/ j = m BY <1>2 DEF m
    <2>3. WorkInv(a, j)' BY <1>1, <2>1 DEF WorkInv, Pending, IsRunning
    <2>4. LookInv(a, j)'
      <3>1. CASE j \in saw[a] BY <1>1, <1>3, <2>1, <2>2, <3>1 DEF LookInv, IsRunning
      <3>2. CASE j \notin saw[a] BY <1>1, <1>3, <3>2 DEF LookInv, IsRunning
      <3> QED BY <3>1, <3>2
    <2> QED BY <2>3, <2>4
  <1>8. Honest(a)' BY <1>1, <1>5, <1>6, <1>7 DEF Honest
  <1> QED BY <1>1, <1>3, <1>8, HonestOthers

LEMMA HonestDispatch ==
  ASSUME TypeOK, HonestInv, NEW a \in Actor, Dispatch(a)
  PROVE  HonestInv'
  <1>1. PICK i \in 1..admitted[a] : IsRunning(a, i) /\ current' = [current EXCEPT ![a] = i]
    BY DEF Dispatch
  <1>2. /\ current[a] = 0 /\ noted' = [noted EXCEPT ![a] = "none"]
        /\ UNCHANGED <<asks, turns, counting, subject, looked, saw, prior, admitted>>
    BY DEF Dispatch, disk, journal, engine, history
  <1>3. current \in [Actor -> Nat] /\ noted \in [Actor -> {"none", "pure", "world"}]
    BY DEF TypeOK, EngineType
  <1>4. /\ current'[a] = i
        /\ \A b \in Actor \ {a} : current'[b] = current[b] /\ noted'[b] = noted[b]
    BY <1>1, <1>2, <1>3
  <1>5. Honest(a) BY DEF HonestInv
  <1>6. TurnInv(a)' BY <1>2, <1>5 DEF Honest, TurnInv
  <1>7. AskInv(a)' BY <1>1, <1>2, <1>4, <1>5 DEF Honest, AskInv, IsRunning
  <1>8. ASSUME NEW j \in 1..Len(asks[a]) PROVE WorkInv(a, j)' /\ LookInv(a, j)'
    <2>1. WorkInv(a, j) /\ LookInv(a, j) /\ j # 0 BY <1>5 DEF Honest
    <2>2. ~(Pending(a, j) /\ IsRunning(a, j)) BY <1>2, <2>1 DEF WorkInv
    <2> QED BY <1>2, <2>1, <2>2 DEF WorkInv, LookInv, Pending, IsRunning
  <1>9. Honest(a)' BY <1>2, <1>6, <1>7, <1>8 DEF Honest
  <1> QED BY <1>2, <1>4, <1>9, HonestOthers

LEMMA HonestStartAsk ==
  ASSUME TypeOK, HonestInv, NEW a \in Actor, StartAsk(a)
  PROVE  HonestInv'
  <1> DEFINE c == current[a]
  <1>1. /\ c # 0 /\ subject[a] # c
        /\ subject' = [subject EXCEPT ![a] = c]
        /\ looked' = [looked EXCEPT ![a] = FALSE]
        /\ turns' = [turns EXCEPT ![a] = Append(turns[a], c)]
        /\ UNCHANGED <<asks, counting, current, noted, saw, prior, admitted>>
    BY DEF StartAsk, journal, engine, ask
  <1>2. /\ turns \in [Actor -> Seq(1..MaxAsks)] /\ subject \in [Actor -> Nat]
        /\ looked \in [Actor -> BOOLEAN]
    BY DEF TypeOK, DriverType
  <1>3. /\ subject'[a] = c /\ turns'[a] = Append(turns[a], c)
        /\ \A b \in Actor \ {a} :
             subject'[b] = subject[b] /\ looked'[b] = looked[b] /\ turns'[b] = turns[b]
    BY <1>1, <1>2
  <1>4. /\ Honest(a) /\ IsRunning(a, c) /\ c \in Nat /\ c <= admitted[a] /\ c \in 1..Len(asks[a])
    <2>1. Honest(a) BY DEF HonestInv
    <2>2. c \in Nat /\ c <= admitted[a] /\ admitted[a] <= Len(asks[a]) /\ admitted[a] \in Nat
          /\ Len(asks[a]) \in Nat
      BY ActorType
    <2> QED BY <1>1, <2>1, <2>2 DEF Honest, AskInv
  <1>5. /\ WorkInv(a, c) /\ LookInv(a, c)
    BY <1>4 DEF Honest
  <1>6. ~Pending(a, c) BY <1>1, <1>4, <1>5 DEF WorkInv
  <1>7. c \in 1..MaxAsks
    <2>1. Len(asks[a]) <= MaxAsks BY DEF TypeOK, JournalType
    <2>2. Len(asks[a]) \in Nat BY ActorType
    <2> QED BY <1>4, <2>1, <2>2, RunAssumption
  <1>8. /\ Distinct(turns'[a])
        /\ \A x : Has(turns'[a], x) <=> Has(turns[a], x) \/ x = c
    <2> DEFINE T == 1..MaxAsks
    <2>1. turns[a] \in Seq(T) /\ c \in T BY <1>2, <1>7
    <2> HIDE DEF T
    <2>2. Distinct(turns[a]) /\ ~Has(turns[a], c) BY <1>4, <1>6 DEF Honest, TurnInv, Pending
    <2> QED BY <1>3, <2>1, <2>2, HasAppend
  <1> HIDE DEF c
  <1>9. TurnInv(a)' BY <1>1, <1>3, <1>4, <1>6, <1>8 DEF Honest, TurnInv, Pending
  <1>10. AskInv(a)' BY <1>1, <1>3, <1>4 DEF Honest, AskInv, IsRunning, c
  <1>11. ASSUME NEW j \in 1..Len(asks[a]) PROVE WorkInv(a, j)' /\ LookInv(a, j)'
    <2>1. WorkInv(a, j) /\ LookInv(a, j) /\ j # 0 BY <1>4 DEF Honest
    <2>2. CASE j = c
      <3>1. WorkInv(a, j)'
        BY <1>1, <1>3, <1>4, <1>5, <2>2 DEF WorkInv, IsRunning, c
      <3>2. LookInv(a, j)'
        BY <1>1, <1>3, <1>4, <1>5, <1>6, <2>2 DEF LookInv, IsRunning, Pending
      <3> QED BY <3>1, <3>2
    <2>3. CASE j # c
      <3>1. Pending(a, j)' <=> Pending(a, j)
        BY <1>1, <1>8, <2>3 DEF Pending
      <3>2. ~(Pending(a, j) /\ IsRunning(a, j))
        BY <2>1, <2>3 DEF WorkInv, c
      <3>3. ~(subject[a] = j /\ IsRunning(a, j))
        BY <1>4, <2>1, <2>3 DEF Honest, AskInv, c
      <3>4. WorkInv(a, j)'
        BY <1>1, <2>1, <3>1, <3>2 DEF WorkInv, IsRunning
      <3>5. LookInv(a, j)'
        BY <1>1, <1>3, <2>1, <2>3, <3>2, <3>3 DEF LookInv, IsRunning, Pending
      <3> QED BY <3>4, <3>5
    <2> QED BY <2>2, <2>3
  <1>12. Honest(a)' BY <1>1, <1>9, <1>10, <1>11 DEF Honest
  <1> QED BY <1>1, <1>3, <1>12, HonestOthers

(* A tool that looks at the world, with or without a write.                *)
LEMMA HonestLook ==
  ASSUME TypeOK, HonestInv, NEW a \in Actor, NEW i \in 1..MaxAsks, Look(a, i) \/ StartWrite(a, i)
  PROVE  HonestInv'
  <1>1. /\ Works(a, i)
        /\ looked' = [looked EXCEPT ![a] = TRUE]
        /\ saw' = [saw EXCEPT ![a] = @ \cup {i}]
        /\ UNCHANGED <<asks, turns, counting, current, subject, noted, prior, admitted>>
    BY DEF Look, StartWrite, AlsoSaw, disk, journal, engine, ask
  <1>2. /\ turns[a] # <<>> /\ Head(turns[a]) = i /\ current[a] = i /\ subject[a] = i
    BY <1>1 DEF Works
  <1>3. /\ looked'[a] = TRUE /\ saw'[a] = saw[a] \cup {i}
        /\ \A b \in Actor \ {a} : looked'[b] = looked[b] /\ saw'[b] = saw[b]
    BY <1>1 DEF TypeOK, DriverType, HistoryType
  <1>4. Honest(a) /\ i \in 1..Len(asks[a])
    BY <1>1, WorksType DEF HonestInv
  <1>5. i # 0 /\ IsRunning(a, i)
    <2>1. i # 0 BY <1>4
    <2> QED BY <1>2, <1>4, <2>1 DEF Honest, AskInv
  <1>6. i \notin counting[a]
    <2>1. Has(turns[a], i)
      <3> DEFINE T == 1..MaxAsks
      <3>1. turns[a] \in Seq(T) BY ActorType
      <3> HIDE DEF T
      <3> QED BY <1>2, <1>4, <3>1, HasTail DEF Honest, TurnInv
    <2> QED BY <1>4, <2>1 DEF Honest, TurnInv
  <1>7. TurnInv(a)' BY <1>1, <1>4 DEF Honest, TurnInv
  <1>8. AskInv(a)' BY <1>1, <1>3, <1>4 DEF Honest, AskInv, IsRunning
  <1>9. ASSUME NEW j \in 1..Len(asks[a]) PROVE WorkInv(a, j)' /\ LookInv(a, j)'
    <2>1. WorkInv(a, j) /\ LookInv(a, j) BY <1>4 DEF Honest
    <2>2. WorkInv(a, j)' BY <1>1, <2>1 DEF WorkInv, Pending, IsRunning
    <2>3. CASE j = i
      BY <1>1, <1>2, <1>3, <1>5, <1>6, <2>2, <2>3 DEF LookInv, IsRunning
    <2>4. CASE j # i
      BY <1>1, <1>3, <2>1, <2>2, <2>4 DEF LookInv, IsRunning
    <2> QED BY <2>3, <2>4
  <1>10. Honest(a)' BY <1>1, <1>7, <1>8, <1>9 DEF Honest
  <1> QED BY <1>1, <1>3, <1>10, HonestOthers

LEMMA HonestSubmit ==
  ASSUME TypeOK, HonestInv, NEW a \in Actor, NEW i \in 1..MaxAsks, Submit(a, i)
  PROVE  HonestInv'
  <1> DEFINE row == [asks[a][i] EXCEPT !.status = "completed", !.pure = Journaled(a, i, noted[a])]
  <1>1. /\ turns[a] # <<>> /\ Head(turns[a]) = i /\ current[a] = i /\ subject[a] = i
        /\ i \in 1..Len(asks[a]) /\ asks[a][i] \in Row /\ Honest(a)
    BY WorksType DEF Submit, Works, HonestInv
  <1>2. /\ asks' = [asks EXCEPT ![a] = [asks[a] EXCEPT ![i] = row]]
        /\ current' = [current EXCEPT ![a] = 0]
        /\ UNCHANGED <<turns, counting, subject, noted, looked, saw, prior, admitted>>
    BY DEF Submit, Settled, driver, engine, history
  <1>3. row \in Row /\ row.status # "running" /\ row.boundary = asks[a][i].boundary
    BY <1>1 DEF Row, Journaled
  <1> HIDE DEF row
  <1>4. /\ Len(asks'[a]) = Len(asks[a]) /\ asks'[a][i] = row
        /\ \A j \in 1..Len(asks[a]) : j # i => asks'[a][j] = asks[a][j]
    <2>1. asks' = [asks EXCEPT ![a] = [asks[a] EXCEPT ![i] = row]] BY <1>2
    <2>2. asks \in [Actor -> Seq(Row)] BY DEF TypeOK, JournalType
    <2> QED BY <1>1, <1>3, <2>1, <2>2, RowReplaced DEF TypeOK
  <1>5. current'[a] = 0 /\ \A b \in Actor \ {a} : asks'[b] = asks[b] /\ current'[b] = current[b]
    BY <1>2 DEF TypeOK, JournalType, EngineType
  <1>6. IsRunning(a, i)
    BY <1>1 DEF Honest, AskInv
  <1>7. i \notin counting[a] /\ Has(turns[a], i)
    <2> DEFINE T == 1..MaxAsks
    <2>1. turns[a] \in Seq(T) BY ActorType
    <2> HIDE DEF T
    <2>2. Has(turns[a], i) BY <1>1, <2>1, HasTail DEF Honest, TurnInv
    <2> QED BY <1>1, <2>2 DEF Honest, TurnInv
  <1>8. TurnInv(a)' BY <1>1, <1>2 DEF Honest, TurnInv
  <1>9. AskInv(a)' BY <1>1, <1>2, <1>3, <1>4, <1>5 DEF Honest, AskInv, IsRunning
  <1>10. ASSUME NEW j \in 1..Len(asks[a]) PROVE WorkInv(a, j)' /\ LookInv(a, j)'
    <2>1. WorkInv(a, j) /\ LookInv(a, j) BY <1>1 DEF Honest
    <2>2. CASE j = i
      <3>1. ~IsRunning(a, j)' BY <1>3, <1>4, <2>2 DEF IsRunning
      <3>2. WorkInv(a, j)' BY <1>3, <1>4, <1>6, <2>1, <2>2, <3>1 DEF WorkInv
      <3>3. LookInv(a, j)'
        BY <1>2, <1>3, <1>4, <1>6, <1>7, <2>1, <2>2, <3>1 DEF WorkInv, LookInv
      <3> QED BY <3>2, <3>3
    <2>3. CASE j # i
      <3>1. ~(Pending(a, j) /\ IsRunning(a, j))
        BY <1>1, <2>1, <2>3 DEF WorkInv
      <3>2. WorkInv(a, j)' BY <1>2, <1>4, <2>1, <2>3, <3>1 DEF WorkInv, Pending, IsRunning
      <3>3. LookInv(a, j)' BY <1>2, <1>4, <2>1, <2>3 DEF LookInv, IsRunning
      <3> QED BY <3>2, <3>3
    <2> QED BY <2>2, <2>3
  <1>11. Honest(a)' BY <1>4, <1>8, <1>9, <1>10 DEF Honest
  <1> QED BY <1>2, <1>5, <1>11, HonestOthers

LEMMA HonestResolves ==
  ASSUME TypeOK, HonestInv, NEW a \in Actor, TurnResolves(a)
  PROVE  HonestInv'
  <1> DEFINE i == Head(turns[a])
             row == [asks[a][i] EXCEPT !.pure = Journaled(a, i, Counted(a))]
  <1>1. /\ turns[a] # <<>> /\ i \in 1..MaxAsks /\ i \in 1..Len(asks[a]) /\ asks[a][i] \in Row
        /\ Honest(a)
    BY TurnType DEF TurnResolves, HonestInv
  <1>2. /\ turns' = [turns EXCEPT ![a] = Tail(turns[a])]
        /\ counting' = [counting EXCEPT ![a] = @ \cup {i}]
        /\ UNCHANGED <<current, subject, looked, saw, prior, admitted>>
        /\ IF IsRunning(a, i)
           THEN noted' = [noted EXCEPT ![a] = Counted(a)] /\ UNCHANGED asks
           ELSE asks' = [asks EXCEPT ![a] = [asks[a] EXCEPT ![i] = row]] /\ UNCHANGED noted
    BY DEF TurnResolves, engine, history
  <1>3. /\ row \in Row /\ row.status = asks[a][i].status /\ row.boundary = asks[a][i].boundary
        /\ row.live = asks[a][i].live
        /\ row.pure => ~looked[a] /\ i \notin prior[a]
    BY <1>1 DEF Row, Journaled, Counted
  <1>4. /\ turns'[a] = Tail(turns[a]) /\ counting'[a] = counting[a] \cup {i}
        /\ \A b \in Actor \ {a} : turns'[b] = turns[b] /\ counting'[b] = counting[b]
    BY <1>2 DEF TypeOK, DriverType
  <1>5. /\ Distinct(turns'[a]) /\ Has(turns[a], i)
        /\ \A x : Has(turns'[a], x) <=> Has(turns[a], x) /\ x # i
    <2> DEFINE T == 1..MaxAsks
    <2>1. turns[a] \in Seq(T) BY ActorType
    <2> HIDE DEF T
    <2> QED BY <1>1, <1>4, <2>1, HasTail DEF Honest, TurnInv
  <1> HIDE DEF row
  <1>6. /\ Len(asks'[a]) = Len(asks[a])
        /\ asks'[a][i] = IF IsRunning(a, i) THEN asks[a][i] ELSE row
        /\ \A j \in 1..Len(asks[a]) : j # i => asks'[a][j] = asks[a][j]
        /\ \A b \in Actor \ {a} : asks'[b] = asks[b]
    <2>1. CASE IsRunning(a, i) BY <1>2, <2>1
    <2>2. CASE ~IsRunning(a, i)
      <3>1. asks' = [asks EXCEPT ![a] = [asks[a] EXCEPT ![i] = row]] BY <1>2, <2>2
      <3>2. asks \in [Actor -> Seq(Row)] BY DEF TypeOK, JournalType
      <3> HIDE DEF i
      <3> QED BY <1>1, <1>3, <2>2, <3>1, <3>2, RowReplaced DEF TypeOK
    <2> QED BY <2>1, <2>2
  <1>7. /\ IsRunning(a, i) => noted'[a] = Counted(a)
        /\ ~IsRunning(a, i) => noted'[a] = noted[a]
        /\ \A b \in Actor \ {a} : noted'[b] = noted[b]
    BY <1>2 DEF TypeOK, EngineType
  <1>8. subject[a] # 0 BY <1>1 DEF Honest, TurnInv
  <1> HIDE DEF i
  <1>9. \A j \in 1..Len(asks[a]) : /\ IsRunning(a, j)' <=> IsRunning(a, j)
                                   /\ Pending(a, j)' <=> Pending(a, j)
                                   /\ asks'[a][j].boundary = asks[a][j].boundary
                                   /\ asks'[a][j].live = asks[a][j].live
    BY <1>3, <1>4, <1>5, <1>6 DEF IsRunning, Pending
  <1>10. TurnInv(a)' BY <1>1, <1>2, <1>4, <1>5, <1>8 DEF Honest, TurnInv
  <1>11. AskInv(a)'
    <2>1. \A j \in Nat : j # 0 /\ j <= admitted[a] => j \in 1..Len(asks[a])
      BY ActorType
    <2>2. /\ current[a] \in Nat /\ current[a] <= admitted[a]
          /\ subject[a] \in Nat /\ subject[a] <= admitted[a]
      BY ActorType
    <2> QED BY <1>1, <1>2, <1>6, <1>9, <2>1, <2>2 DEF Honest, AskInv
  <1>12. ASSUME NEW j \in 1..Len(asks[a]) PROVE WorkInv(a, j)' /\ LookInv(a, j)'
    <2>1. WorkInv(a, j) /\ LookInv(a, j) /\ WorkInv(a, i) /\ LookInv(a, i) BY <1>1 DEF Honest
    <2>2. WorkInv(a, j)' BY <1>2, <1>9, <2>1 DEF WorkInv
    <2>3. Pending(a, i) BY <1>5 DEF Pending
    <2>4. CASE j = i
      <3>1. CASE IsRunning(a, i)
        <4>1. subject[a] = i BY <2>1, <2>3, <3>1 DEF WorkInv
        <4>2. i \in saw[a] => i \in prior[a] \/ noted'[a] = "world"
          BY <1>7, <2>1, <3>1, <4>1 DEF LookInv, Counted
        <4> QED BY <1>2, <1>9, <2>1, <2>2, <2>4, <3>1, <4>2 DEF LookInv
      <3>2. CASE ~IsRunning(a, i)
        <4>1. asks'[a][i].pure => ~looked[a] /\ i \notin prior[a]
          BY <1>3, <1>6, <3>2
        <4>2. ~asks[a][i].boundary BY <2>1, <2>3 DEF WorkInv
        <4> QED BY <1>2, <1>8, <1>9, <2>1, <2>2, <2>4, <3>2, <4>1, <4>2 DEF LookInv
      <3> QED BY <3>1, <3>2
    <2>5. CASE j # i
      <3>1. j \in counting'[a] <=> j \in counting[a] BY <1>4, <2>5
      <3>2. j \in counting[a] /\ IsRunning(a, j) => ~IsRunning(a, i)
        BY <2>1, <2>3, <2>5 DEF WorkInv, Pending
      <3>3. asks'[a][j] = asks[a][j] BY <1>6, <2>5
      <3> QED BY <1>2, <1>7, <1>9, <2>1, <2>2, <3>1, <3>2, <3>3 DEF LookInv
    <2> QED BY <2>4, <2>5
  <1>13. Honest(a)' BY <1>6, <1>10, <1>11, <1>12 DEF Honest
  <1> QED BY <1>2, <1>4, <1>6, <1>7, <1>13, HonestOthers

LEMMA HonestEnds ==
  ASSUME TypeOK, HonestInv, NEW a \in Actor, NEW i \in 1..MaxAsks, ExchangeEnds(a, i)
  PROVE  HonestInv'
  <1> DEFINE old == asks[a][i]
             outcome == IF old.status # "running" THEN old.status
                        ELSE IF old.hash \in Typed THEN "failed" ELSE "completed"
             row == [old EXCEPT !.status = outcome,
                                !.pure = IF old.status = "running"
                                         THEN Journaled(a, i, noted[a]) ELSE old.pure,
                                !.boundary = old.boundary \/ BoundaryFits(a, i)]
  <1>1. i \in counting[a] /\ i \in 1..Len(asks[a]) /\ old \in Row /\ Honest(a)
    BY CountingType DEF ExchangeEnds, HonestInv
  <1>2. UNCHANGED <<turns, subject, noted, looked, saw, prior, admitted>>
    BY DEF ExchangeEnds, engine, history
  <1>3. /\ asks' = [asks EXCEPT ![a] = [asks[a] EXCEPT ![i] = row]]
        /\ counting' = [counting EXCEPT ![a] = @ \ {i}]
        /\ current' = IF old.status = "running" THEN [current EXCEPT ![a] = 0] ELSE current
    BY DEF ExchangeEnds
  <1>4. /\ row \in Row /\ row.status # "running" /\ row.live = old.live
        /\ row.boundary => old.boundary \/ subject[a] \in {0, i}
        /\ IsRunning(a, i) => (row.pure => noted[a] = "pure" /\ i \notin prior[a])
        /\ ~IsRunning(a, i) => row.pure = old.pure
    BY <1>1 DEF Row, Journaled, BoundaryFits, IsRunning
  <1> HIDE DEF row
  <1>5. /\ Len(asks'[a]) = Len(asks[a]) /\ asks'[a][i] = row
        /\ \A j \in 1..Len(asks[a]) : j # i => asks'[a][j] = asks[a][j]
    <2>1. asks' = [asks EXCEPT ![a] = [asks[a] EXCEPT ![i] = row]] BY <1>3
    <2>2. asks \in [Actor -> Seq(Row)] BY DEF TypeOK, JournalType
    <2> QED BY <1>1, <1>4, <2>1, <2>2, RowReplaced DEF TypeOK
  <1>6. /\ counting'[a] = counting[a] \ {i}
        /\ current'[a] = IF IsRunning(a, i) THEN 0 ELSE current[a]
        /\ \A b \in Actor \ {a} : /\ asks'[b] = asks[b] /\ current'[b] = current[b]
                                  /\ counting'[b] = counting[b]
    BY <1>3 DEF TypeOK, JournalType, EngineType, DriverType, IsRunning
  <1>7. ~Has(turns[a], i) /\ Pending(a, i)
    BY <1>1 DEF Honest, TurnInv, Pending
  <1>8. WorkInv(a, i) /\ LookInv(a, i) BY <1>1 DEF Honest
  <1>9. IsRunning(a, i) => current[a] = i /\ subject[a] = i
    BY <1>7, <1>8 DEF WorkInv
  <1>10. TurnInv(a)' BY <1>1, <1>2, <1>6 DEF Honest, TurnInv
  <1>11. AskInv(a)'
    <2>1. \A j \in Nat : j # 0 /\ j <= admitted[a] => j \in 1..Len(asks[a])
      BY ActorType
    <2>2. /\ current[a] \in Nat /\ current[a] <= admitted[a]
          /\ subject[a] \in Nat /\ subject[a] <= admitted[a]
      BY ActorType
    <2>3. \A j \in 1..Len(asks[a]) : IsRunning(a, j)' <=> IsRunning(a, j) /\ j # i
      BY <1>4, <1>5 DEF IsRunning
    <2> QED BY <1>1, <1>2, <1>5, <1>6, <1>9, <2>1, <2>2, <2>3 DEF Honest, AskInv
  <1>12. ASSUME NEW j \in 1..Len(asks[a]) PROVE WorkInv(a, j)' /\ LookInv(a, j)'
    <2>1. WorkInv(a, j) /\ LookInv(a, j) BY <1>1 DEF Honest
    <2>2. CASE j = i
      <3>1. ~IsRunning(a, j)' /\ ~Pending(a, j)'
        BY <1>2, <1>4, <1>5, <1>6, <1>7, <2>2 DEF IsRunning, Pending
      <3>2. WorkInv(a, j)' BY <3>1 DEF WorkInv
      <3>3. i \in saw[a] /\ row.live /\ row.pure => ~row.boundary
        <4>1. CASE IsRunning(a, i)
          BY <1>1, <1>4, <1>8, <4>1 DEF LookInv
        <4>2. CASE ~IsRunning(a, i)
          BY <1>1, <1>4, <1>8, <4>2 DEF LookInv
        <4> QED BY <4>1, <4>2
      <3>4. LookInv(a, j)'
        BY <1>2, <1>5, <1>6, <1>8, <2>2, <3>1, <3>3 DEF LookInv
      <3> QED BY <3>2, <3>4
    <2>3. CASE j # i
      <3>1. /\ IsRunning(a, j)' <=> IsRunning(a, j)
            /\ Pending(a, j)' <=> Pending(a, j)
            /\ asks'[a][j] = asks[a][j]
            /\ j \in counting'[a] <=> j \in counting[a]
        BY <1>2, <1>5, <1>6, <2>3 DEF IsRunning, Pending
      <3>2. Pending(a, j) /\ IsRunning(a, j) => ~IsRunning(a, i)
        BY <1>9, <2>1, <2>3 DEF WorkInv
      <3>3. WorkInv(a, j)' BY <1>2, <1>6, <2>1, <3>1, <3>2 DEF WorkInv
      <3>4. LookInv(a, j)' BY <1>2, <2>1, <3>1 DEF LookInv
      <3> QED BY <3>3, <3>4
    <2> QED BY <2>2, <2>3
  <1>13. Honest(a)' BY <1>5, <1>10, <1>11, <1>12 DEF Honest
  <1> QED BY <1>2, <1>6, <1>13, HonestOthers

LEMMA HonestNudge ==
  ASSUME TypeOK, HonestInv, NEW a \in Actor, NEW i \in 1..MaxAsks, Nudge(a, i)
  PROVE  HonestInv'
  <1>1. /\ i \in counting[a] /\ IsRunning(a, i) /\ Honest(a)
        /\ counting' = [counting EXCEPT ![a] = @ \ {i}]
        /\ turns' = [turns EXCEPT ![a] = Append(turns[a], i)]
        /\ UNCHANGED <<asks, current, subject, noted, looked, saw, prior, admitted>>
    BY DEF Nudge, disk, journal, engine, ask, history, HonestInv
  <1>2. /\ counting'[a] = counting[a] \ {i} /\ turns'[a] = Append(turns[a], i)
        /\ \A b \in Actor \ {a} : counting'[b] = counting[b] /\ turns'[b] = turns[b]
    BY <1>1 DEF TypeOK, DriverType
  <1>3. ~Has(turns[a], i) /\ Distinct(turns[a]) BY <1>1 DEF Honest, TurnInv
  <1>4. /\ Distinct(turns'[a])
        /\ \A x : Has(turns'[a], x) <=> Has(turns[a], x) \/ x = i
    <2> DEFINE T == 1..MaxAsks
    <2>1. turns[a] \in Seq(T) /\ i \in T BY ActorType
    <2> HIDE DEF T
    <2> QED BY <1>2, <1>3, <2>1, HasAppend
  <1>5. /\ i \in 1..Len(asks[a]) /\ subject[a] # 0
    <2>1. i \in 1..Len(asks[a]) BY <1>1, CountingType
    <2>2. WorkInv(a, i) BY <1>1, <2>1 DEF Honest
    <2>3. subject[a] = i BY <1>1, <2>2 DEF WorkInv, Pending
    <2> QED BY <2>1, <2>3
  <1>6. TurnInv(a)' BY <1>1, <1>2, <1>4, <1>5 DEF Honest, TurnInv
  <1>7. AskInv(a)' BY <1>1 DEF Honest, AskInv, IsRunning
  <1>8. ASSUME NEW j \in 1..Len(asks[a]) PROVE WorkInv(a, j)' /\ LookInv(a, j)'
    <2>1. WorkInv(a, j) /\ LookInv(a, j) BY <1>1 DEF Honest
    <2>2. Pending(a, j)' <=> Pending(a, j)
      BY <1>1, <1>2, <1>4 DEF Pending
    <2>3. WorkInv(a, j)' BY <1>1, <2>1, <2>2 DEF WorkInv, IsRunning
    <2>4. j \in counting'[a] => j \in counting[a] BY <1>2
    <2>5. LookInv(a, j)' BY <1>1, <2>1, <2>4 DEF LookInv, IsRunning
    <2> QED BY <2>3, <2>5
  <1>9. Honest(a)' BY <1>1, <1>6, <1>7, <1>8 DEF Honest
  <1> QED BY <1>1, <1>2, <1>9, HonestOthers

LEMMA HonestRejected ==
  ASSUME TypeOK, HonestInv, NEW a \in Actor, TurnRejected(a)
  PROVE  HonestInv'
  <1> DEFINE i == Head(turns[a])
             row == IF IsRunning(a, i)
                    THEN [asks[a][i] EXCEPT !.status = "failed", !.pure = Journaled(a, i, noted[a])]
                    ELSE asks[a][i]
  <1>1. /\ turns[a] # <<>> /\ i \in 1..Len(asks[a]) /\ asks[a][i] \in Row /\ Honest(a)
    BY TurnType DEF TurnRejected, HonestInv
  <1>2. /\ turns' = [turns EXCEPT ![a] = Tail(turns[a])]
        /\ UNCHANGED <<counting, subject, noted, looked, saw, prior, admitted>>
    BY DEF TurnRejected, engine, history
  <1>3. row \in Row /\ row.status # "running" /\ row.boundary = asks[a][i].boundary
        /\ row.live = asks[a][i].live /\ (~IsRunning(a, i) => row = asks[a][i])
    BY <1>1 DEF Row, Journaled, IsRunning
  <1>4. /\ IsRunning(a, i) => /\ asks' = [asks EXCEPT ![a] = [asks[a] EXCEPT ![i] = row]]
                              /\ current' = [current EXCEPT ![a] = 0]
        /\ ~IsRunning(a, i) => asks' = asks /\ current' = current
    BY DEF TurnRejected, Settled
  <1>5. turns'[a] = Tail(turns[a]) /\ \A b \in Actor \ {a} : turns'[b] = turns[b]
    BY <1>2 DEF TypeOK, DriverType
  <1>6. /\ Distinct(turns'[a]) /\ Has(turns[a], i)
        /\ \A x : Has(turns'[a], x) <=> Has(turns[a], x) /\ x # i
    <2> DEFINE T == 1..MaxAsks
    <2>1. turns[a] \in Seq(T) BY ActorType
    <2> HIDE DEF T
    <2> QED BY <1>1, <1>5, <2>1, HasTail DEF Honest, TurnInv
  <1> HIDE DEF row, i
  <1>7. /\ Len(asks'[a]) = Len(asks[a]) /\ asks'[a][i] = row
        /\ \A j \in 1..Len(asks[a]) : j # i => asks'[a][j] = asks[a][j]
        /\ \A b \in Actor \ {a} : asks'[b] = asks[b]
    <2>1. CASE ~IsRunning(a, i) BY <1>3, <1>4, <2>1
    <2>2. CASE IsRunning(a, i)
      <3>1. asks' = [asks EXCEPT ![a] = [asks[a] EXCEPT ![i] = row]] BY <1>4, <2>2
      <3>2. asks \in [Actor -> Seq(Row)] BY DEF TypeOK, JournalType
      <3> QED BY <1>1, <1>3, <2>2, <3>1, <3>2, RowReplaced DEF TypeOK
    <2> QED BY <2>1, <2>2
  <1>8. /\ current'[a] = IF IsRunning(a, i) THEN 0 ELSE current[a]
        /\ \A b \in Actor \ {a} : current'[b] = current[b]
    BY <1>4 DEF TypeOK, EngineType
  <1>9. Pending(a, i) /\ i \notin counting[a] /\ WorkInv(a, i) /\ LookInv(a, i)
    BY <1>1, <1>6 DEF Honest, TurnInv, Pending
  <1>10. IsRunning(a, i) => current[a] = i /\ subject[a] = i
    BY <1>9 DEF WorkInv
  <1>11. TurnInv(a)'
    BY <1>1, <1>2, <1>5, <1>6 DEF Honest, TurnInv
  <1>12. \A j \in 1..Len(asks[a]) : IsRunning(a, j)' <=> IsRunning(a, j) /\ j # i
    BY <1>3, <1>7 DEF IsRunning
  <1>13. AskInv(a)'
    <2>1. \A j \in Nat : j # 0 /\ j <= admitted[a] => j \in 1..Len(asks[a])
      BY ActorType
    <2>2. /\ current[a] \in Nat /\ current[a] <= admitted[a]
          /\ subject[a] \in Nat /\ subject[a] <= admitted[a]
      BY ActorType
    <2> QED BY <1>1, <1>2, <1>7, <1>8, <1>10, <1>12, <2>1, <2>2 DEF Honest, AskInv
  <1>14. ASSUME NEW j \in 1..Len(asks[a]) PROVE WorkInv(a, j)' /\ LookInv(a, j)'
    <2>1. WorkInv(a, j) /\ LookInv(a, j) BY <1>1 DEF Honest
    <2>2. Pending(a, j)' => Pending(a, j)
      BY <1>2, <1>6 DEF Pending
    <2>3. CASE j = i
      <3>1. ~IsRunning(a, j)' /\ asks'[a][j] = row BY <1>7, <1>12, <2>3
      <3>2. WorkInv(a, j)' BY <1>3, <1>9, <2>3, <3>1 DEF WorkInv
      <3>3. row.boundary = FALSE
        BY <1>1, <1>3, <1>9 DEF WorkInv, Row
      <3>4. LookInv(a, j)' BY <1>2, <1>9, <2>1, <2>3, <3>1, <3>3 DEF LookInv
      <3> QED BY <3>2, <3>4
    <2>4. CASE j # i
      <3>1. /\ IsRunning(a, j)' <=> IsRunning(a, j)
            /\ asks'[a][j] = asks[a][j]
        BY <1>7, <1>12, <2>4
      <3>2. Pending(a, j) /\ IsRunning(a, j) => ~IsRunning(a, i)
        BY <1>10, <2>1, <2>4 DEF WorkInv
      <3>3. WorkInv(a, j)' BY <1>2, <1>8, <2>1, <2>2, <3>1, <3>2 DEF WorkInv
      <3>4. LookInv(a, j)' BY <1>2, <2>1, <3>1 DEF LookInv
      <3> QED BY <3>3, <3>4
    <2> QED BY <2>3, <2>4
  <1>15. Honest(a)' BY <1>7, <1>11, <1>13, <1>14 DEF Honest
  <1> QED BY <1>2, <1>5, <1>7, <1>8, <1>15, HonestOthers

LEMMA HonestResume == ASSUME TypeOK, HonestInv, Resume PROVE HonestInv'
  <1> SUFFICES ASSUME NEW a \in Actor PROVE Honest(a)'
    BY DEF HonestInv
  <1>1. /\ admitted'[a] = 0 /\ current'[a] = 0 /\ subject'[a] = 0 /\ turns'[a] = <<>>
        /\ counting'[a] = {} /\ asks' = asks /\ saw' = saw
    BY DEF Resume, journal, history
  <1>2. Honest(a) BY DEF HonestInv
  <1>3. /\ Distinct(turns'[a]) /\ \A x : ~Has(turns'[a], x)
    <2>1. Len(turns'[a]) = 0 BY <1>1
    <2> QED BY <2>1 DEF Distinct, Has
  <1>4. TurnInv(a)' BY <1>1, <1>3 DEF TurnInv
  <1>5. AskInv(a)' BY <1>1, <1>2 DEF Honest, AskInv
  <1>6. ASSUME NEW j \in 1..Len(asks[a]) PROVE WorkInv(a, j)' /\ LookInv(a, j)'
    <2>1. WorkInv(a, j) /\ LookInv(a, j) BY <1>2 DEF Honest
    <2>2. ~Pending(a, j)' /\ ~(j <= admitted'[a]) /\ subject'[a] # j
      BY <1>1, <1>3 DEF Pending
    <2>3. WorkInv(a, j)' BY <1>1, <2>1, <2>2 DEF WorkInv, IsRunning
    <2>4. LookInv(a, j)' BY <1>1, <2>1, <2>2 DEF LookInv, IsRunning
    <2> QED BY <2>3, <2>4
  <1> QED BY <1>1, <1>4, <1>5, <1>6 DEF Honest

LEMMA HonestStep == ASSUME TypeOK, HonestInv, [Next]_vars PROVE HonestInv'
  <1>1. UNCHANGED <<asks, turns, counting, current, subject, noted, looked, saw, prior, admitted>>
          => HonestInv'
    BY HonestSame DEF HonestInv
  <1>2. CASE UNCHANGED vars
    BY <1>1, <1>2 DEF vars, disk, journal, engine, ask, driver, history
  <1>3. CASE Resume BY <1>3, HonestResume
  <1>4. ASSUME NEW k \in Key, WorldCall(k) PROVE HonestInv'
    BY <1>1, <1>4 DEF WorldCall, ask, driver
  <1>5. ASSUME NEW k \in Key, NEW i \in 1..MaxCalls, WorldCallEnds(k, i) PROVE HonestInv'
    BY <1>1, <1>5 DEF WorldCallEnds, engine, ask, driver, history
  <1>6. ASSUME NEW a \in Actor, NEW h \in Hash, AskFresh(a, h) PROVE HonestInv'
    BY <1>6, HonestFresh
  <1>7. ASSUME NEW a \in Actor, SessionReady(a) \/ Write(a) PROVE HonestInv'
    BY <1>1, <1>7 DEF SessionReady, Write, disk, journal, engine, ask, history
  <1>8. ASSUME NEW a \in Actor,
               \/ AskRecorded(a) \/ Dispatch(a) \/ SessionReady(a) \/ StartAsk(a)
               \/ Write(a) \/ TurnResolves(a) \/ TurnRejected(a)
        PROVE HonestInv'
    BY <1>7, <1>8, HonestRecorded, HonestDispatch, HonestStartAsk, HonestResolves, HonestRejected
  <1>9. ASSUME NEW a \in Actor, NEW i \in 1..MaxAsks,
               \/ Look(a, i) \/ StartWrite(a, i)
               \/ Submit(a, i) \/ ExchangeEnds(a, i) \/ Nudge(a, i)
        PROVE HonestInv'
    BY <1>9, HonestLook, HonestSubmit, HonestEnds, HonestNudge
  <1> QED BY <1>2, <1>3, <1>4, <1>5, <1>6, <1>8, <1>9 DEF Next

(* In every life of a run: an answer that a later run may take as          *)
(* independent of the world is one for which it was not looked at.  This   *)
(* needs no table.                                                         *)
THEOREM RowsAlwaysHonest == Spec => []HonestRows
  <1>1. TypeOK /\ HonestInv /\ [Next]_vars => HonestInv'
    BY HonestStep
  <1>2. TypeOK /\ HonestInv => HonestRows
    <2> SUFFICES ASSUME TypeOK, HonestInv, NEW a \in Actor, NEW i \in DOMAIN asks[a],
                        asks[a][i].live, asks[a][i].status = "completed",
                        asks[a][i].boundary, asks[a][i].pure, i \in saw[a]
                 PROVE  FALSE
      BY DEF HonestRows
    <2>1. i \in 1..Len(asks[a])
      BY DEF TypeOK, JournalType
    <2>2. LookInv(a, i) BY <2>1 DEF HonestInv, Honest
    <2> QED BY <2>2 DEF LookInv, IsRunning
  <1> QED BY <1>1, <1>2, HonestInit, TypeCorrect, PTL DEF Spec
=============================================================================
