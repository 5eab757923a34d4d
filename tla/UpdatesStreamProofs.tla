------------------------- MODULE UpdatesStreamProofs -------------------------
(***************************************************************************)
(* Theorems about UpdatesStream: resuming brings no row twice; the id a    *)
(* client resumes from covers nothing it could have got and did not; its   *)
(* types, and the cap on the streams of a member.                          *)
(*                                                                         *)
(* The invariant says that the ids of what the client has received last,   *)
(* of what is on the wire and of what the server will write next form one  *)
(* chain: each frame moves the cursor of one log, past no row that is in   *)
(* sequence.  A row that commits later does not break the chain, because   *)
(* every cursor stands on a number that is committed: a row that appears   *)
(* below it is one that was overtaken.                                     *)
(***************************************************************************)
EXTENDS UpdatesStream, FiniteSetTheorems, WellFoundedInduction, TLAPS

Ids == [Log -> Nat]

\* The rows that the client could have got in the order of the numbers.
sequence == [p \in Log |-> {n \in Number(p) : row[p][n] = "visible" /\ n \notin overtaken[p]}]

NoneBetween(rows, after, before) == \A n \in rows : ~(after < n /\ n < before)

\* The frame f comes right after the id, or is the first one, if those rows are in sequence.
Follows(rows, f, id) ==
    IF id = Latest THEN f.log = "ready" /\ f.id \in Ids
    ELSE \/ f.log = "ready" /\ f.id = id
         \/ /\ f.log \in Log
            /\ f.id = [id EXCEPT ![f.log] = f.n]
            /\ id[f.log] < f.n
            /\ NoneBetween(rows[f.log], id[f.log], f.n)

Before(id, s, i) == IF i = 1 THEN id ELSE s[i - 1].id
Chain(rows, id, s) == \A i \in 1 .. Len(s) : Follows(rows, s[i], Before(id, s, i))
EndOf(id, s) == IF s = <<>> THEN id ELSE s[Len(s)].id

\* The numbers a cursor may stand on.
standing == [p \in Log |-> {0} \cup {n \in Number(p) : Committed(p, n)}]

Anchored(numbers, id) == \A p \in Log : id[p] # None => id[p] \in numbers[p]

Types ==
    /\ row = [p \in Log |-> row[p]] /\ \A p \in Log : row[p] \in [Number(p) -> RowState]
    /\ overtaken \in [Log -> SUBSET Nat] /\ received \in [Log -> SUBSET Nat]
    /\ pc \in [Conn -> Running \cup {"unopened", "done"}]
    /\ cursor \in [Conn -> Cursor] /\ unsent \in [Conn -> Seq(Frame)] /\ wire \in Seq(Frame)
    /\ opened \in 0 .. MaxConn /\ held \in 0 .. opened /\ eof \in BOOLEAN
    /\ last \in Ids \cup {Latest} /\ base \in Ids \cup {Latest}

Anchors ==
    /\ Anchored(standing, last)
    /\ \A i \in 1 .. Len(wire) : Anchored(standing, wire[i].id)
    /\ \A c \in Conn : /\ Anchored(standing, cursor[c])
                       /\ \A i \in 1 .. Len(unsent[c]) : Anchored(standing, unsent[c][i].id)

\* What the seeds of the connection have read continues what the client has.
Seeded(c) ==
    IF last = Latest THEN unsent[c] = <<>>
    ELSE Chain(sequence, last, unsent[c]) /\ cursor[c] = EndOf(last, unsent[c])

Continues(c) ==
    /\ pc[c] = "seed_activity" => wire = <<>> /\ unsent[c] = <<>> /\ cursor[c] = last
    /\ pc[c] = "seed_inbox" =>
          /\ wire = <<>> /\ Seeded(c)
          /\ last = Latest => cursor[c]["inbox"] = None
    /\ pc[c] = "ready" => wire = <<>> /\ Seeded(c)
    /\ pc[c] \in InLoop => cursor[c] = EndOf(last, wire)

Connected ==
    /\ \A c \in Conn : c > opened => pc[c] = "unopened"
    /\ \A c \in Conn : pc[c] = "unopened" => unsent[c] = <<>>
    /\ held = 0 => wire = <<>>
    /\ held # 0 /\ ~eof => Continues(held)
    /\ Chain(sequence, last, wire)

\* What the seeds have put into the cursor.
Read ==
    \A c \in Conn : /\ pc[c] \in InLoop \cup {"ready"} => cursor[c] \in Ids
                    /\ pc[c] = "seed_inbox" => cursor[c]["activity"] # None

\* What the client has: nothing beyond its id, all that was in sequence up to it.
Got ==
    /\ base = Latest <=> last = Latest
    /\ \A p \in Log : \A n \in received[p] : last # Latest /\ n <= last[p]
    /\ last # Latest =>
          \A p \in Log : \A n \in sequence[p] :
             base[p] < n /\ n <= last[p] => n \in received[p]

StreamInv == Types /\ Anchors /\ Connected /\ Got

-----------------------------------------------------------------------------
(* Pages and their frames *)

LEMMA LeastNumber == ASSUME NEW T \in SUBSET Nat, T # {} PROVE \E x \in T : \A y \in T : x <= y
<1> DEFINE R == OpToRel(<, Nat)
<1>1. IsWellFoundedOn(R, Nat)
  BY NatLessThanWellFounded
<1>2. ASSUME NEW x \in Nat, NEW y \in Nat, <<y, x>> \notin R PROVE x <= y
  <2>1. ~(y < x)
    BY <1>2 DEF OpToRel
  <2> QED
    BY <2>1
<1> HIDE DEF R
<1>3. PICK x \in T : \A y \in T : <<y, x>> \notin R
  BY <1>1, WFMin
<1> QED
  BY <1>2, <1>3

LEMMA Logs == /\ \A p \in Log : MaxRows[p] \in Nat /\ Number(p) \subseteq Nat \ {0}
              /\ \A p \in Log : IsFiniteSet(Number(p))
              /\ Latest \notin Ids /\ Ids \subseteq Cursor /\ Latest \in Cursor
<1>1. \A p \in Log : MaxRows[p] \in Nat /\ Number(p) \subseteq Nat \ {0}
  BY StreamAssumption DEF Number
<1>2. \A p \in Log : IsFiniteSet(Number(p))
  BY <1>1, FS_Interval DEF Number
<1>3. Latest \notin Ids
  BY StreamAssumption DEF Latest, Ids, Log
<1>4. Ids \subseteq Cursor /\ Latest \in Cursor
  BY DEF Ids, Cursor, Latest
<1> QED
  BY <1>1, <1>2, <1>3, <1>4

\* The page of a log is in the order of the numbers, and leaves out nothing between them.
LEMMA PageOrder ==
    ASSUME Types, NEW p \in Log, NEW after \in Nat, NEW page \in Pages(p, after)
    PROVE  /\ page \in Seq(Number(p))
           /\ \A i \in 1 .. Len(page) : /\ page[i] \in Number(p)
                                        /\ row[p][page[i]] = "visible" /\ after < page[i]
           /\ \A i, j \in 1 .. Len(page) : i < j => page[i] < page[j]
           /\ \A i \in 1 .. Len(page) :
                 NoneBetween(sequence[p], IF i = 1 THEN after ELSE page[i - 1], page[i])
<1> DEFINE listed == Listed(p, after)
           first == FirstOf(listed)
<1>1. listed \subseteq Number(p) /\ first \subseteq listed /\ Number(p) \subseteq Nat
  BY Logs DEF Listed, FirstOf
<1>2. /\ page \in [1 .. Cardinality(first) -> first] /\ Range(page) = first
      /\ \A i, j \in DOMAIN page : i < j => page[i] < page[j]
  BY DEF Pages, Ordered
<1>3. IsFiniteSet(listed) /\ Cardinality(first) \in Nat
  <2> HIDE DEF listed, first
  <2> QED
    BY <1>1, Logs, FS_Subset, FS_CardinalityType
<1>4. page \in Seq(Number(p)) /\ DOMAIN page = 1 .. Len(page)
  <2> HIDE DEF listed, first
  <2> QED
    BY <1>1, <1>2, <1>3
<1>5. \A i \in 1 .. Len(page) : page[i] \in listed /\ page[i] \in Nat
  <2> HIDE DEF listed, first
  <2> QED
    BY <1>1, <1>2, <1>4
<1>6. \A i \in 1 .. Len(page) : /\ page[i] \in Number(p)
                                /\ row[p][page[i]] = "visible" /\ after < page[i]
  <2>1. \A n \in listed : n \in Number(p) /\ row[p][n] = "visible" /\ after < n
    BY Logs DEF Listed, Beyond
  <2> HIDE DEF listed, first
  <2> QED
    BY <1>5, <2>1
<1>7. ASSUME NEW n \in first, NEW m \in listed, m < n PROVE m \in first
  <2> DEFINE below(k) == {l \in listed : l < k}
  <2>1. below(m) \subseteq below(n) /\ below(n) \subseteq listed
    <3> HIDE DEF listed
    <3>1. m \in Nat /\ n \in Nat /\ \A l \in listed : l \in Nat
      BY <1>1, <1>7
    <3>2. \A l \in listed : l < m => l < n
      BY <1>7, <3>1
    <3> QED
      BY <3>2
  <2>2. IsFiniteSet(below(n))
    <3> HIDE DEF listed, below
    <3> QED
      BY <1>3, <2>1, FS_Subset
  <2>3. Cardinality(below(m)) <= Cardinality(below(n)) /\ Cardinality(below(m)) \in Nat
        /\ Cardinality(below(n)) \in Nat
    <3> HIDE DEF listed, below
    <3> QED
      BY <2>1, <2>2, FS_Subset, FS_CardinalityType
  <2>4. Cardinality(below(n)) < Limit
    BY <1>7 DEF FirstOf
  <2>5. Cardinality(below(m)) < Limit
    <3> HIDE DEF listed, below
    <3> QED
      BY <2>3, <2>4, StreamAssumption
  <2> QED
    BY <1>7, <2>5 DEF FirstOf
<1>8. ASSUME NEW i \in 1 .. Len(page)
      PROVE  NoneBetween(sequence[p], IF i = 1 THEN after ELSE page[i - 1], page[i])
  <2> SUFFICES ASSUME NEW n \in sequence[p], (IF i = 1 THEN after ELSE page[i - 1]) < n,
                      n < page[i]
               PROVE  FALSE
    BY DEF NoneBetween
  <2>0. n \in Number(p) /\ row[p][n] = "visible"
    BY DEF sequence
  <2>1. after < n
    <3>1. CASE i = 1
      BY <3>1
    <3>2. CASE i # 1
      <4>1. i - 1 \in 1 .. Len(page) /\ page[i - 1] < n
        BY <1>4, <3>2
      <4>2. after < page[i - 1] /\ page[i - 1] \in Nat /\ n \in Nat
        BY <1>1, <1>5, <1>6, <2>0, <4>1
      <4> QED
        BY <4>1, <4>2
    <3> QED
      BY <3>1, <3>2
  <2>2. n \in listed
    BY <2>0, <2>1 DEF Listed, Beyond
  <2>3. page[i] \in first
    BY <1>2, <1>4
  <2>4. n \in first
    <3> HIDE DEF listed, first
    <3> QED
      BY <1>7, <2>2, <2>3
  <2>5. PICK j \in 1 .. Len(page) : page[j] = n
    <3> HIDE DEF listed, first
    <3> QED
      BY <1>2, <1>4, <2>4 DEF Range
  <2>6. i \in Nat /\ j \in Nat /\ page[i] \in Nat /\ page[j] \in Nat
    BY <1>4, <1>5
  <2>7. j < i
    BY <1>2, <1>4, <2>5, <2>6
  <2>8. i # 1 /\ i - 1 \in 1 .. Len(page) /\ i - 1 \in Nat /\ page[i - 1] \in Nat
    BY <1>4, <1>5, <2>6, <2>7
  <2>9. page[i - 1] < page[j]
    BY <2>5, <2>8
  <2>10. i - 1 < j
    <3>1. ~(j < i - 1)
      BY <1>2, <1>4, <2>6, <2>8, <2>9
    <3>2. j # i - 1
      BY <2>6, <2>9
    <3> QED
      BY <2>6, <2>8, <3>1, <3>2
  <2> QED
    BY <2>6, <2>7, <2>10
<1> HIDE DEF listed, first
<1> QED
  BY <1>2, <1>4, <1>6, <1>8

\* What the frames of a page are.
LEMMA FramesOf ==
    ASSUME Types, NEW p \in Log, NEW cur \in Cursor, cur[p] # None, NEW page \in Pages(p, cur[p])
    PROVE  /\ Len(RowFrames(p, page, cur)) = Len(page)
           /\ RowFrames(p, page, cur) \in Seq(Frame)
           /\ \A i \in 1 .. Len(page) :
                 /\ RowFrames(p, page, cur)[i].log = p
                 /\ RowFrames(p, page, cur)[i].n = page[i]
                 /\ RowFrames(p, page, cur)[i].id = composeStreamResumeId([cur EXCEPT ![p] = page[i]])
<1>1. cur[p] \in Nat
  BY DEF Cursor
<1>2. page \in Seq(Number(p)) /\ \A i \in 1 .. Len(page) : page[i] \in Nat
  BY <1>1, PageOrder, Logs
<1>3. DOMAIN page = 1 .. Len(page) /\ Len(page) \in Nat
  BY <1>2
<1>4. \A n \in Nat : RowFrame(p, n, cur) \in Frame
  <2>1. \A n \in Nat : composeStreamResumeId([cur EXCEPT ![p] = n]) \in [Log -> Nat]
    BY DEF composeStreamResumeId, Cursor
  <2> QED
    BY <2>1 DEF RowFrame, Frame
<1>5. RowFrames(p, page, cur) \in [1 .. Len(page) -> Frame]
  BY <1>2, <1>3, <1>4 DEF RowFrames
<1>6. RowFrames(p, page, cur) \in Seq(Frame) /\ Len(RowFrames(p, page, cur)) = Len(page)
  BY <1>3, <1>5
<1>7. \A i \in 1 .. Len(page) : RowFrames(p, page, cur)[i] = RowFrame(p, page[i], cur)
  BY <1>3 DEF RowFrames
<1>8. \A n \in Nat : /\ RowFrame(p, n, cur).log = p /\ RowFrame(p, n, cur).n = n
                     /\ RowFrame(p, n, cur).id = composeStreamResumeId([cur EXCEPT ![p] = n])
  BY DEF RowFrame
<1> QED
  BY <1>2, <1>6, <1>7, <1>8

\* An id of numbers is what it says.
LEMMA Composed == ASSUME NEW cur \in Ids PROVE composeStreamResumeId(cur) = cur
BY StreamAssumption DEF composeStreamResumeId, Ids

\* What a page leaves of the cursor.
LEMMA AfterPage ==
    ASSUME Types, NEW p \in Log, NEW cur \in Cursor, cur[p] # None, NEW page \in Pages(p, cur[p])
    PROVE  /\ After(p, page, cur) \in Cursor
           /\ cur \in Ids => After(p, page, cur) \in Ids
           /\ After(p, page, cur)[p] # None
           /\ \A q \in Log \ {p} : After(p, page, cur)[q] = cur[q]
           /\ Anchored(standing, cur) => Anchored(standing, After(p, page, cur))
<1>1. cur[p] \in Nat
  BY DEF Cursor
<1>2. page \in Seq(Number(p)) /\ \A i \in 1 .. Len(page) : /\ page[i] \in Number(p)
                                                         /\ row[p][page[i]] = "visible"
  BY <1>1, PageOrder
<1>3. CASE page = <<>>
  BY <1>1, <1>3 DEF After
<1>4. CASE page # <<>>
  <2> DEFINE n == page[Len(page)]
  <2>1. Len(page) \in 1 .. Len(page)
    BY <1>2, <1>4
  <2>2. n \in Number(p) /\ row[p][n] = "visible" /\ n \in Nat /\ n # None
    BY <1>2, <2>1, Logs, StreamAssumption
  <2>3. After(p, page, cur) = [cur EXCEPT ![p] = n]
    BY <1>4 DEF After
  <2> HIDE DEF n
  <2>4. /\ After(p, page, cur)[p] = n
        /\ \A q \in Log \ {p} : After(p, page, cur)[q] = cur[q]
        /\ After(p, page, cur) \in Cursor /\ (cur \in Ids => After(p, page, cur) \in Ids)
    BY <2>2, <2>3 DEF Cursor, Ids
  <2>5. n \in standing[p]
    BY <2>2 DEF standing, Committed
  <2>6. Anchored(standing, cur) => Anchored(standing, After(p, page, cur))
    BY <2>4, <2>5 DEF Anchored
  <2> QED
    BY <2>2, <2>4, <2>6
<1> QED
  BY <1>3, <1>4

\* Where the ids of the frames of a page stand.
LEMMA FramesAnchored ==
    ASSUME Types, NEW p \in Log, NEW cur \in Cursor, cur[p] # None, NEW page \in Pages(p, cur[p]),
           Anchored(standing, cur), NEW i \in 1 .. Len(RowFrames(p, page, cur))
    PROVE  Anchored(standing, RowFrames(p, page, cur)[i].id)
<1>1. cur[p] \in Nat
  BY DEF Cursor
<1>2. /\ i \in 1 .. Len(page)
      /\ RowFrames(p, page, cur)[i].id = composeStreamResumeId([cur EXCEPT ![p] = page[i]])
  BY FramesOf
<1>3. page[i] \in Number(p) /\ row[p][page[i]] = "visible"
  BY <1>1, <1>2, PageOrder
<1> DEFINE n == page[i]
           id == composeStreamResumeId([cur EXCEPT ![p] = n])
<1>4. id[p] = n /\ \A q \in Log \ {p} : id[q] = (IF cur[q] = None THEN 0 ELSE cur[q])
  BY <1>3, Logs, StreamAssumption DEF composeStreamResumeId, Cursor
<1>5. n \in standing[p] /\ \A q \in Log : 0 \in standing[q]
  BY <1>3 DEF standing, Committed
<1>6. Anchored(standing, id)
  <2> HIDE DEF id, n
  <2> QED
    BY <1>4, <1>5 DEF Anchored
<1> QED
  BY <1>2, <1>6

\* The frames of a page continue the cursor it was read from.
LEMMA FramesChain ==
    ASSUME Types, NEW p \in Log, NEW cur \in Ids, NEW page \in Pages(p, cur[p])
    PROVE  /\ Chain(sequence, cur, RowFrames(p, page, cur))
           /\ EndOf(cur, RowFrames(p, page, cur)) = After(p, page, cur)
<1> DEFINE frames == RowFrames(p, page, cur)
<1>1. cur \in Cursor /\ cur[p] \in Nat /\ cur[p] # None /\ cur # Latest
  BY Logs, StreamAssumption DEF Ids
<1>2. /\ page \in Seq(Number(p))
      /\ \A i \in 1 .. Len(page) : page[i] \in Nat /\ cur[p] < page[i]
      /\ \A i, j \in 1 .. Len(page) : i < j => page[i] < page[j]
      /\ \A i \in 1 .. Len(page) : NoneBetween(sequence[p], IF i = 1 THEN cur[p] ELSE page[i - 1], page[i])
  BY <1>1, PageOrder, Logs
<1>3. /\ frames \in Seq(Frame) /\ Len(frames) = Len(page)
      /\ \A i \in 1 .. Len(page) : frames[i].log = p /\ frames[i].n = page[i]
  BY <1>1, FramesOf
<1>4. \A i \in 1 .. Len(page) : frames[i].id = [cur EXCEPT ![p] = page[i]]
  <2>1. \A n \in Nat : [cur EXCEPT ![p] = n] \in Ids
    BY DEF Ids
  <2>2. \A i \in 1 .. Len(page) : frames[i].id = composeStreamResumeId([cur EXCEPT ![p] = page[i]])
    BY <1>1, FramesOf
  <2> QED
    BY <1>2, <2>1, <2>2, Composed
<1> HIDE DEF frames
<1>5. ASSUME NEW i \in 1 .. Len(frames) PROVE Follows(sequence, frames[i], Before(cur, frames, i))
  <2>0. i \in 1 .. Len(page) /\ frames[i].log = p /\ frames[i].n = page[i]
        /\ frames[i].id = [cur EXCEPT ![p] = page[i]]
    BY <1>3, <1>4
  <2>1. CASE i = 1
    <3>1. Before(cur, frames, i) = cur
      BY <2>1 DEF Before
    <3>2. cur[p] < page[i] /\ NoneBetween(sequence[p], cur[p], page[i])
      BY <1>2, <2>0, <2>1
    <3> QED
      BY <1>1, <2>0, <3>1, <3>2 DEF Follows
  <2>2. CASE i # 1
    <3>1. i - 1 \in 1 .. Len(page) /\ i - 1 < i
      BY <1>2, <2>0, <2>2
    <3>2. Before(cur, frames, i) = [cur EXCEPT ![p] = page[i - 1]]
      BY <1>4, <2>2, <3>1 DEF Before
    <3>3. page[i - 1] < page[i] /\ NoneBetween(sequence[p], page[i - 1], page[i]) /\ page[i - 1] \in Nat
      BY <1>2, <2>0, <2>2, <3>1
    <3> DEFINE id == [cur EXCEPT ![p] = page[i - 1]]
    <3>4. id \in Ids /\ id # Latest /\ id[p] = page[i - 1]
      BY <3>3, Logs DEF Ids
    <3>5. frames[i].id = [id EXCEPT ![p] = page[i]]
      BY <2>0 DEF Ids
    <3> HIDE DEF id
    <3>6. Follows(sequence, frames[i], id)
      BY <2>0, <3>3, <3>4, <3>5 DEF Follows
    <3> QED
      BY <3>2, <3>6 DEF id
  <2> QED
    BY <2>1, <2>2
<1>6. EndOf(cur, frames) = After(p, page, cur)
  <2>1. CASE page = <<>>
    <3>1. frames = <<>>
      BY <1>3, <2>1
    <3> QED
      BY <2>1, <3>1 DEF EndOf, After
  <2>2. CASE page # <<>>
    <3>1. Len(page) \in 1 .. Len(page) /\ frames # <<>>
      BY <1>2, <1>3, <2>2
    <3> QED
      BY <1>3, <1>4, <2>2, <3>1 DEF EndOf, After
  <2> QED
    BY <2>1, <2>2
<1> QED
  BY <1>5, <1>6 DEF Chain, frames

-----------------------------------------------------------------------------
(* Chains *)

\* What continues the end of a chain continues the chain.
LEMMA ChainAppends ==
    ASSUME NEW rows, NEW id, NEW s \in Seq(Frame), NEW t \in Seq(Frame),
           Chain(rows, id, s), Chain(rows, EndOf(id, s), t)
    PROVE  /\ s \o t \in Seq(Frame) /\ Chain(rows, id, s \o t)
           /\ EndOf(id, s \o t) = EndOf(EndOf(id, s), t)
<1>1. /\ s \o t \in Seq(Frame) /\ Len(s \o t) = Len(s) + Len(t)
      /\ \A i \in 1 .. Len(s) : (s \o t)[i] = s[i]
      /\ \A i \in 1 .. Len(t) : (s \o t)[Len(s) + i] = t[i]
      /\ Len(s) \in Nat /\ Len(t) \in Nat
  OBVIOUS
<1> DEFINE u == s \o t
<1>2. ASSUME NEW i \in 1 .. Len(u) PROVE Follows(rows, u[i], Before(id, u, i))
  <2>1. CASE i <= Len(s)
    <3>1. i \in 1 .. Len(s) /\ u[i] = s[i] /\ (i # 1 => u[i - 1] = s[i - 1])
      BY <1>1, <2>1
    <3>2. Before(id, u, i) = Before(id, s, i)
      BY <3>1 DEF Before
    <3> QED
      BY <3>1, <3>2 DEF Chain
  <2>2. CASE i > Len(s)
    <3>1. PICK j \in 1 .. Len(t) : i = Len(s) + j
      <4>1. i - Len(s) \in 1 .. Len(t) /\ i = Len(s) + (i - Len(s))
        BY <1>1, <2>2
      <4> QED
        BY <4>1
    <3>2. u[i] = t[j]
      BY <1>1, <3>1
    <3>3. Before(id, u, i) = Before(EndOf(id, s), t, j)
      <4>1. CASE j = 1 /\ s = <<>>
        BY <1>1, <3>1, <4>1 DEF Before, EndOf
      <4>2. CASE j = 1 /\ s # <<>>
        <5>1. i # 1 /\ i - 1 = Len(s) /\ Len(s) \in 1 .. Len(s)
          BY <1>1, <3>1, <4>2
        <5> QED
          BY <1>1, <4>2, <5>1 DEF Before, EndOf
      <4>3. CASE j # 1
        <5>1. i # 1 /\ i - 1 = Len(s) + (j - 1) /\ j - 1 \in 1 .. Len(t)
          BY <1>1, <3>1, <4>3
        <5>2. u[i - 1] = t[j - 1]
          BY <1>1, <5>1
        <5> QED
          BY <4>3, <5>1, <5>2 DEF Before
      <4> QED
        BY <4>1, <4>2, <4>3
    <3> QED
      BY <3>2, <3>3 DEF Chain
  <2> QED
    BY <1>1, <2>1, <2>2
<1>3. EndOf(id, u) = EndOf(EndOf(id, s), t)
  <2>1. CASE t = <<>>
    <3>1. u = s
      BY <2>1
    <3> QED
      BY <2>1, <3>1 DEF EndOf
  <2>2. CASE t # <<>>
    <3>1. Len(t) \in 1 .. Len(t) /\ u # <<>> /\ Len(u) = Len(s) + Len(t)
      BY <1>1, <2>2
    <3> QED
      BY <1>1, <2>2, <3>1 DEF EndOf
  <2> QED
    BY <2>1, <2>2
<1> QED
  BY <1>1, <1>2, <1>3 DEF Chain

\* A chain without its first frame follows that frame.
LEMMA ChainTail ==
    ASSUME NEW rows, NEW id, NEW s \in Seq(Frame), s # <<>>, Chain(rows, id, s)
    PROVE  /\ Follows(rows, Head(s), id) /\ Chain(rows, Head(s).id, Tail(s))
           /\ EndOf(Head(s).id, Tail(s)) = EndOf(id, s)
<1>1. /\ Tail(s) \in Seq(Frame) /\ Len(Tail(s)) = Len(s) - 1 /\ Head(s) = s[1]
      /\ \A i \in 1 .. Len(Tail(s)) : Tail(s)[i] = s[i + 1]
      /\ Len(s) \in Nat \ {0} /\ 1 \in 1 .. Len(s)
  OBVIOUS
<1>2. Follows(rows, Head(s), id)
  BY <1>1 DEF Chain, Before
<1>3. ASSUME NEW i \in 1 .. Len(Tail(s)) PROVE Follows(rows, Tail(s)[i], Before(Head(s).id, Tail(s), i))
  <2>1. i + 1 \in 1 .. Len(s) /\ i + 1 # 1 /\ Tail(s)[i] = s[i + 1] /\ (i + 1) - 1 = i
    BY <1>1
  <2>2. Before(id, s, i + 1) = Before(Head(s).id, Tail(s), i)
    <3>1. CASE i = 1
      BY <1>1, <2>1, <3>1 DEF Before
    <3>2. CASE i # 1
      <4>1. i - 1 \in 1 .. Len(Tail(s)) /\ (i - 1) + 1 = i
        BY <1>1, <3>2
      <4>2. Tail(s)[i - 1] = s[i]
        BY <1>1, <4>1
      <4> QED
        BY <2>1, <3>2, <4>2 DEF Before
    <3> QED
      BY <3>1, <3>2
  <2> QED
    BY <2>1, <2>2 DEF Chain
<1>4. EndOf(Head(s).id, Tail(s)) = EndOf(id, s)
  <2>0a. PICK t \in Seq(Frame) : t = Tail(s)
    BY <1>1
  <2>0b. PICK h : h = Head(s).id
    OBVIOUS
  <2>0. t = Tail(s) /\ h = Head(s).id
    BY <2>0a, <2>0b
  <2>1. EndOf(id, s) = s[Len(s)].id
    BY DEF EndOf
  <2>2. EndOf(h, t) = s[Len(s)].id
    <3>1. CASE Len(s) = 1
      <4>1. t = <<>> /\ h = s[Len(s)].id
        BY <1>1, <2>0, <3>1
      <4> QED
        BY <4>1 DEF EndOf
    <3>2. CASE Len(s) # 1
      <4>1. /\ Len(t) = Len(s) - 1 /\ Len(t) \in 1 .. Len(t)
            /\ \A i \in 1 .. Len(t) : t[i] = s[i + 1]
        BY <1>1, <2>0, <3>2
      <4>2. t # <<>> /\ t[Len(t)] = s[Len(t) + 1] /\ Len(t) + 1 = Len(s)
        BY <1>1, <4>1
      <4> QED
        BY <4>2 DEF EndOf
    <3> QED
      BY <3>1, <3>2
  <2> QED
    BY <2>0, <2>1, <2>2
<1> QED
  BY <1>2, <1>3, <1>4 DEF Chain

LEMMA EmptyChain == \A rows, id : Chain(rows, id, <<>>) /\ EndOf(id, <<>>) = id
BY DEF Chain, EndOf

\* Along a chain the ids only grow, and grow with each row of a log.
LEMMA ChainAscends ==
    ASSUME NEW rows, NEW id \in Ids \cup {Latest}, NEW s \in Seq(Frame), Chain(rows, id, s),
           NEW p \in Log, NEW j \in 0 .. Len(s), j = 0 => id # Latest,
           NEW i \in 1 .. Len(s), j < i
    PROVE  /\ Before(id, s, j + 1)[p] <= s[i].id[p]
           /\ s[i].log = p => s[i].n = s[i].id[p] /\ Before(id, s, j + 1)[p] < s[i].n
<1> DEFINE at(k) == Before(id, s, k + 1)
           Broken == {k \in j + 1 .. Len(s) : ~(at(j)[p] <= at(k)[p])}
<1>1. /\ Len(s) \in Nat /\ i \in Nat /\ j \in Nat
      /\ \A k \in 1 .. Len(s) : s[k] \in Frame /\ s[k].id \in Ids /\ s[k].n \in Nat
                                /\ at(k) = s[k].id
  <2>1. \A k \in 1 .. Len(s) : s[k] \in Frame
    OBVIOUS
  <2>2. \A k \in 1 .. Len(s) : at(k) = s[k].id
    BY DEF Before
  <2>3. \A f \in Frame : f.id \in Ids /\ f.n \in Nat
    BY DEF Frame, Ids
  <2> QED
    BY <2>1, <2>2, <2>3
<1>2. ASSUME NEW k \in j .. Len(s) PROVE at(k) \in Ids /\ at(k)[p] \in Nat /\ at(k) # Latest
  <2>1. CASE k = 0
    <3>1. j = 0 /\ id \in Ids
      BY <1>1, <2>1
    <3> QED
      BY <2>1, <3>1, Logs DEF Before, Ids
  <2>2. CASE k # 0
    BY <1>1, <2>2, Logs DEF Ids
  <2> QED
    BY <2>1, <2>2
<1>3. ASSUME NEW k \in j + 1 .. Len(s)
      PROVE  /\ at(k - 1)[p] <= at(k)[p]
             /\ s[k].log = p => s[k].n = s[k].id[p] /\ at(k - 1)[p] < s[k].n
  <2>1. k \in 1 .. Len(s) /\ k - 1 \in j .. Len(s) /\ (k - 1) + 1 = k
    BY <1>1
  <2>2. Follows(rows, s[k], at(k - 1)) /\ at(k - 1) \in Ids /\ at(k - 1) # Latest
        /\ at(k - 1)[p] \in Nat /\ at(k) = s[k].id
    BY <1>1, <1>2, <2>1 DEF Chain
  <2>3. PICK x \in Ids : x = at(k - 1)
    BY <2>2
  <2>4. PICK f \in Frame : f = s[k]
    BY <1>1, <2>1
  <2> HIDE DEF at
  <2>5. x[p] <= f.id[p] /\ (f.log = p => f.n = f.id[p] /\ x[p] < f.n)
    <3>1. x[p] \in Nat /\ f.n \in Nat /\ x # Latest /\ Follows(rows, f, x)
      BY <2>2, <2>3, <2>4 DEF Frame
    <3>2. CASE f.log = "ready" /\ f.id = x
      BY <3>1, <3>2 DEF Log
    <3>3. CASE f.log \in Log /\ f.id = [x EXCEPT ![f.log] = f.n] /\ x[f.log] < f.n
      BY <3>1, <3>3 DEF Ids
    <3> QED
      BY <3>1, <3>2, <3>3 DEF Follows
  <2> QED
    BY <2>2, <2>3, <2>4, <2>5
<1>4. Broken = {}
  <2> SUFFICES ASSUME Broken # {} PROVE FALSE
    OBVIOUS
  <2>1. PICK k \in Broken : \A l \in Broken : k <= l
    <3>1. Broken \in SUBSET Nat
      BY <1>1
    <3> HIDE DEF Broken
    <3> QED
      BY <3>1, LeastNumber
  <2>2. k \in j + 1 .. Len(s) /\ k - 1 \in j .. Len(s) /\ ~(at(j)[p] <= at(k)[p])
    BY <1>1
  <2>3. at(j)[p] <= at(k - 1)[p]
    <3>1. CASE k = j + 1
      <4>1. k - 1 = j
        BY <1>1, <2>2, <3>1
      <4>2. at(j)[p] \in Nat /\ at(k - 1) = at(j)
        BY <1>1, <1>2, <4>1
      <4> HIDE DEF at
      <4> QED
        BY <4>2
    <3>2. CASE k # j + 1
      <4>1. k - 1 \in j + 1 .. Len(s) /\ ~(k <= k - 1)
        BY <1>1, <2>2, <3>2
      <4> HIDE DEF at
      <4> QED
        BY <2>1, <4>1
    <3> QED
      BY <3>1, <3>2
  <2>4. at(k - 1)[p] <= at(k)[p] /\ at(j)[p] \in Nat /\ at(k - 1)[p] \in Nat /\ at(k)[p] \in Nat
    <3>1. j \in j .. Len(s) /\ k \in j .. Len(s)
      BY <1>1, <2>2
    <3> HIDE DEF at
    <3> QED
      BY <1>2, <1>3, <2>2, <3>1
  <2> HIDE DEF at, Broken
  <2> QED
    BY <2>2, <2>3, <2>4
<1>5. i \in j + 1 .. Len(s) /\ i - 1 \in j .. Len(s) /\ at(i) = s[i].id
  BY <1>1
<1>6. at(j)[p] <= at(i)[p]
  BY <1>4, <1>5
<1>7. at(j)[p] <= at(i - 1)[p]
  <2>1. CASE i - 1 = j
    <3>1. at(j)[p] \in Nat /\ at(i - 1) = at(j)
      <4>1. j \in j .. Len(s)
        BY <1>1
      <4> QED
        BY <1>2, <2>1, <4>1
    <3> HIDE DEF at
    <3> QED
      BY <3>1
  <2>2. CASE i - 1 # j
    <3>1. i - 1 \in j + 1 .. Len(s)
      BY <1>1, <1>5, <2>2
    <3> QED
      BY <1>4, <3>1
  <2> QED
    BY <2>1, <2>2
<1>8. at(j)[p] \in Nat /\ at(i - 1)[p] \in Nat /\ s[i].n \in Nat
  <2>1. j \in j .. Len(s) /\ i - 1 \in j .. Len(s)
    BY <1>1
  <2> HIDE DEF at
  <2> QED
    BY <1>1, <1>2, <2>1
<1>9. s[i].log = p => s[i].n = s[i].id[p] /\ at(i - 1)[p] < s[i].n
  BY <1>3, <1>5
<1>10. s[i].log = p => at(j)[p] < s[i].n
  <2> HIDE DEF at
  <2> QED
    BY <1>7, <1>8, <1>9
<1> QED
  BY <1>5, <1>6, <1>9, <1>10

\* What writers do to the rows: cursors stand where they stood, and below them no row
\* comes into sequence.
LEMMA WritersKeepOrder ==
    ASSUME Types, NEW q \in Log, NEW n \in Number(q), Insert(q, n) \/ Commit(q, n) \/ Hide(q, n)
    PROVE  \A p \in Log : /\ standing[p] \subseteq standing'[p]
                          /\ \A y \in standing[p], m \in sequence'[p] : m <= y => m \in sequence[p]
<1> SUFFICES ASSUME NEW p \in Log
             PROVE  /\ standing[p] \subseteq standing'[p]
                    /\ \A y \in standing[p], m \in sequence'[p] : m <= y => m \in sequence[p]
  OBVIOUS
<1>0. /\ row = [o \in Log |-> row[o]] /\ \A o \in Log : row[o] \in [Number(o) -> RowState]
      /\ Number(p) \subseteq Nat \ {0}
  BY Logs DEF Types
<1>1. /\ \A m \in Number(p) : Committed(p, m) => row'[p][m] \in {"visible", "hidden"}
      /\ \A m \in Number(p) : row'[p][m] = "visible" /\ row[p][m] # "visible" =>
            /\ ~Committed(p, m)
            /\ \A k \in Number(p) : k > m /\ Committed(p, k) => m \in overtaken'[p]
      /\ overtaken[p] \subseteq overtaken'[p]
  <2>0. overtaken \in [Log -> SUBSET Nat]
    BY DEF Types
  <2>1. CASE Insert(q, n)
    <3>1. row' = [row EXCEPT ![q][n] = "writing"] /\ row[q][n] = "none" /\ overtaken' = overtaken
      BY <2>1 DEF Insert
    <3> QED
      BY <1>0, <3>1 DEF Committed
  <2>2. CASE Commit(q, n)
    <3>1. /\ row' = [row EXCEPT ![q][n] = "visible"] /\ row[q][n] = "writing"
          /\ overtaken' = [overtaken EXCEPT ![q] =
                 IF \E m \in Number(q) : m > n /\ Committed(q, m) THEN overtaken[q] \cup {n}
                                                                  ELSE overtaken[q]]
      BY <2>2 DEF Commit
    <3>2. /\ \A m \in Number(p) : row'[p][m] = IF p = q /\ m = n THEN "visible" ELSE row[p][m]
      BY <1>0, <3>1
    <3>3. overtaken'[p] = IF p = q /\ \E m \in Number(q) : m > n /\ Committed(q, m)
                          THEN overtaken[p] \cup {n} ELSE overtaken[p]
      BY <2>0, <3>1
    <3> QED
      BY <3>1, <3>2, <3>3 DEF Committed
  <2>3. CASE Hide(q, n)
    <3>1. row' = [row EXCEPT ![q][n] = "hidden"] /\ row[q][n] = "visible" /\ overtaken' = overtaken
      BY <2>3 DEF Hide
    <3> QED
      BY <1>0, <3>1 DEF Committed
  <2> QED
    BY <2>1, <2>2, <2>3
<1>2. standing[p] \subseteq standing'[p]
  BY <1>1 DEF standing, Committed
<1>3. ASSUME NEW y \in standing[p], NEW m \in sequence'[p], m <= y PROVE m \in sequence[p]
  <2>1. m \in Number(p) /\ m \in Nat /\ m # 0 /\ row'[p][m] = "visible" /\ m \notin overtaken'[p]
    BY <1>0, <1>3 DEF sequence
  <2>2. CASE row[p][m] = "visible"
    BY <1>1, <2>1, <2>2 DEF sequence
  <2>3. CASE row[p][m] # "visible"
    <3>1. ~Committed(p, m)
      BY <1>1, <2>1, <2>3
    <3>2. y \in Number(p) /\ Committed(p, y) /\ y \in Nat /\ y # m
      BY <1>0, <1>3, <2>1, <3>1 DEF standing
    <3>3. y > m
      BY <1>3, <2>1, <3>2
    <3> QED
      BY <1>1, <2>1, <2>3, <3>2, <3>3
  <2> QED
    BY <2>2, <2>3
<1> QED
  BY <1>2, <1>3

\* A chain of committed numbers stays one.
LEMMA ChainKept ==
    ASSUME NEW before, NEW after, NEW numbers, NEW id \in Ids \cup {Latest}, NEW s \in Seq(Frame),
           \A p \in Log : \A y \in numbers[p], m \in after[p] : m <= y => m \in before[p],
           \A p \in Log : after[p] \subseteq Nat,
           \A i \in 1 .. Len(s) : Anchored(numbers, s[i].id),
           Chain(before, id, s)
    PROVE  Chain(after, id, s)
<1> SUFFICES ASSUME NEW i \in 1 .. Len(s) PROVE Follows(after, s[i], Before(id, s, i))
  BY DEF Chain
<1>1. PICK f \in Frame : f = s[i]
  OBVIOUS
<1>2. PICK x : x = Before(id, s, i)
  OBVIOUS
<1>3. x \in Ids \cup {Latest}
  <2>1. CASE i = 1
    BY <1>2, <2>1 DEF Before
  <2>2. CASE i # 1
    <3>1. i - 1 \in 1 .. Len(s)
      BY <2>2
    <3>2. s[i - 1] \in Frame
      BY <3>1
    <3>3. s[i - 1].id \in Ids
      BY <3>2 DEF Frame, Ids
    <3> QED
      BY <1>2, <2>2, <3>3 DEF Before
  <2> QED
    BY <2>1, <2>2
<1>4. Follows(before, f, x) /\ Anchored(numbers, f.id) /\ f.n \in Nat
  BY <1>1, <1>2 DEF Chain, Frame
<1>5. CASE x = Latest
  BY <1>1, <1>2, <1>4, <1>5 DEF Follows
<1>6. CASE x # Latest /\ f.log \in Log
  <2>1. /\ x \in Ids /\ f.id = [x EXCEPT ![f.log] = f.n] /\ x[f.log] < f.n
        /\ NoneBetween(before[f.log], x[f.log], f.n)
    BY <1>3, <1>4, <1>6 DEF Follows, Log
  <2>2. f.n \in numbers[f.log]
    BY <1>4, <1>6, <2>1, StreamAssumption DEF Anchored, Ids
  <2>3. NoneBetween(after[f.log], x[f.log], f.n)
    BY <1>4, <1>6, <2>1, <2>2 DEF NoneBetween
  <2> QED
    BY <1>1, <1>2, <1>6, <2>1, <2>3 DEF Follows
<1>7. CASE x # Latest /\ f.log \notin Log
  BY <1>1, <1>2, <1>4, <1>7 DEF Follows
<1> QED
  BY <1>5, <1>6, <1>7

-----------------------------------------------------------------------------
(* The rows and the client *)

LEMMA InitInv == Init => StreamInv
<1> SUFFICES ASSUME Init PROVE StreamInv
  OBVIOUS
<1> USE DEF Init
<1>1. <<>> \in Seq(Frame) /\ Len(<<>>) = 0 /\ \A rows : Chain(rows, Latest, <<>>)
  BY EmptyChain
<1>2. Types
  <2>1. row = [p \in Log |-> row[p]] /\ \A p \in Log : row[p] \in [Number(p) -> RowState]
    BY DEF RowState
  <2>2. MaxConn \in Nat /\ opened \in 0 .. MaxConn /\ held \in 0 .. opened
    BY StreamAssumption
  <2>3. pc \in [Conn -> Running \cup {"unopened", "done"}]
    OBVIOUS
  <2>4. cursor \in [Conn -> Cursor] /\ unsent \in [Conn -> Seq(Frame)] /\ wire \in Seq(Frame)
    BY <1>1, Logs
  <2>5. overtaken \in [Log -> SUBSET Nat] /\ received \in [Log -> SUBSET Nat]
    OBVIOUS
  <2> QED
    BY <2>1, <2>2, <2>3, <2>4, <2>5 DEF Types
<1>3. Anchors
  BY <1>1 DEF Anchors, Anchored, Latest
<1>4. Connected
  BY <1>1 DEF Connected
<1>5. Got
  BY DEF Got
<1> QED
  BY <1>2, <1>3, <1>4, <1>5 DEF StreamInv

LEMMA Basics ==
    ASSUME StreamInv
    PROVE  /\ \A p \in Log : sequence[p] \subseteq Nat /\ standing[p] \subseteq Nat /\ 0 \in standing[p]
           /\ held # 0 => held \in Conn
           /\ last # Latest => last \in Ids /\ last \in Cursor
           /\ \A f \in Frame : f.id \in Ids /\ f.n \in Nat /\ f.log \in Log \cup {"ready"}
<1>1. \A p \in Log : sequence[p] \subseteq Nat /\ standing[p] \subseteq Nat /\ 0 \in standing[p]
  BY Logs DEF sequence, standing
<1>2. held # 0 => held \in Conn
  BY StreamAssumption DEF StreamInv, Types, Conn
<1>3. last # Latest => last \in Ids /\ last \in Cursor
  BY Logs DEF StreamInv, Types
<1>4. \A f \in Frame : f.id \in Ids /\ f.n \in Nat /\ f.log \in Log \cup {"ready"}
  BY DEF Frame, Ids
<1> QED
  BY <1>1, <1>2, <1>3, <1>4

LEMMA WritersKept ==
    ASSUME StreamInv, NEW q \in Log, NEW n \in Number(q), Insert(q, n) \/ Commit(q, n) \/ Hide(q, n)
    PROVE  StreamInv'
<1>0. Types /\ Anchors /\ Connected /\ Got
  BY DEF StreamInv
<1>1. UNCHANGED <<pc, cursor, unsent, opened, held, wire, eof, last, base, received>>
  BY DEF Insert, Commit, Hide, stream, client
<1>2. \A p \in Log : /\ standing[p] \subseteq standing'[p]
                     /\ \A y \in standing[p], m \in sequence'[p] : m <= y => m \in sequence[p]
  BY <1>0, WritersKeepOrder
<1>3. Types'
  <2>0. /\ row = [p \in Log |-> row[p]] /\ \A p \in Log : row[p] \in [Number(p) -> RowState]
        /\ overtaken \in [Log -> SUBSET Nat] /\ n \in Nat
    BY <1>0, Logs DEF Types
  <2>1. PICK state \in RowState : row' = [row EXCEPT ![q][n] = state]
    BY DEF Insert, Commit, Hide, RowState
  <2>2. row' = [p \in Log |-> row'[p]] /\ \A p \in Log : row'[p] \in [Number(p) -> RowState]
    BY <2>0, <2>1
  <2>3. overtaken' \in [Log -> SUBSET Nat]
    <3>1. PICK set \in SUBSET Nat : overtaken' = overtaken \/ overtaken' = [overtaken EXCEPT ![q] = set]
      BY <2>0 DEF Insert, Commit, Hide
    <3> QED
      BY <2>0, <3>1
  <2> QED
    BY <1>0, <1>1, <2>2, <2>3 DEF Types
<1>4. Anchors'
  <2>1. \A id : Anchored(standing, id) => Anchored(standing', id)
    BY <1>2 DEF Anchored
  <2> QED
    BY <1>0, <1>1, <2>1 DEF Anchors
<1>5. \A p \in Log : sequence'[p] \subseteq Nat
  BY Logs DEF sequence
<1>6. Chain(sequence', last, wire)
  BY <1>0, <1>2, <1>5, ChainKept DEF Types, Anchors, Connected
<1>7. ASSUME NEW c \in Conn, Chain(sequence, last, unsent[c]) PROVE Chain(sequence', last, unsent[c])
  <2>1. unsent[c] \in Seq(Frame) /\ last \in Ids \cup {Latest}
        /\ \A i \in 1 .. Len(unsent[c]) : Anchored(standing, unsent[c][i].id)
    BY <1>0 DEF Types, Anchors
  <2> QED
    BY <1>2, <1>5, <1>7, <2>1, ChainKept
<1>8. Connected'
  <2>1. held' # 0 /\ ~eof' => Continues(held)'
    <3> SUFFICES ASSUME held # 0, ~eof PROVE Continues(held)'
      BY <1>1
    <3>1. held \in Conn /\ Continues(held)
      BY <1>0, Basics DEF Connected
    <3>2. Seeded(held) => Seeded(held)'
      BY <1>1, <1>7, <3>1 DEF Seeded
    <3> QED
      BY <1>1, <3>1, <3>2 DEF Continues
  <2>2. \A c \in Conn : c > opened' => pc'[c] = "unopened"
    BY <1>0, <1>1 DEF Connected
  <2> QED
    BY <1>0, <1>1, <1>6, <2>1, <2>2 DEF Connected
<1>9. Got'
  <2>1. ASSUME last # Latest, NEW p \in Log, NEW m \in sequence'[p], base[p] < m, m <= last[p]
        PROVE  m \in received[p]
    <3>1. last[p] \in standing[p]
      BY <1>0, <2>1, Basics, StreamAssumption DEF Anchors, Anchored, Ids
    <3>2. m \in sequence[p]
      BY <1>2, <2>1, <3>1
    <3> QED
      BY <1>0, <2>1, <3>2 DEF Got
  <2> QED
    BY <1>0, <1>1, <2>1 DEF Got
<1> QED
  BY <1>3, <1>4, <1>8, <1>9 DEF StreamInv

LEMMA ConnectKept == ASSUME StreamInv, Connect PROVE StreamInv'
<1>0. Types /\ Anchors /\ Connected /\ Got
  BY DEF StreamInv
<1> DEFINE c == opened + 1
<1>1. c \in Conn /\ opened \in Nat /\ MaxConn \in Nat /\ opened' = c /\ held' = c
  BY <1>0, StreamAssumption DEF Connect, Types, Conn
<1>2. /\ pc' = [pc EXCEPT ![c] = "seed_activity"] /\ cursor' = [cursor EXCEPT ![c] = last]
      /\ UNCHANGED <<row, overtaken, unsent, wire, last, base, received>> /\ eof' = FALSE /\ held = 0
  BY <1>1 DEF Connect, db
<1> HIDE DEF c
<1>3. sequence' = sequence /\ standing' = standing
  BY <1>2 DEF sequence, standing, Committed
<1>4. last \in Cursor /\ pc[c] = "unopened" /\ unsent[c] = <<>> /\ wire = <<>>
  <2>1. c > opened
    BY <1>1 DEF c
  <2> QED
    BY <1>0, <1>1, <1>2, <2>1, Logs DEF Types, Connected
<1>5. Types'
  <2>1. pc' \in [Conn -> Running \cup {"unopened", "done"}] /\ cursor' \in [Conn -> Cursor]
    BY <1>0, <1>1, <1>2, <1>4 DEF Types, Running
  <2>2. opened' \in 0 .. MaxConn /\ held' \in 0 .. opened'
    BY <1>1 DEF Conn
  <2> QED
    BY <1>0, <1>2, <2>1, <2>2 DEF Types
<1>6. Anchors'
  BY <1>0, <1>1, <1>2, <1>3 DEF Types, Anchors
<1>7. Connected'
  <2>1. \A d \in Conn : d > opened' => pc'[d] = "unopened"
    <3> SUFFICES ASSUME NEW d \in Conn, d > opened' PROVE pc'[d] = "unopened"
      OBVIOUS
    <3>1. d # c /\ d > opened
      BY <1>1 DEF c, Conn
    <3> QED
      BY <1>0, <1>2, <3>1 DEF Connected, Types
  <2>2. \A d \in Conn : pc'[d] = "unopened" => unsent'[d] = <<>>
    BY <1>0, <1>1, <1>2 DEF Connected, Types
  <2>3. Continues(held)'
    <3>1. pc'[c] = "seed_activity" /\ cursor'[c] = last
      BY <1>0, <1>1, <1>2 DEF Types
    <3> QED
      BY <1>1, <1>2, <1>4, <3>1 DEF Continues, InLoop
  <2>4. held' # 0
    BY <1>1 DEF Conn
  <2> QED
    BY <1>0, <1>2, <1>3, <2>1, <2>2, <2>3, <2>4 DEF Connected
<1>8. Got'
  BY <1>0, <1>2, <1>3 DEF Got
<1> QED
  BY <1>5, <1>6, <1>7, <1>8 DEF StreamInv

LEMMA DropKept == ASSUME StreamInv, Drop \/ SeeEnd PROVE StreamInv'
<1>0. Types /\ Anchors /\ Connected /\ Got
  BY DEF StreamInv
<1>1. /\ UNCHANGED <<row, overtaken, pc, cursor, unsent, opened, last, base, received>>
      /\ held' = 0 /\ wire' = <<>> /\ eof' = FALSE
  BY DEF Drop, SeeEnd, db, stream
<1>2. sequence' = sequence /\ standing' = standing /\ Len(<<>>) = 0 /\ <<>> \in Seq(Frame)
  BY <1>1 DEF sequence, standing, Committed
<1>3. opened \in Nat
  BY <1>0, StreamAssumption DEF Types
<1>4. Types'
  <2>1. held' \in 0 .. opened' /\ eof' \in BOOLEAN /\ wire' \in Seq(Frame)
    <3>1. opened' = opened /\ held' = 0 /\ eof' = FALSE /\ wire' = <<>>
      BY <1>1
    <3>2. 0 \in 0 .. opened
      BY <1>3
    <3> QED
      BY <1>2, <3>1, <3>2
  <2> QED
    BY <1>0, <1>1, <2>1 DEF Types
<1>5. Anchors'
  BY <1>0, <1>1, <1>2 DEF Anchors
<1>6. Connected'
  BY <1>0, <1>1, <1>2, EmptyChain DEF Connected
<1>7. Got'
  BY <1>0, <1>1, <1>2 DEF Got
<1> QED
  BY <1>4, <1>5, <1>6, <1>7 DEF StreamInv

LEMMA ReceiveKept == ASSUME StreamInv, Receive PROVE StreamInv'
<1>0. Types /\ Anchors /\ Connected /\ Got
  BY DEF StreamInv
<1>1. PICK f : f = Head(wire)
  OBVIOUS
<1>2. /\ wire # <<>> /\ wire' = Tail(wire) /\ last' = f.id
      /\ base' = (IF base = Latest THEN f.id ELSE base)
      /\ received' = [p \in Log |-> IF f.log = p THEN received[p] \cup {f.n} ELSE received[p]]
      /\ UNCHANGED <<row, overtaken, pc, cursor, unsent, opened, held, eof>>
  BY <1>1 DEF Receive, db, stream
<1>3. sequence' = sequence /\ standing' = standing
  BY <1>2 DEF sequence, standing, Committed
<1>4. /\ f \in Frame /\ wire' \in Seq(Frame) /\ wire \in Seq(Frame)
      /\ Len(wire) \in Nat /\ Len(wire') = Len(wire) - 1 /\ f = wire[1] /\ 1 \in 1 .. Len(wire)
      /\ \A i \in 1 .. Len(wire') : wire'[i] = wire[i + 1]
  BY <1>0, <1>1, <1>2 DEF Types
<1>5. f.id \in Ids /\ f.n \in Nat
  BY <1>4, Basics
<1>6. /\ Follows(sequence, f, last) /\ Chain(sequence, f.id, wire')
      /\ EndOf(f.id, wire') = EndOf(last, wire)
  BY <1>0, <1>1, <1>2, <1>4, ChainTail DEF Connected
<1>7. Types'
  <2>1. received' \in [Log -> SUBSET Nat]
    BY <1>0, <1>2, <1>5 DEF Types
  <2>2. last' \in Ids \cup {Latest} /\ base' \in Ids \cup {Latest}
    BY <1>0, <1>2, <1>5 DEF Types
  <2> QED
    BY <1>0, <1>2, <1>4, <2>1, <2>2 DEF Types
<1>8. Anchors'
  <2>1. Anchored(standing, last')
    BY <1>0, <1>2, <1>4 DEF Anchors
  <2>2. ASSUME NEW i \in 1 .. Len(wire') PROVE Anchored(standing, wire'[i].id)
    <3>1. i + 1 \in 1 .. Len(wire)
      BY <1>4
    <3> QED
      BY <1>0, <1>4, <3>1 DEF Anchors
  <2> QED
    BY <1>0, <1>2, <1>3, <2>1, <2>2 DEF Anchors
<1>9. Connected'
  <2>1. ASSUME held # 0, ~eof PROVE Continues(held)'
    <3>1. Continues(held)
      BY <1>0, <2>1 DEF Connected
    <3>2. pc[held] \notin {"seed_activity", "seed_inbox", "ready"}
      BY <1>2, <3>1 DEF Continues
    <3> QED
      BY <1>2, <1>6, <3>1, <3>2 DEF Continues
  <2>2. held # 0
    BY <1>0, <1>2 DEF Connected
  <2> QED
    BY <1>0, <1>2, <1>3, <1>6, <2>1, <2>2 DEF Connected
<1>10. Got'
  <2>1. f.id # Latest
    BY <1>5, Logs
  <2>2. base' # Latest
    BY <1>2, <2>1
  <2>3. CASE last = Latest
    <3>1. f.log = "ready" /\ base = Latest /\ \A p \in Log : received[p] = {}
      BY <1>0, <1>6, <2>3 DEF Follows, Got, Types
    <3>2. \A p \in Log : received'[p] = {}
      BY <1>2, <3>1 DEF Log
    <3>3. base' = f.id /\ last' = f.id /\ \A p \in Log : f.id[p] \in Nat
      BY <1>2, <1>5, <3>1 DEF Ids
    <3>4. \A p \in Log : \A n \in sequence[p] : ~(f.id[p] < n /\ n <= f.id[p])
      BY <3>3, Basics
    <3> QED
      BY <1>3, <2>1, <3>2, <3>3, <3>4 DEF Got
  <2>4. CASE last # Latest
    <3>1. last \in Ids /\ base' = base /\ base # Latest
      BY <1>0, <1>2, <2>4, Basics DEF Got
    <3>2. \A p \in Log : last[p] \in Nat /\ f.id[p] \in Nat /\ last[p] <= f.id[p]
      <4>1. \A p \in Log : last[p] \in Nat /\ f.id[p] \in Nat
        BY <1>5, <3>1 DEF Ids
      <4> QED
        BY <1>5, <1>6, <2>4, <3>1, <4>1 DEF Follows, Ids
    <3>3. \A p \in Log : f.log = p => f.id[p] = f.n
      BY <1>6, <2>4, <3>1 DEF Follows, Ids, Log
    <3>4. ASSUME NEW p \in Log, NEW n \in received'[p] PROVE last' # Latest /\ n <= last'[p]
      <4>1. received[p] \subseteq Nat
        BY <1>0 DEF Types
      <4>2. n \in received[p] \/ (f.log = p /\ n = f.n)
        BY <1>2, <3>4
      <4>3. CASE n \in received[p]
        <5>1. n <= last[p] /\ n \in Nat
          BY <1>0, <4>1, <4>3 DEF Got
        <5> QED
          BY <1>2, <2>1, <3>2, <5>1
      <4>4. CASE f.log = p /\ n = f.n
        BY <1>2, <2>1, <3>2, <3>3, <4>4
      <4> QED
        BY <4>2, <4>3, <4>4
    <3>5. ASSUME NEW p \in Log, NEW n \in sequence[p], base[p] < n, n <= f.id[p] PROVE n \in received'[p]
      <4>1. n \in Nat
        BY Basics
      <4>2. CASE n <= last[p]
        BY <1>0, <1>2, <2>4, <3>5, <4>2 DEF Got
      <4>3. CASE last[p] < n
        <5>1. f.log = p /\ f.n = f.id[p] /\ NoneBetween(sequence[p], last[p], f.n)
          <6>1. f.id # last
            BY <3>2, <3>5, <4>1, <4>3
          <6>2. /\ f.log \in Log /\ f.id = [last EXCEPT ![f.log] = f.n]
                /\ NoneBetween(sequence[f.log], last[f.log], f.n)
            BY <1>6, <2>4, <6>1 DEF Follows
          <6>3. f.log = p
            <7>1. f.log # p => f.id[p] = last[p]
              BY <3>1, <6>2 DEF Ids
            <7> QED
              BY <3>2, <3>5, <4>1, <4>3, <7>1
          <6> QED
            BY <3>3, <6>2, <6>3
        <5>2. n = f.n
          BY <1>5, <3>5, <4>1, <4>3, <5>1 DEF NoneBetween
        <5> QED
          BY <1>2, <5>1, <5>2
      <4> QED
        BY <3>2, <4>1, <4>2, <4>3
    <3> QED
      BY <1>2, <1>3, <2>1, <3>1, <3>4, <3>5 DEF Got
  <2> QED
    BY <2>3, <2>4
<1> QED
  BY <1>7, <1>8, <1>9, <1>10 DEF StreamInv

-----------------------------------------------------------------------------
(* The server *)

\* What a step of the server leaves alone.
LEMMA ServerTypes ==
    ASSUME StreamInv, UNCHANGED <<row, overtaken, opened, held, last, base, received>>,
           pc' \in [Conn -> Running \cup {"unopened", "done"}], eof' \in BOOLEAN,
           cursor' \in [Conn -> Cursor], unsent' \in [Conn -> Seq(Frame)], wire' \in Seq(Frame),
           \A c \in Conn : Anchored(standing, cursor'[c]),
           \A c \in Conn : \A i \in 1 .. Len(unsent'[c]) : Anchored(standing, unsent'[c][i].id),
           \A i \in 1 .. Len(wire') : Anchored(standing, wire'[i].id)
    PROVE  /\ sequence' = sequence /\ standing' = standing
           /\ Types' /\ Anchors' /\ Got'
<1>1. sequence' = sequence /\ standing' = standing
  BY DEF sequence, standing, Committed
<1>2. Types'
  BY DEF StreamInv, Types
<1>3. Anchors'
  BY <1>1 DEF StreamInv, Anchors
<1>4. Got'
  BY <1>1 DEF StreamInv, Got
<1> QED
  BY <1>1, <1>2, <1>3, <1>4

\* A step that the held connection takes no part in, or in which it ends.
LEMMA OthersKept ==
    ASSUME StreamInv, UNCHANGED <<row, overtaken, opened, held, last, base, received, wire>>,
           pc' \in [Conn -> Running \cup {"unopened", "done"}], eof' \in BOOLEAN, eof => eof',
           cursor' \in [Conn -> Cursor], unsent' \in [Conn -> Seq(Frame)],
           \A c \in Conn : Anchored(standing, cursor'[c]),
           \A c \in Conn : \A i \in 1 .. Len(unsent'[c]) : Anchored(standing, unsent'[c][i].id),
           \A c \in Conn : pc[c] = "unopened" <=> pc'[c] = "unopened",
           \A c \in Conn : pc[c] = "unopened" => unsent'[c] = unsent[c],
           held # 0 /\ ~eof' =>
              \/ pc'[held] = "done"
              \/ /\ pc'[held] = pc[held] \/ (pc[held] \in InLoop /\ pc'[held] \in InLoop)
                 /\ cursor'[held] = cursor[held] /\ unsent'[held] = unsent[held]
    PROVE  StreamInv'
<1>0. Types /\ Anchors /\ Connected /\ Got
  BY DEF StreamInv
<1>1. sequence' = sequence /\ Types' /\ Anchors' /\ Got'
  <2>1. wire' \in Seq(Frame) /\ \A i \in 1 .. Len(wire') : Anchored(standing, wire'[i].id)
    BY <1>0 DEF Types, Anchors
  <2> QED
    BY <2>1, ServerTypes
<1>2. ASSUME held # 0, ~eof' PROVE Continues(held)'
  <2>0. Continues(held) /\ held \in Conn
    BY <1>0, <1>2, Basics DEF Connected
  <2>1. CASE pc'[held] = "done"
    BY <2>1 DEF Continues, InLoop
  <2>2. CASE pc'[held] # "done"
    <3>1. /\ pc'[held] = pc[held] \/ (pc[held] \in InLoop /\ pc'[held] \in InLoop)
          /\ cursor'[held] = cursor[held] /\ unsent'[held] = unsent[held]
      BY <1>2, <2>2
    <3>2. Seeded(held) => Seeded(held)'
      BY <1>1, <3>1 DEF Seeded
    <3>3. CASE pc'[held] \in InLoop
      BY <2>0, <3>1, <3>3 DEF Continues, InLoop
    <3>4. CASE pc'[held] \notin InLoop
      BY <2>0, <3>1, <3>2, <3>4 DEF Continues
    <3> QED
      BY <3>3, <3>4
  <2> QED
    BY <2>1, <2>2
<1>3. Connected'
  <2>1. \A c \in Conn : c > opened => pc'[c] = "unopened"
    BY <1>0 DEF Connected
  <2>2. \A c \in Conn : pc'[c] = "unopened" => unsent'[c] = <<>>
    BY <1>0 DEF Connected
  <2> QED
    BY <1>0, <1>1, <1>2, <2>1, <2>2 DEF Connected
<1> QED
  BY <1>1, <1>3 DEF StreamInv

\* A step of the held connection that leads to another point of its program.
LEMMA HeldKept ==
    ASSUME StreamInv, UNCHANGED <<row, overtaken, opened, held, last, base, received>>,
           held # 0, ~eof, pc[held] # "unopened",
           pc' \in [Conn -> Running \cup {"unopened", "done"}], eof' \in BOOLEAN,
           cursor' \in [Conn -> Cursor], unsent' \in [Conn -> Seq(Frame)], wire' \in Seq(Frame),
           \A c \in Conn : Anchored(standing, cursor'[c]),
           \A c \in Conn : \A i \in 1 .. Len(unsent'[c]) : Anchored(standing, unsent'[c][i].id),
           \A i \in 1 .. Len(wire') : Anchored(standing, wire'[i].id),
           \A c \in Conn : pc[c] = "unopened" <=> pc'[c] = "unopened",
           \A c \in Conn \ {held} : unsent'[c] = unsent[c],
           Chain(sequence, last, wire'),
           ~eof' =>
              \/ pc'[held] = "done"
              \/ /\ pc'[held] \in {"seed_inbox", "ready"} /\ wire' = <<>>
                 /\ IF last = Latest THEN unsent'[held] = <<>>
                    ELSE Chain(sequence, last, unsent'[held])
                         /\ cursor'[held] = EndOf(last, unsent'[held])
                 /\ pc'[held] = "seed_inbox" /\ last = Latest =>
                       cursor'[held]["inbox"] = None
              \/ pc'[held] \in InLoop /\ cursor'[held] = EndOf(last, wire')
    PROVE  StreamInv'
<1>0. Types /\ Anchors /\ Connected /\ Got /\ held \in Conn
  BY Basics DEF StreamInv
<1>1. sequence' = sequence /\ Types' /\ Anchors' /\ Got'
  BY ServerTypes
<1>2. ASSUME ~eof' PROVE Continues(held)'
  <2>1. CASE pc'[held] = "done"
    BY <2>1 DEF Continues, InLoop
  <2>2. CASE pc'[held] \in {"seed_inbox", "ready"}
    BY <1>1, <1>2, <2>2 DEF Continues, Seeded, InLoop
  <2>3. CASE pc'[held] \in InLoop
    BY <1>2, <2>3 DEF Continues, InLoop
  <2> QED
    BY <1>2, <2>1, <2>2, <2>3
<1>3. Connected'
  <2>1. \A c \in Conn : c > opened => pc'[c] = "unopened"
    BY <1>0 DEF Connected
  <2>2. \A c \in Conn : pc'[c] = "unopened" => unsent'[c] = <<>>
    BY <1>0 DEF Connected
  <2> QED
    BY <1>0, <1>1, <1>2, <2>1, <2>2 DEF Connected
<1> QED
  BY <1>1, <1>3 DEF StreamInv

LEMMA JoinAnchored ==
    ASSUME NEW numbers, NEW s \in Seq(Frame), NEW t \in Seq(Frame),
           \A i \in 1 .. Len(s) : Anchored(numbers, s[i].id),
           \A i \in 1 .. Len(t) : Anchored(numbers, t[i].id)
    PROVE  /\ s \o t \in Seq(Frame)
           /\ \A i \in 1 .. Len(s \o t) : Anchored(numbers, (s \o t)[i].id)
<1>1. /\ s \o t \in Seq(Frame) /\ Len(s \o t) = Len(s) + Len(t)
      /\ \A i \in 1 .. Len(s) : (s \o t)[i] = s[i]
      /\ \A i \in 1 .. Len(t) : (s \o t)[Len(s) + i] = t[i]
      /\ Len(s) \in Nat /\ Len(t) \in Nat
  OBVIOUS
<1>2. ASSUME NEW i \in 1 .. Len(s \o t) PROVE Anchored(numbers, (s \o t)[i].id)
  <2>1. CASE i <= Len(s)
    <3>1. i \in 1 .. Len(s) /\ (s \o t)[i] = s[i]
      BY <1>1, <2>1
    <3> QED
      BY <3>1
  <2>2. CASE i > Len(s)
    <3>1. i - Len(s) \in 1 .. Len(t) /\ i = Len(s) + (i - Len(s))
      BY <1>1, <2>2
    <3>2. (s \o t)[i] = t[i - Len(s)]
      BY <1>1, <3>1
    <3> QED
      BY <3>1, <3>2
  <2> QED
    BY <1>1, <2>1, <2>2
<1> QED
  BY <1>1, <1>2

\* What is written to the wire.
LEMMA WrittenFrames ==
    ASSUME StreamInv, NEW c \in Conn, NEW frames \in Seq(Frame),
           \A i \in 1 .. Len(frames) : Anchored(standing, frames[i].id)
    PROVE  /\ Written(c, frames) \in Seq(Frame)
           /\ \A i \in 1 .. Len(Written(c, frames)) : Anchored(standing, Written(c, frames)[i].id)
<1>1. wire \in Seq(Frame) /\ \A i \in 1 .. Len(wire) : Anchored(standing, wire[i].id)
  BY DEF StreamInv, Types, Anchors
<1>2. CASE c = held /\ ~eof
  <2>1. Written(c, frames) = wire \o frames
    BY <1>2 DEF Written
  <2> QED
    BY <1>1, <2>1, JoinAnchored
<1>3. CASE ~(c = held /\ ~eof)
  <2>1. Written(c, frames) = wire
    BY <1>3 DEF Written
  <2> QED
    BY <1>1, <2>1
<1> QED
  BY <1>2, <1>3

LEMMA HighWaterStands == ASSUME NEW p \in Log PROVE HighWater(p) \in standing[p]
<1> DEFINE set == {0} \cup {n \in Number(p) : Committed(p, n)}
           fromTop == {MaxRows[p] - n : n \in set}
<1>1. MaxRows[p] \in Nat /\ set \subseteq 0 .. MaxRows[p] /\ 0 \in set
  BY Logs DEF Number
<1>2. fromTop \in SUBSET Nat /\ fromTop # {}
  BY <1>1
<1>3. PICK least \in fromTop : \A n \in fromTop : least <= n
  <2> HIDE DEF fromTop
  <2> QED
    BY <1>2, LeastNumber
<1>4. PICK n \in set : least = MaxRows[p] - n
  OBVIOUS
<1>5. ASSUME NEW m \in set PROVE n >= m
  <2>1. least <= MaxRows[p] - m /\ m \in Nat /\ n \in Nat
    BY <1>1, <1>3
  <2> QED
    BY <1>1, <1>4, <2>1
<1>6. Max(set) \in set
  <2> HIDE DEF set
  <2> QED
    BY <1>5 DEF Max
<1> QED
  BY <1>6 DEF HighWater, standing

\* Ready and Leave let go of what a connection that ends had read.
LEMMA ForgetKeeps ==
    ASSUME StreamInv, cursor' = Forget(cursor)
    PROVE  /\ cursor' \in [Conn -> Cursor]
           /\ \A c \in Conn : Anchored(standing, cursor'[c])
           /\ \A c \in Conn : pc'[c] # "done" => cursor'[c] = cursor[c]
<1>1. \A c \in Conn : cursor'[c] = IF pc'[c] = "done" THEN Latest ELSE cursor[c]
  BY DEF Forget
<1>2. cursor \in [Conn -> Cursor] /\ \A c \in Conn : Anchored(standing, cursor[c])
  BY DEF StreamInv, Types, Anchors
<1>3. Latest \in Cursor /\ Anchored(standing, Latest)
  BY Logs DEF Anchored, Latest
<1>4. cursor' \in [Conn -> Cursor]
  BY <1>2, <1>3 DEF Forget
<1> QED
  BY <1>1, <1>2, <1>3, <1>4

LEMMA NoticeKept == ASSUME StreamInv, NEW c \in Conn, NoticeClose(c) PROVE StreamInv'
<1>0. Types /\ Anchors
  BY DEF StreamInv
<1>1. /\ pc[c] \in Running /\ c # held
      /\ pc' = [d \in Conn |-> IF d = c /\ pc[d] \in InLoop THEN "done" ELSE pc[d]]
      /\ cursor' = Forget(cursor)
      /\ UNCHANGED <<row, overtaken, opened, held, last, base, received, wire, eof, unsent>>
  BY DEF NoticeClose, AfterAbort, db, client
<1>2. pc' \in [Conn -> Running \cup {"unopened", "done"}]
  BY <1>0, <1>1 DEF Types
<1>3. /\ cursor' \in [Conn -> Cursor] /\ \A d \in Conn : Anchored(standing, cursor'[d])
      /\ \A d \in Conn : pc'[d] # "done" => cursor'[d] = cursor[d]
  BY <1>1, ForgetKeeps
<1>4. \A d \in Conn : pc[d] = "unopened" <=> pc'[d] = "unopened"
  BY <1>1 DEF Running, InLoop
<1>5. /\ unsent' \in [Conn -> Seq(Frame)] /\ eof' \in BOOLEAN
      /\ \A d \in Conn : \A i \in 1 .. Len(unsent'[d]) : Anchored(standing, unsent'[d][i].id)
  BY <1>0, <1>1 DEF Types, Anchors
<1>6. held # 0 => pc'[held] = pc[held] /\ (pc'[held] = "done" \/ cursor'[held] = cursor[held])
  BY <1>1, <1>3, Basics
<1> QED
  BY <1>1, <1>2, <1>3, <1>4, <1>5, <1>6, OthersKept

LEMMA LeaveKept == ASSUME StreamInv, NEW c \in Conn, Leave(c) PROVE StreamInv'
<1>0. Types /\ Anchors
  BY DEF StreamInv
<1>1. /\ pc[c] = "round" /\ eof' = (eof \/ c = held)
      /\ pc' = [pc EXCEPT ![c] = "done"] /\ cursor' = Forget(cursor)
      /\ UNCHANGED <<row, overtaken, opened, held, last, base, received, wire, unsent>>
  BY DEF Leave, db
<1>2. pc' \in [Conn -> Running \cup {"unopened", "done"}]
  BY <1>0, <1>1 DEF Types
<1>3. /\ cursor' \in [Conn -> Cursor] /\ \A d \in Conn : Anchored(standing, cursor'[d])
      /\ \A d \in Conn : pc'[d] # "done" => cursor'[d] = cursor[d]
  BY <1>1, ForgetKeeps
<1>4. \A d \in Conn : pc'[d] = IF d = c THEN "done" ELSE pc[d]
  BY <1>0, <1>1 DEF Types
<1>5. \A d \in Conn : pc[d] = "unopened" <=> pc'[d] = "unopened"
  BY <1>1, <1>4
<1>6. /\ unsent' \in [Conn -> Seq(Frame)] /\ eof' \in BOOLEAN /\ (eof => eof')
      /\ \A d \in Conn : \A i \in 1 .. Len(unsent'[d]) : Anchored(standing, unsent'[d][i].id)
  BY <1>0, <1>1 DEF Types, Anchors
<1>7. held # 0 /\ ~eof' => \/ pc'[held] = "done"
                           \/ pc'[held] = pc[held] /\ cursor'[held] = cursor[held]
  BY <1>3, <1>4, Basics
<1> QED
  BY <1>1, <1>2, <1>3, <1>5, <1>6, <1>7, OthersKept

LEMMA WaitKept ==
    ASSUME StreamInv, NEW c \in Conn, WaitForUpdate(c) \/ Notify(c) \/ Timeout(c) PROVE StreamInv'
<1>0. Types /\ Anchors
  BY DEF StreamInv
<1>1. /\ pc[c] \in InLoop /\ \E to \in InLoop : pc' = [pc EXCEPT ![c] = to]
      /\ UNCHANGED <<row, overtaken, opened, held, last, base, received, wire, unsent, cursor, eof>>
  BY DEF WaitForUpdate, Notify, Timeout, Heartbeat, db, client, InLoop
<1>2. PICK to \in InLoop : pc' = [pc EXCEPT ![c] = to]
  BY <1>1
<1>3. pc' \in [Conn -> Running \cup {"unopened", "done"}]
  BY <1>0, <1>2 DEF Types, Running
<1>4. \A d \in Conn : pc'[d] = IF d = c THEN to ELSE pc[d]
  BY <1>0, <1>2 DEF Types
<1>5. \A d \in Conn : pc[d] = "unopened" <=> pc'[d] = "unopened"
  BY <1>1, <1>4 DEF InLoop
<1>6. /\ unsent' \in [Conn -> Seq(Frame)] /\ eof' \in BOOLEAN /\ cursor' \in [Conn -> Cursor]
      /\ \A d \in Conn : Anchored(standing, cursor'[d])
      /\ \A d \in Conn : \A i \in 1 .. Len(unsent'[d]) : Anchored(standing, unsent'[d][i].id)
  BY <1>0, <1>1 DEF Types, Anchors
<1>7. held # 0 => pc'[held] = pc[held] \/ (pc[held] \in InLoop /\ pc'[held] \in InLoop)
  BY <1>1, <1>4, Basics
<1> QED
  BY <1>1, <1>3, <1>5, <1>6, <1>7, OthersKept

\* A page is read and its frames are written.
LEMMA ListKept ==
    ASSUME StreamInv, Read, NEW c \in Conn, ListActivity(c) \/ ListInbox(c) PROVE StreamInv'
<1>0. Types /\ Anchors /\ Connected
  BY DEF StreamInv
<1>1. PICK p \in Log, to \in InLoop :
         /\ \E page \in Pages(p, cursor[c][p]) : Send(c, p, page)
         /\ pc' = [pc EXCEPT ![c] = to] /\ pc[c] \in InLoop
  <2>1. CASE ListActivity(c)
    BY <2>1 DEF ListActivity, InLoop, Log
  <2>2. CASE ListInbox(c)
    BY <2>2 DEF ListInbox, InLoop, Log
  <2> QED
    BY <2>1, <2>2
<1>2. PICK page \in Pages(p, cursor[c][p]) : Send(c, p, page)
  BY <1>1
<1>3. PICK cur \in Ids : cur = cursor[c]
  BY <1>1 DEF Read
<1>4. cur \in Cursor /\ cur[p] # None /\ page \in Pages(p, cur[p])
  BY <1>2, <1>3, Logs, StreamAssumption DEF Ids
<1> DEFINE frames == RowFrames(p, page, cur)
           after == After(p, page, cur)
<1>5. /\ wire' = Written(c, frames) /\ cursor' = [cursor EXCEPT ![c] = after]
      /\ UNCHANGED <<row, overtaken, opened, held, last, base, received, unsent, eof>>
  BY <1>2, <1>3 DEF Send, db
<1>6. /\ frames \in Seq(Frame) /\ Anchored(standing, cur)
      /\ \A i \in 1 .. Len(frames) : Anchored(standing, frames[i].id)
  BY <1>0, <1>3, <1>4, FramesOf, FramesAnchored DEF Anchors
<1>7. after \in Cursor /\ Anchored(standing, after)
  BY <1>0, <1>3, <1>4, <1>6, AfterPage
<1>8. Chain(sequence, cur, frames) /\ EndOf(cur, frames) = after
  BY <1>0, <1>3, <1>4, FramesChain, AfterPage
<1> HIDE DEF frames, after
<1>9. wire' \in Seq(Frame) /\ \A i \in 1 .. Len(wire') : Anchored(standing, wire'[i].id)
  BY <1>5, <1>6, WrittenFrames
<1>10. /\ cursor' \in [Conn -> Cursor] /\ cursor'[c] = after
       /\ \A d \in Conn \ {c} : cursor'[d] = cursor[d]
       /\ \A d \in Conn : Anchored(standing, cursor'[d])
  BY <1>0, <1>5, <1>7 DEF Types, Anchors
<1>11. /\ pc' \in [Conn -> Running \cup {"unopened", "done"}] /\ pc'[c] = to
       /\ \A d \in Conn \ {c} : pc'[d] = pc[d]
       /\ \A d \in Conn : pc[d] = "unopened" <=> pc'[d] = "unopened"
  BY <1>0, <1>1 DEF Types, Running, InLoop
<1>12. /\ unsent' \in [Conn -> Seq(Frame)] /\ eof' \in BOOLEAN
       /\ \A d \in Conn : \A i \in 1 .. Len(unsent'[d]) : Anchored(standing, unsent'[d][i].id)
  BY <1>0, <1>5 DEF Types, Anchors
<1>13. CASE c = held /\ ~eof
  <2>1. held # 0 /\ pc[held] # "unopened"
    BY <1>1, <1>13, StreamAssumption DEF InLoop, Conn
  <2>2. cur = EndOf(last, wire) /\ cur \in Ids
    BY <1>0, <1>1, <1>3, <1>13, <2>1 DEF Connected, Continues
  <2>3. wire' = wire \o frames
    BY <1>5, <1>13 DEF Written
  <2>4. /\ Chain(sequence, last, wire') /\ EndOf(last, wire') = after
    BY <1>0, <1>6, <1>8, <2>2, <2>3, ChainAppends DEF Types, Connected
  <2> QED
    BY <1>5, <1>8, <1>9, <1>10, <1>11, <1>12, <1>13, <2>1, <2>2, <2>4, HeldKept
<1>14. CASE ~(c = held /\ ~eof)
  <2>1. wire' = wire
    BY <1>5, <1>14 DEF Written
  <2>2. held # 0 /\ ~eof' => pc'[held] = pc[held] /\ cursor'[held] = cursor[held]
    BY <1>5, <1>10, <1>11, <1>14, Basics
  <2> QED
    BY <1>5, <1>10, <1>11, <1>12, <2>1, <2>2, OthersKept
<1> QED
  BY <1>13, <1>14

\* A seed reads the high-water mark, or a page whose frames wait.
LEMMA SeedKept ==
    ASSUME StreamInv, Read, NEW c \in Conn, NEW p \in Log, NEW at, NEW next \in {"seed_inbox", "ready"},
           Seed(c, p, at, next), <<p, at, next>> \in {<<"activity", "seed_activity", "seed_inbox">>,
                                                      <<"inbox", "seed_inbox", "ready">>}
    PROVE  StreamInv'
<1>0. Types /\ Anchors /\ Connected
  BY DEF StreamInv
<1>1. PICK cur \in Cursor : cur = cursor[c]
  BY <1>0 DEF Types
<1>2. PICK old \in Seq(Frame) : old = unsent[c]
  BY <1>0 DEF Types
<1>3. Anchored(standing, cur) /\ \A i \in 1 .. Len(old) : Anchored(standing, old[i].id)
  BY <1>0, <1>1, <1>2 DEF Anchors
<1>4. /\ pc[c] = at /\ pc' = [pc EXCEPT ![c] = next]
      /\ UNCHANGED <<row, overtaken, opened, held, last, base, received, wire, eof>>
      /\ at \in {"seed_activity", "seed_inbox"}
  BY DEF Seed, db, client
<1>5. ASSUME NEW after \in Cursor, NEW frames \in Seq(Frame),
             Anchored(standing, after), \A i \in 1 .. Len(frames) : Anchored(standing, frames[i].id),
             cursor' = [cursor EXCEPT ![c] = after], unsent' = [unsent EXCEPT ![c] = frames],
             c = held /\ ~eof =>
                IF last = Latest THEN frames = <<>> /\ (next = "seed_inbox" => after["inbox"] = None)
                ELSE Chain(sequence, last, frames) /\ after = EndOf(last, frames)
      PROVE  StreamInv'
  <2>1. /\ cursor' \in [Conn -> Cursor] /\ cursor'[c] = after
        /\ \A d \in Conn \ {c} : cursor'[d] = cursor[d]
        /\ \A d \in Conn : Anchored(standing, cursor'[d])
    BY <1>0, <1>5 DEF Types, Anchors
  <2>2. /\ unsent' \in [Conn -> Seq(Frame)] /\ unsent'[c] = frames
        /\ \A d \in Conn \ {c} : unsent'[d] = unsent[d]
    BY <1>0, <1>5 DEF Types
  <2>3. \A d \in Conn : \A i \in 1 .. Len(unsent'[d]) : Anchored(standing, unsent'[d][i].id)
    <3> SUFFICES ASSUME NEW d \in Conn
                 PROVE  \A i \in 1 .. Len(unsent'[d]) : Anchored(standing, unsent'[d][i].id)
      OBVIOUS
    <3>1. CASE d = c
      BY <1>5, <2>2, <3>1
    <3>2. CASE d # c
      BY <1>0, <2>2, <3>2 DEF Anchors
    <3> QED
      BY <3>1, <3>2
  <2>4. /\ pc' \in [Conn -> Running \cup {"unopened", "done"}] /\ pc'[c] = next
        /\ \A d \in Conn \ {c} : pc'[d] = pc[d]
        /\ \A d \in Conn : pc[d] = "unopened" <=> pc'[d] = "unopened"
    BY <1>0, <1>4 DEF Types, Running
  <2>5. eof' \in BOOLEAN /\ wire' \in Seq(Frame) /\ \A i \in 1 .. Len(wire') : Anchored(standing, wire'[i].id)
    BY <1>0, <1>4 DEF Types, Anchors
  <2>6. CASE c = held /\ ~eof
    <3>1. held # 0 /\ pc[held] # "unopened"
      BY <1>4, <2>6, StreamAssumption DEF Conn
    <3>2. wire' = <<>> /\ Chain(sequence, last, wire')
      BY <1>0, <1>4, <2>6, <3>1 DEF Connected, Continues
    <3>3. \A d \in Conn \ {held} : unsent'[d] = unsent[d]
      BY <2>2, <2>6
    <3> QED
      BY <1>4, <1>5, <2>1, <2>2, <2>3, <2>4, <2>5, <2>6, <3>1, <3>2, <3>3, HeldKept
  <2>7. CASE ~(c = held /\ ~eof)
    <3>1. held # 0 /\ ~eof' => /\ pc'[held] = pc[held] /\ cursor'[held] = cursor[held]
                               /\ unsent'[held] = unsent[held]
      BY <1>4, <2>1, <2>2, <2>4, <2>7, Basics
    <3>2. \A d \in Conn : pc[d] = "unopened" => unsent'[d] = unsent[d]
      BY <1>4, <2>2
    <3> QED
      BY <1>4, <2>1, <2>2, <2>3, <2>4, <2>5, <3>1, <3>2, OthersKept
  <2> QED
    BY <2>6, <2>7
\* What the held connection has read so far.
<1>6. c = held /\ ~eof =>
         IF last = Latest THEN old = <<>> /\ cur[p] = None
         ELSE Chain(sequence, last, old) /\ cur = EndOf(last, old) /\ cur \in Ids
  <2> SUFFICES ASSUME c = held, ~eof
               PROVE  IF last = Latest THEN old = <<>> /\ cur[p] = None
                      ELSE Chain(sequence, last, old) /\ cur = EndOf(last, old) /\ cur \in Ids
    OBVIOUS
  <2>1. Continues(c) /\ held # 0
    BY <1>0, StreamAssumption DEF Connected, Conn
  <2>2. CASE p = "activity"
    <3>1. at = "seed_activity"
      BY <2>2
    <3>2. old = <<>> /\ cur = last
      BY <1>1, <1>2, <1>4, <2>1, <3>1 DEF Continues
    <3>3. last = Latest => cur[p] = None
      BY <3>2 DEF Latest
    <3> QED
      BY <1>1, <3>2, <3>3, EmptyChain, Basics
  <2>3. CASE p = "inbox"
    <3>1. at = "seed_inbox"
      BY <2>3
    <3>2. Seeded(c) /\ (last = Latest => cur["inbox"] = None)
      BY <1>1, <1>4, <2>1, <3>1 DEF Continues
    <3>3. CASE last = Latest
      BY <1>2, <2>3, <3>2, <3>3 DEF Seeded
    <3>4. CASE last # Latest
      <4>1. Chain(sequence, last, old) /\ cur = EndOf(last, old)
        BY <1>1, <1>2, <3>2, <3>4 DEF Seeded
      <4>2. CASE old = <<>>
        BY <3>4, <4>1, <4>2, EmptyChain, Basics
      <4>3. CASE old # <<>>
        <5>1. old[Len(old)] \in Frame
          BY <4>3
        <5> QED
          BY <3>4, <4>1, <4>3, <5>1, Basics DEF EndOf
      <4> QED
        BY <4>1, <4>2, <4>3
    <3> QED
      BY <3>3, <3>4
  <2> QED
    BY <2>2, <2>3 DEF Log
<1>7. CASE cur[p] = None
  <2> DEFINE after == [cur EXCEPT ![p] = HighWater(p)]
  <2>0. HighWater(p) \in standing[p] /\ HighWater(p) \in Nat
    BY HighWaterStands, Basics
  <2>1. /\ cursor' = [cursor EXCEPT ![c] = after] /\ unsent' = unsent
    BY <1>1, <1>7 DEF Seed
  <2>2. after \in Cursor /\ after[p] = HighWater(p) /\ \A q \in Log \ {p} : after[q] = cur[q]
    BY <2>0 DEF Cursor
  <2> HIDE DEF after
  <2>3. Anchored(standing, after)
    BY <1>3, <2>0, <2>2 DEF Anchored
  <2>4. unsent' = [unsent EXCEPT ![c] = old]
    BY <1>0, <1>2, <2>1 DEF Types
  <2>5. ASSUME c = held, ~eof
        PROVE  last = Latest /\ old = <<>> /\ (next = "seed_inbox" => after["inbox"] = None)
    <3>1. last = Latest /\ old = <<>>
      BY <1>6, <1>7, <2>5, StreamAssumption DEF Ids
    <3>2. next = "seed_inbox" => p = "activity" /\ at = "seed_activity"
      OBVIOUS
    <3>3. next = "seed_inbox" => cur = last
      BY <1>0, <1>1, <1>4, <2>5, <3>2, StreamAssumption DEF Connected, Continues, Conn
    <3>4. next = "seed_inbox" => after["inbox"] = cur["inbox"]
      BY <2>2, <3>2 DEF Log
    <3> QED
      BY <3>1, <3>3, <3>4 DEF Latest, Log
  <2> QED
    BY <1>3, <1>5, <2>1, <2>2, <2>3, <2>4, <2>5
<1>8. CASE cur[p] # None
  <2>1. PICK page \in Pages(p, cur[p]) :
           /\ unsent' = [unsent EXCEPT ![c] = @ \o RowFrames(p, page, cur)]
           /\ cursor' = [cursor EXCEPT ![c] = After(p, page, cur)]
    BY <1>1, <1>8 DEF Seed
  <2> DEFINE frames == RowFrames(p, page, cur)
             after == After(p, page, cur)
  <2>2. /\ frames \in Seq(Frame)
        /\ \A i \in 1 .. Len(frames) : Anchored(standing, frames[i].id)
    BY <1>0, <1>3, <1>8, FramesOf, FramesAnchored
  <2>3. after \in Cursor /\ Anchored(standing, after)
    BY <1>0, <1>3, <1>8, AfterPage
  <2>4. cur \in Ids => Chain(sequence, cur, frames) /\ EndOf(cur, frames) = after
    BY <1>0, <1>8, FramesChain
  <2>5. unsent' = [unsent EXCEPT ![c] = old \o frames] /\ cursor' = [cursor EXCEPT ![c] = after]
    BY <1>0, <1>2, <2>1 DEF Types
  <2> HIDE DEF frames, after
  <2>6. /\ old \o frames \in Seq(Frame)
        /\ \A i \in 1 .. Len(old \o frames) : Anchored(standing, (old \o frames)[i].id)
    BY <1>3, <2>2, JoinAnchored
  <2>7. c = held /\ ~eof => /\ last # Latest /\ Chain(sequence, last, old \o frames)
                            /\ after = EndOf(last, old \o frames)
    BY <1>6, <1>8, <2>2, <2>4, ChainAppends
  <2> QED
    BY <1>5, <2>3, <2>5, <2>6, <2>7
<1> QED
  BY <1>7, <1>8

\* What Ready(c) does, given whom it evicts and where its handler goes.
Readied(c, evicted, to) ==
    /\ pc[c] = "ready"
    /\ wire' = Written(c, Append(unsent[c], ReadyFrame(cursor[c])))
    /\ unsent' = [unsent EXCEPT ![c] = <<>>]
    /\ eof' = (eof \/ held \in evicted)
    /\ pc' = [AfterAbort(evicted) EXCEPT ![c] = to]
    /\ cursor' = Forget(cursor)
    /\ UNCHANGED <<row, overtaken, opened, held, last, base, received>>

LEMMA ReadyParts ==
    ASSUME NEW c \in Conn, Ready(c)
    PROVE  \E evicted : \E to \in {"done", "round"} : Readied(c, evicted, to)
<1> DEFINE all == Append(handles, c)
           evicted == {all[i] : i \in 1 .. Excess(all)}
           to == IF aborted[c] THEN "done" ELSE "round"
<1>1. to \in {"done", "round"}
  OBVIOUS
<1>2. Readied(c, evicted, to)
  BY DEF Ready, Readied, db
<1> HIDE DEF all, evicted, to
<1>3. \E t \in {"done", "round"} : Readied(c, evicted, t)
  BY <1>1, <1>2
<1> QED
  BY <1>3

\* The seeds are over: what they read is written, then "ready".
LEMMA ReadyKept == ASSUME StreamInv, Read, NEW c \in Conn, Ready(c) PROVE StreamInv'
<1>0. Types /\ Anchors /\ Connected
  BY DEF StreamInv
<1>1. PICK evicted : \E to \in {"done", "round"} : Readied(c, evicted, to)
  BY ReadyParts
<1>1a. PICK to \in {"done", "round"} : Readied(c, evicted, to)
  BY <1>1
<1>1b. /\ pc[c] = "ready"
       /\ wire' = Written(c, Append(unsent[c], ReadyFrame(cursor[c])))
       /\ unsent' = [unsent EXCEPT ![c] = <<>>]
       /\ eof' = (eof \/ held \in evicted)
       /\ pc' = [AfterAbort(evicted) EXCEPT ![c] = to]
       /\ cursor' = Forget(cursor)
       /\ UNCHANGED <<row, overtaken, opened, held, last, base, received>>
  BY <1>1a DEF Readied
<1>2. PICK cur \in Ids : cur = cursor[c]
  BY <1>1b DEF Read
<1>3. PICK old \in Seq(Frame) : old = unsent[c]
  BY <1>0 DEF Types
<1> DEFINE ready == ReadyFrame(cur)
           frames == old \o <<ready>>
<1>4. /\ ready \in Frame /\ ready.log = "ready" /\ ready.id = cur
      /\ Anchored(standing, cur) /\ \A i \in 1 .. Len(old) : Anchored(standing, old[i].id)
  <2>1. composeStreamResumeId(cur) = cur
    BY Composed
  <2>2. ready \in Frame /\ ready.log = "ready" /\ ready.id = cur
    BY <2>1 DEF ReadyFrame, Frame, Ids
  <2> QED
    BY <1>0, <1>2, <1>3, <2>2 DEF Anchors
<1>5. wire' = Written(c, frames)
  <2>1. Append(old, ready) = frames
    BY <1>4
  <2> HIDE DEF ready, frames
  <2>2. ready = ReadyFrame(cursor[c])
    BY <1>2 DEF ready
  <2> QED
    BY <1>1b, <1>3, <2>1, <2>2
<1> HIDE DEF ready
<1>6. /\ <<ready>> \in Seq(Frame) /\ Len(<<ready>>) = 1 /\ <<ready>>[1] = ready /\ <<ready>> # <<>>
      /\ \A i \in 1 .. Len(<<ready>>) : Anchored(standing, <<ready>>[i].id)
  BY <1>4
<1>7. frames \in Seq(Frame) /\ \A i \in 1 .. Len(frames) : Anchored(standing, frames[i].id)
  BY <1>3, <1>4, <1>6, JoinAnchored
<1> HIDE DEF frames
<1>8. wire' \in Seq(Frame) /\ \A i \in 1 .. Len(wire') : Anchored(standing, wire'[i].id)
  BY <1>5, <1>7, WrittenFrames
<1>9. /\ pc' = [d \in Conn |-> IF d = c THEN to
                               ELSE IF d \in evicted /\ pc[d] \in InLoop THEN "done" ELSE pc[d]]
  BY <1>1b DEF AfterAbort
<1>10. /\ pc' \in [Conn -> Running \cup {"unopened", "done"}] /\ pc'[c] = to
       /\ \A d \in Conn : pc[d] = "unopened" <=> pc'[d] = "unopened"
       /\ \A d \in Conn \ {c} : d \notin evicted => pc'[d] = pc[d]
  BY <1>0, <1>1b, <1>9 DEF Types, Running, InLoop
<1>11. /\ cursor' \in [Conn -> Cursor] /\ \A d \in Conn : Anchored(standing, cursor'[d])
       /\ \A d \in Conn : pc'[d] # "done" => cursor'[d] = cursor[d]
  BY <1>1b, ForgetKeeps
<1>12. /\ unsent' \in [Conn -> Seq(Frame)] /\ unsent'[c] = <<>>
       /\ \A d \in Conn \ {c} : unsent'[d] = unsent[d]
  <2>1. <<>> \in Seq(Frame)
    OBVIOUS
  <2> QED
    BY <1>0, <1>1b, <2>1 DEF Types
<1>13. \A d \in Conn : \A i \in 1 .. Len(unsent'[d]) : Anchored(standing, unsent'[d][i].id)
  <2> SUFFICES ASSUME NEW d \in Conn
               PROVE  \A i \in 1 .. Len(unsent'[d]) : Anchored(standing, unsent'[d][i].id)
    OBVIOUS
  <2>1. CASE d = c
    BY <1>12, <2>1
  <2>2. CASE d # c
    BY <1>0, <1>12, <2>2 DEF Anchors
  <2> QED
    BY <2>1, <2>2
<1>14. eof' \in BOOLEAN /\ (eof => eof')
  BY <1>0, <1>1b DEF Types
<1>15. CASE c = held /\ ~eof
  <2>1. held # 0 /\ pc[held] # "unopened" /\ wire = <<>> /\ Seeded(held)
    BY <1>0, <1>1b, <1>15, StreamAssumption DEF Connected, Continues, Conn
  <2>2. wire' = frames
    BY <1>5, <1>7, <1>15, <2>1 DEF Written
  <2>3. cur # Latest
    BY Logs
  <2>4. Chain(sequence, last, frames) /\ EndOf(last, frames) = cur
    <3>1. Chain(sequence, last, old) /\ (last # Latest => EndOf(last, old) = cur)
          /\ (last = Latest => old = <<>> /\ EndOf(last, old) = Latest)
      BY <1>2, <1>3, <1>15, <2>1, EmptyChain DEF Seeded
    <3>2. PICK x : x = EndOf(last, old)
      OBVIOUS
    <3>3. Follows(sequence, ready, x)
      BY <1>4, <2>3, <3>1, <3>2 DEF Follows
    <3>4. Chain(sequence, x, <<ready>>) /\ EndOf(x, <<ready>>) = cur
      BY <1>4, <1>6, <3>3 DEF Chain, Before, EndOf
    <3>5. PICK t \in Seq(Frame) : t = <<ready>>
      BY <1>6
    <3>6. frames = old \o t /\ t # <<>>
      BY <1>6, <3>5 DEF frames
    <3>7. Chain(sequence, EndOf(last, old), t) /\ EndOf(EndOf(last, old), t) = cur
      BY <3>2, <3>4, <3>5
    <3> QED
      BY <1>3, <3>1, <3>6, <3>7, ChainAppends
  <2>5. \/ pc'[held] = "done"
        \/ pc'[held] \in InLoop /\ cursor'[held] = EndOf(last, wire')
    BY <1>2, <1>10, <1>11, <1>15, <2>2, <2>4 DEF InLoop
  <2>6. \A d \in Conn \ {held} : unsent'[d] = unsent[d]
    BY <1>12, <1>15
  <2> QED
    BY <1>1b, <1>8, <1>10, <1>11, <1>12, <1>13, <1>14, <1>15, <2>1, <2>2, <2>4, <2>5, <2>6, HeldKept
<1>16. CASE ~(c = held /\ ~eof)
  <2>1. wire' = wire
    BY <1>5, <1>16 DEF Written
  <2>2. held # 0 /\ ~eof' => \/ pc'[held] = "done"
                             \/ /\ pc'[held] = pc[held] /\ cursor'[held] = cursor[held]
                                /\ unsent'[held] = unsent[held]
    <3> SUFFICES ASSUME held # 0, ~eof', pc'[held] # "done"
                 PROVE  /\ pc'[held] = pc[held] /\ cursor'[held] = cursor[held]
                        /\ unsent'[held] = unsent[held]
      OBVIOUS
    <3>1. held \in Conn /\ c # held /\ held \notin evicted
      BY <1>1b, <1>14, <1>16, Basics
    <3> QED
      BY <1>10, <1>11, <1>12, <3>1
  <2>3. \A d \in Conn : pc[d] = "unopened" => unsent'[d] = unsent[d]
    BY <1>1b, <1>12
  <2> QED
    BY <1>1b, <1>10, <1>11, <1>12, <1>13, <1>14, <2>1, <2>2, <2>3, OthersKept
<1> QED
  BY <1>15, <1>16

\* What the seeds leave in the cursor stays there while the connection runs.
LEMMA ReadKept == ASSUME StreamInv, Read, [Next]_vars PROVE Read'
<1>0. Types
  BY DEF StreamInv
<1> DEFINE good(state, cur) == /\ state \in InLoop \cup {"ready"} => cur \in Ids
                               /\ state = "seed_inbox" => cur["activity"] # None
<1>1. \A c \in Conn : good(pc[c], cursor[c])
  BY DEF Read
<1>2. ASSUME \A c \in Conn : good(pc'[c], cursor'[c]) PROVE Read'
  BY <1>2 DEF Read
<1>3. ASSUME NEW c \in Conn, good(pc'[c], cursor'[c]),
             \A d \in Conn \ {c} : pc'[d] = pc[d] /\ cursor'[d] = cursor[d]
      PROVE  Read'
  <2> HIDE DEF good
  <2> QED
    BY <1>1, <1>2, <1>3
<1>4. ASSUME \A d \in Conn : \/ pc'[d] = "done"
                             \/ /\ pc'[d] = pc[d] \/ (pc[d] \in InLoop \cup {"ready"} /\ pc'[d] \in InLoop)
                                /\ cursor'[d] = cursor[d]
      PROVE  Read'
  <2>1. \A d \in Conn : good(pc'[d], cursor'[d])
    BY <1>1, <1>4 DEF InLoop
  <2> HIDE DEF good
  <2> QED
    BY <1>2, <2>1
<1>5. ASSUME UNCHANGED <<pc, cursor>> PROVE Read'
  BY <1>4, <1>5
<1>6. CASE \/ \E p \in Log : \E n \in Number(p) : Insert(p, n) \/ Commit(p, n) \/ Hide(p, n)
           \/ RevokeToken \/ Receive \/ Drop \/ SeeEnd \/ UNCHANGED vars
  BY <1>5, <1>6 DEF Insert, Commit, Hide, RevokeToken, Receive, Drop, SeeEnd, stream, vars
<1>7. CASE Connect
  <2>1. PICK c \in Conn : pc' = [pc EXCEPT ![c] = "seed_activity"] /\ cursor' = [cursor EXCEPT ![c] = last]
    <3>1. opened' \in Conn
      BY <1>0, <1>7, StreamAssumption DEF Connect, Types, Conn
    <3> QED
      BY <1>7, <3>1 DEF Connect
  <2>2. pc'[c] = "seed_activity" /\ \A d \in Conn \ {c} : pc'[d] = pc[d] /\ cursor'[d] = cursor[d]
    BY <1>0, <2>1 DEF Types
  <2>3. good(pc'[c], cursor'[c])
    BY <2>2 DEF InLoop
  <2> HIDE DEF good
  <2> QED
    BY <1>3, <2>2, <2>3
<1>8. ASSUME NEW c \in Conn, SeedActivity(c) \/ SeedInbox(c) PROVE Read'
  <2>1. PICK cur \in Cursor : cur = cursor[c]
    BY <1>0 DEF Types
  <2>2. ASSUME NEW p \in Log, NEW at, NEW next, Seed(c, p, at, next)
        PROVE  \E after \in Cursor : /\ cursor' = [cursor EXCEPT ![c] = after]
                                     /\ after[p] # None /\ \A q \in Log \ {p} : after[q] = cur[q]
    <3>1. CASE cur[p] = None
      <4>1. HighWater(p) \in Nat
        BY HighWaterStands, Basics
      <4>2. cursor' = [cursor EXCEPT ![c] = [cur EXCEPT ![p] = HighWater(p)]]
        BY <2>1, <2>2, <3>1 DEF Seed
      <4>3. PICK after : after = [cur EXCEPT ![p] = HighWater(p)]
        OBVIOUS
      <4>4. after \in Cursor /\ after[p] # None /\ \A q \in Log \ {p} : after[q] = cur[q]
        BY <4>1, <4>3, StreamAssumption DEF Cursor
      <4> QED
        BY <4>2, <4>3, <4>4
    <3>2. CASE cur[p] # None
      <4>1. PICK page \in Pages(p, cur[p]) : cursor' = [cursor EXCEPT ![c] = After(p, page, cur)]
        BY <2>1, <2>2, <3>2 DEF Seed
      <4> QED
        BY <1>0, <3>2, <4>1, AfterPage
    <3> QED
      BY <3>1, <3>2
  <2>3. CASE SeedActivity(c)
    <3>1. PICK after \in Cursor : cursor' = [cursor EXCEPT ![c] = after] /\ after["activity"] # None
      BY <2>2, <2>3 DEF SeedActivity, Log
    <3>2. pc' = [pc EXCEPT ![c] = "seed_inbox"]
      BY <2>3 DEF SeedActivity, Seed
    <3>3. /\ pc'[c] = "seed_inbox" /\ cursor'[c] = after
          /\ \A d \in Conn \ {c} : pc'[d] = pc[d] /\ cursor'[d] = cursor[d]
      BY <1>0, <3>1, <3>2 DEF Types
    <3>4. good(pc'[c], cursor'[c])
      BY <3>1, <3>3 DEF InLoop
    <3> HIDE DEF good
    <3> QED
      BY <1>3, <3>3, <3>4
  <2>4. CASE SeedInbox(c)
    <3>1. PICK after \in Cursor : /\ cursor' = [cursor EXCEPT ![c] = after]
                                  /\ after["inbox"] # None /\ after["activity"] = cur["activity"]
      BY <2>2, <2>4 DEF SeedInbox, Log
    <3>2. pc' = [pc EXCEPT ![c] = "ready"] /\ pc[c] = "seed_inbox"
      BY <2>4 DEF SeedInbox, Seed
    <3>3. /\ pc'[c] = "ready" /\ cursor'[c] = after
          /\ \A d \in Conn \ {c} : pc'[d] = pc[d] /\ cursor'[d] = cursor[d]
      BY <1>0, <3>1, <3>2 DEF Types
    <3>4. after["activity"] # None
      BY <2>1, <3>1, <3>2 DEF Read
    <3>5. after \in Ids
      BY <3>1, <3>4 DEF Cursor, Ids, Log
    <3>6. good(pc'[c], cursor'[c])
      BY <3>3, <3>5
    <3> HIDE DEF good
    <3> QED
      BY <1>3, <3>3, <3>6
  <2> QED
    BY <1>8, <2>3, <2>4
<1>9. ASSUME NEW c \in Conn, Ready(c) PROVE Read'
  <2>1. \A d \in Conn : pc'[d] # "done" => cursor'[d] = cursor[d]
    BY <1>9, ForgetKeeps DEF Ready
  <2>2. PICK set : \E to \in {"done", "round"} : pc' = [AfterAbort(set) EXCEPT ![c] = to] /\ pc[c] = "ready"
    BY <1>9, ReadyParts DEF Readied
  <2>4. PICK to \in {"done", "round"} : pc' = [AfterAbort(set) EXCEPT ![c] = to] /\ pc[c] = "ready"
    BY <2>2
  <2>3. \A d \in Conn : pc'[d] = IF d = c THEN to
                                 ELSE IF d \in set /\ pc[d] \in InLoop THEN "done" ELSE pc[d]
    BY <2>4 DEF AfterAbort
  <2> QED
    BY <1>4, <2>1, <2>4, <2>3 DEF InLoop
<1>10. ASSUME NEW c \in Conn, NoticeClose(c) \/ Leave(c) PROVE Read'
  <2>1. \A d \in Conn : pc'[d] # "done" => cursor'[d] = cursor[d]
    BY <1>10, ForgetKeeps DEF NoticeClose, Leave
  <2>2. \A d \in Conn : pc'[d] = "done" \/ pc'[d] = pc[d]
    BY <1>0, <1>10 DEF NoticeClose, Leave, AfterAbort, Types
  <2> QED
    BY <1>4, <2>1, <2>2
<1>11. ASSUME NEW c \in Conn, WaitForUpdate(c) \/ Notify(c) \/ Timeout(c) PROVE Read'
  <2>1. PICK to \in InLoop : pc' = [pc EXCEPT ![c] = to] /\ pc[c] \in InLoop /\ cursor' = cursor
    BY <1>11 DEF WaitForUpdate, Notify, Timeout, Heartbeat, InLoop
  <2>2. \A d \in Conn : pc'[d] = IF d = c THEN to ELSE pc[d]
    BY <1>0, <2>1 DEF Types
  <2> QED
    BY <1>4, <2>1, <2>2
<1>12. ASSUME NEW c \in Conn, ListActivity(c) \/ ListInbox(c) PROVE Read'
  <2>1. PICK p \in Log, to \in InLoop :
           /\ \E page \in Pages(p, cursor[c][p]) : Send(c, p, page)
           /\ pc' = [pc EXCEPT ![c] = to] /\ pc[c] \in InLoop
    <3>1. CASE ListActivity(c)
      BY <3>1 DEF ListActivity, InLoop, Log
    <3>2. CASE ListInbox(c)
      BY <3>2 DEF ListInbox, InLoop, Log
    <3> QED
      BY <1>12, <3>1, <3>2
  <2>2. PICK page \in Pages(p, cursor[c][p]) : Send(c, p, page)
    BY <2>1
  <2>3. PICK cur \in Ids : cur = cursor[c]
    BY <2>1 DEF Read
  <2>4. cur \in Cursor /\ cur[p] # None
    BY Logs, StreamAssumption, <2>3 DEF Ids
  <2>5. After(p, page, cur) \in Ids
    BY <1>0, <2>2, <2>3, <2>4, AfterPage
  <2>6. cursor' = [cursor EXCEPT ![c] = After(p, page, cur)]
    BY <2>2, <2>3 DEF Send
  <2>7. /\ pc'[c] = to /\ cursor'[c] \in Ids
        /\ \A d \in Conn \ {c} : pc'[d] = pc[d] /\ cursor'[d] = cursor[d]
    BY <1>0, <2>1, <2>5, <2>6 DEF Types
  <2>8. good(pc'[c], cursor'[c])
    BY <2>7 DEF InLoop
  <2> HIDE DEF good
  <2> QED
    BY <1>3, <2>7, <2>8
<1> HIDE DEF good
<1> QED
  BY <1>6, <1>7, <1>8, <1>9, <1>10, <1>11, <1>12 DEF Next, Serve

LEMMA StreamStep == StreamInv /\ Read /\ [Next]_vars => StreamInv' /\ Read'
<1> SUFFICES ASSUME StreamInv, Read, [Next]_vars PROVE StreamInv' /\ Read'
  OBVIOUS
<1>1. Read'
  BY ReadKept
<1>2. ASSUME UNCHANGED <<row, overtaken, pc, cursor, unsent, opened, held, wire, eof, last, base, received>>
      PROVE  StreamInv'
  <2>1. Types /\ Anchors /\ Connected
    BY DEF StreamInv
  <2>2. pc' \in [Conn -> Running \cup {"unopened", "done"}] /\ eof' \in BOOLEAN
        /\ cursor' \in [Conn -> Cursor] /\ unsent' \in [Conn -> Seq(Frame)]
    BY <1>2, <2>1 DEF Types
  <2>3. /\ \A c \in Conn : Anchored(standing, cursor'[c])
        /\ \A c \in Conn : \A i \in 1 .. Len(unsent'[c]) : Anchored(standing, unsent'[c][i].id)
    BY <1>2, <2>1 DEF Anchors
  <2> QED
    BY <1>2, <2>2, <2>3, OthersKept
<1>3. CASE RevokeToken \/ UNCHANGED vars
  <2>1. /\ UNCHANGED <<row, overtaken>> /\ UNCHANGED stream /\ UNCHANGED client
    BY <1>3 DEF RevokeToken, vars, db
  <2>2. UNCHANGED <<row, overtaken>> /\ UNCHANGED <<pc, cursor, unsent>>
        /\ UNCHANGED <<opened, held, wire, eof, last, base, received>>
    BY <2>1 DEF stream, client
  <2>3. UNCHANGED <<row, overtaken, pc, cursor, unsent, opened, held, wire, eof, last, base, received>>
    BY <2>2
  <2> QED
    BY <1>1, <1>2, <2>3
<1>4. ASSUME NEW c \in Conn, Serve(c) \/ Notify(c) \/ NoticeClose(c) PROVE StreamInv'
  <2>1. CASE SeedActivity(c)
    BY <2>1, SeedKept DEF SeedActivity, Log
  <2>2. CASE SeedInbox(c)
    BY <2>2, SeedKept DEF SeedInbox, Log
  <2> QED
    BY <1>4, <2>1, <2>2, ReadyKept, LeaveKept, ListKept, WaitKept, NoticeKept DEF Serve
<1> QED
  BY <1>1, <1>3, <1>4, WritersKept, ConnectKept, ReceiveKept, DropKept DEF Next

LEMMA InitRead == Init => Read
BY DEF Init, Read, InLoop


-----------------------------------------------------------------------------
(* The theorems *)

\* What is on the wire of a log is beyond the id the client resumes from, and in order.
LEMMA InvRepeatsNothing == StreamInv => NoDuplicates
<1> SUFFICES ASSUME StreamInv, NEW i \in DOMAIN wire, NEW p \in Log, wire[i].log = p
             PROVE  /\ wire[i].n \notin received[p]
                    /\ \A j \in 1 .. i - 1 : wire[j].log = p => wire[j].n < wire[i].n
  BY DEF NoDuplicates
<1>1. /\ wire \in Seq(Frame) /\ last \in Ids \cup {Latest} /\ received[p] \subseteq Nat
      /\ Chain(sequence, last, wire)
  BY DEF StreamInv, Types, Connected
<1>2. /\ i \in 1 .. Len(wire) /\ Len(wire) \in Nat
      /\ \A k \in 1 .. Len(wire) : wire[k].n \in Nat /\ wire[k].id \in Ids
  <2>1. \A k \in 1 .. Len(wire) : wire[k] \in Frame
    BY <1>1
  <2>2. i \in 1 .. Len(wire) /\ Len(wire) \in Nat
    BY <1>1
  <2>3. \A f \in Frame : f.n \in Nat /\ f.id \in Ids
    BY DEF Frame, Ids
  <2> QED
    BY <2>1, <2>2, <2>3
<1>3. wire[i].n \notin received[p]
  <2> SUFFICES ASSUME wire[i].n \in received[p] PROVE FALSE
    OBVIOUS
  <2>1. last # Latest /\ wire[i].n <= last[p]
    BY DEF StreamInv, Got
  <2>2. Before(last, wire, 0 + 1)[p] < wire[i].n
    <3>1. 0 \in 0 .. Len(wire) /\ 0 < i
      BY <1>2
    <3> QED
      BY <1>1, <1>2, <2>1, <3>1, ChainAscends
  <2>3. last[p] < wire[i].n /\ last[p] \in Nat
    BY <1>1, <2>1, <2>2 DEF Before, Ids
  <2> QED
    BY <1>2, <2>1, <2>3
<1>4. ASSUME NEW j \in 1 .. i - 1, wire[j].log = p PROVE wire[j].n < wire[i].n
  <2>1. j \in 1 .. Len(wire) /\ j \in 0 .. Len(wire) /\ j < i /\ j # 0
    BY <1>2
  <2>2. wire[j].n = wire[j].id[p]
    <3>1. Follows(sequence, wire[j], Before(last, wire, j))
      BY <1>1, <2>1 DEF Chain
    <3>2. PICK id : id = Before(last, wire, j)
      OBVIOUS
    <3>3. wire[j].log # "ready"
      BY <1>4 DEF Log
    <3>4. id # Latest /\ wire[j].id = [id EXCEPT ![p] = wire[j].n]
      BY <1>4, <3>1, <3>2, <3>3 DEF Follows
    <3>5. p \in DOMAIN id
      <4>1. DOMAIN wire[j].id = Log
        BY <1>2, <2>1 DEF Ids
      <4> QED
        BY <3>4, <4>1
    <3> QED
      BY <3>4, <3>5
  <2>3. Before(last, wire, j + 1) = wire[j].id
    BY <2>1 DEF Before
  <2>4. Before(last, wire, j + 1)[p] < wire[i].n
    BY <1>1, <1>2, <2>1, ChainAscends
  <2> QED
    BY <2>2, <2>3, <2>4
<1> QED
  BY <1>3, <1>4

\* The id the client resumes from covers only what it has, of the rows in sequence.
LEMMA InvSkipsNothing == StreamInv => NothingSkipped
<1> SUFFICES ASSUME StreamInv, NEW p \in Log, NEW n \in Number(p), InOrder(p, n), n <= last[p]
             PROVE  n \in received[p]
  BY DEF NothingSkipped
<1>1. n \in sequence[p] /\ base # Latest /\ n > base[p]
  BY DEF InOrder, Subscribed, sequence
<1>2. last # Latest /\ last \in Ids /\ base \in Ids
  BY <1>1 DEF StreamInv, Got, Types
<1>3. base[p] < n
  BY <1>1, <1>2, Logs DEF Ids
<1>4. \A m \in sequence[p] : base[p] < m /\ m <= last[p] => m \in received[p]
  BY <1>2 DEF StreamInv, Got
<1> QED
  BY <1>1, <1>3, <1>4

LEMMA StreamAlways == Spec => [](StreamInv /\ Read)
<1>1. Init => StreamInv /\ Read
  BY InitInv, InitRead
<1>2. (StreamInv /\ Read) /\ [Next]_vars => (StreamInv /\ Read)'
  BY StreamStep
<1> QED
  BY <1>1, <1>2, PTL DEF Spec

\* A client that resumes from the id of the last frame it received gets no row twice and
\* gets each log in order, wherever its connections break, whichever rows commit late or are
\* hidden, whatever the sizes of pages and of the table of streams.
THEOREM ResumeRepeatsNothing == Spec => []NoDuplicates
<1>1. StreamInv => NoDuplicates
  BY InvRepeatsNothing
<1> QED
  BY <1>1, StreamAlways, PTL

\* The id a client resumes from covers no row it has not received, of those that committed
\* in the order of their numbers: breaking between any two frames loses nothing.
THEOREM ResumeSkipsNothing == Spec => []NothingSkipped
<1>1. StreamInv => NothingSkipped
  BY InvSkipsNothing
<1> QED
  BY <1>1, StreamAlways, PTL

-----------------------------------------------------------------------------
(* Type correctness, and the cap on the streams of a member *)

\* A frame of a log carries a number of that log.
Proper == {f \in Frame : f.log \in Log => f.n \in Number(f.log)}

Table == handles \in Seq(Conn) /\ Len(handles) <= MaxStreams

Flags == valid \in BOOLEAN /\ delivered \in [Conn -> BOOLEAN] /\ aborted \in [Conn -> BOOLEAN]

Numbers ==
    /\ \A p \in Log : overtaken[p] \subseteq Number(p) /\ received[p] \subseteq Number(p)
    /\ wire \in Seq(Proper) /\ unsent \in [Conn -> Seq(Proper)]

\* Whoever leaves the table makes it no longer.
LEMMA WithoutIsShorter ==
    ASSUME NEW h \in Seq(Conn), NEW c \in Conn
    PROVE  Without(h, c) \in Seq(Conn) /\ Len(Without(h, c)) <= Len(h)
<1> DEFINE at == {i \in DOMAIN h : h[i] = c}
<1>1. CASE at = {}
  <2>1. Without(h, c) = h
    BY <1>1 DEF Without
  <2> QED
    BY <2>1
<1>2. CASE at # {}
  <2>1. at \in SUBSET Nat /\ at \subseteq 1 .. Len(h)
    OBVIOUS
  <2>2. Without(h, c) = SubSeq(h, 1, Min(at) - 1) \o SubSeq(h, Min(at) + 1, Len(h))
    BY <1>2 DEF Without
  <2> HIDE DEF at
  <2>3. PICK least \in at : \A i \in at : least <= i
    BY <1>2, <2>1, LeastNumber
  <2>4. Min(at) \in at
    BY <2>3 DEF Min
  <2>5. PICK i \in 1 .. Len(h) : i = Min(at)
    BY <2>1, <2>4
  <2>6. /\ SubSeq(h, 1, i - 1) \in Seq(Conn) /\ Len(SubSeq(h, 1, i - 1)) = i - 1
        /\ SubSeq(h, i + 1, Len(h)) \in Seq(Conn) /\ Len(SubSeq(h, i + 1, Len(h))) = Len(h) - i
    OBVIOUS
  <2> QED
    BY <2>2, <2>5, <2>6
<1> QED
  BY <1>1, <1>2

LEMMA TableStep == Table /\ [Next]_vars => Table'
<1> SUFFICES ASSUME Table, [Next]_vars PROVE Table'
  OBVIOUS
<1>1. CASE UNCHANGED handles
  BY <1>1 DEF Table
<1>2. ASSUME NEW c \in Conn, handles' = Without(handles, c) PROVE Table'
  <2>1. Without(handles, c) \in Seq(Conn) /\ Len(Without(handles, c)) <= Len(handles)
    BY WithoutIsShorter DEF Table
  <2> QED
    BY <1>2, <2>1, StreamAssumption DEF Table
<1>3. ASSUME NEW c \in Conn, Ready(c) PROVE Table'
  <2> DEFINE all == Append(handles, c)
             k == Excess(all)
  <2>1. handles' = SubSeq(all, k + 1, Len(all))
    BY <1>3 DEF Ready
  <2>2. all \in Seq(Conn) /\ Len(all) = Len(handles) + 1 /\ Len(handles) \in Nat
    BY DEF Table
  <2> HIDE DEF all
  <2>3. k \in 0 .. Len(all) /\ Len(all) - k <= MaxStreams
    BY <2>2, StreamAssumption DEF Excess, Table
  <2> HIDE DEF k
  <2>4. /\ SubSeq(all, k + 1, Len(all)) \in Seq(Conn)
        /\ Len(SubSeq(all, k + 1, Len(all))) = Len(all) - k
    BY <2>2, <2>3
  <2> QED
    BY <2>1, <2>3, <2>4 DEF Table
<1>4. ASSUME NEW c \in Conn, Serve(c) \/ Notify(c) \/ NoticeClose(c) PROVE Table'
  <2>1. CASE SeedActivity(c) \/ SeedInbox(c)
    BY <2>1, <1>1 DEF SeedActivity, SeedInbox, Seed
  <2>2. CASE Leave(c) \/ NoticeClose(c)
    BY <2>2, <1>2 DEF Leave, NoticeClose
  <2>3. CASE ListActivity(c) \/ ListInbox(c)
    BY <2>3, <1>1 DEF ListActivity, ListInbox, Send
  <2>4. CASE WaitForUpdate(c) \/ Timeout(c) \/ Notify(c)
    BY <2>4, <1>1 DEF WaitForUpdate, Timeout, Notify
  <2> QED
    BY <1>3, <1>4, <2>1, <2>2, <2>3, <2>4 DEF Serve
<1>5. ASSUME NEW p \in Log, NEW n \in Number(p), Insert(p, n) \/ Commit(p, n) \/ Hide(p, n)
      PROVE  Table'
  BY <1>5, <1>1 DEF Insert, Commit, Hide
<1>6. CASE RevokeToken \/ Connect \/ Receive \/ Drop \/ SeeEnd \/ UNCHANGED vars
  BY <1>6, <1>1 DEF RevokeToken, Connect, Receive, Drop, SeeEnd, vars
<1> QED
  BY <1>4, <1>5, <1>6 DEF Next

LEMMA FlagsStep == Flags /\ [Next]_vars => Flags'
<1> SUFFICES ASSUME Flags, [Next]_vars PROVE Flags'
  OBVIOUS
<1> USE DEF Flags
<1>1. CASE UNCHANGED <<valid, delivered, aborted>>
  BY <1>1
<1>2. ASSUME NEW c \in Conn, Serve(c) \/ Notify(c) \/ NoticeClose(c) PROVE Flags'
  <2>1. CASE SeedActivity(c) \/ SeedInbox(c)
    BY <2>1, <1>1 DEF SeedActivity, SeedInbox, Seed, db
  <2>2. CASE Leave(c)
    BY <2>2, <1>1 DEF Leave, db
  <2>3. CASE NoticeClose(c)
    BY <2>3 DEF NoticeClose, db
  <2>4. CASE ListActivity(c)
    <3>1. PICK flag \in BOOLEAN : /\ delivered' = [delivered EXCEPT ![c] = flag]
                                  /\ UNCHANGED <<valid, aborted>>
      <4>1. PICK page \in Pages("activity", cursor[c]["activity"]) :
               /\ Send(c, "activity", page)
               /\ delivered' = [delivered EXCEPT ![c] = page # <<>>]
        BY <2>4 DEF ListActivity
      <4>2. (page # <<>>) \in BOOLEAN
        OBVIOUS
      <4> QED
        BY <4>1, <4>2 DEF Send, db
    <3> QED
      BY <3>1
  <2>5. CASE ListInbox(c)
    BY <2>5 DEF ListInbox, Send, db
  <2>6. CASE WaitForUpdate(c) \/ Timeout(c) \/ Notify(c)
    BY <2>6, <1>1 DEF WaitForUpdate, Timeout, Notify, db
  <2>7. CASE Ready(c)
    <3>1. PICK evicted : aborted' = [d \in Conn |-> aborted[d] \/ d \in evicted]
      BY <2>7 DEF Ready
    <3>2. \A d \in Conn : (aborted[d] \/ d \in evicted) \in BOOLEAN
      OBVIOUS
    <3>3. aborted' \in [Conn -> BOOLEAN]
      BY <3>1, <3>2
    <3> QED
      BY <2>7, <3>3 DEF Ready, db
  <2> QED
    BY <1>2, <2>1, <2>2, <2>3, <2>4, <2>5, <2>6, <2>7 DEF Serve
<1>3. ASSUME NEW p \in Log, NEW n \in Number(p), Insert(p, n) \/ Commit(p, n) \/ Hide(p, n)
      PROVE  Flags'
  BY <1>3, <1>1 DEF Insert, Commit, Hide, stream
<1>4. CASE RevokeToken
  BY <1>4 DEF RevokeToken, stream
<1>5. CASE Connect \/ Receive \/ Drop \/ SeeEnd \/ UNCHANGED vars
  BY <1>5, <1>1 DEF Connect, Receive, Drop, SeeEnd, vars, db, stream
<1> QED
  BY <1>2, <1>3, <1>4, <1>5 DEF Next

\* The frames of a page carry numbers of its log.
LEMMA PageIsProper ==
    ASSUME Types, NEW p \in Log, NEW cur \in Cursor, cur[p] # None, NEW page \in Pages(p, cur[p])
    PROVE  RowFrames(p, page, cur) \in Seq(Proper)
<1> DEFINE frames == RowFrames(p, page, cur)
<1>1. cur[p] \in Nat
  BY DEF Cursor
<1>2. \A i \in 1 .. Len(page) : page[i] \in Number(p)
  BY <1>1, PageOrder
<1>3. /\ Len(frames) = Len(page) /\ frames \in Seq(Frame)
      /\ \A i \in 1 .. Len(page) : frames[i].log = p /\ frames[i].n = page[i]
  BY FramesOf
<1> HIDE DEF frames
<1>4. \A i \in 1 .. Len(frames) : frames[i] \in Proper
  BY <1>2, <1>3 DEF Proper
<1> QED
  BY <1>3, <1>4 DEF frames

LEMMA WrittenIsProper ==
    ASSUME Numbers, NEW c, NEW frames \in Seq(Proper) PROVE Written(c, frames) \in Seq(Proper)
BY DEF Written, Numbers

LEMMA NumbersStep == StreamInv /\ Read /\ Numbers /\ [Next]_vars => Numbers'
<1> SUFFICES ASSUME StreamInv, Read, Numbers, [Next]_vars PROVE Numbers'
  OBVIOUS
<1>0. Types
  BY DEF StreamInv
<1>1. CASE UNCHANGED <<overtaken, received, wire, unsent>>
  BY <1>1 DEF Numbers
<1>2. ASSUME NEW p \in Log, NEW n \in Number(p), Commit(p, n) PROVE Numbers'
  <2>1. \A q \in Log : overtaken'[q] = overtaken[q] \/ (q = p /\ overtaken'[q] = overtaken[q] \cup {n})
    BY <1>0, <1>2 DEF Commit, Types
  <2>2. \A q \in Log : overtaken'[q] \subseteq Number(q)
    BY <2>1 DEF Numbers
  <2> QED
    BY <1>2, <2>2 DEF Commit, Numbers, stream, client
<1>3. ASSUME NEW p \in Log, NEW n \in Number(p), Insert(p, n) \/ Hide(p, n) PROVE Numbers'
  BY <1>3, <1>1 DEF Insert, Hide, stream, client
<1>4. CASE Receive
  <2>1. PICK f : f = Head(wire)
    OBVIOUS
  <2>2. f \in Proper /\ Tail(wire) \in Seq(Proper)
    BY <1>4, <2>1 DEF Receive, Numbers
  <2>3. received' = [p \in Log |-> IF f.log = p THEN received[p] \cup {f.n} ELSE received[p]]
    BY <1>4, <2>1 DEF Receive
  <2>4. \A p \in Log : received'[p] \subseteq Number(p)
    BY <2>2, <2>3 DEF Numbers, Proper
  <2> QED
    BY <1>4, <2>2, <2>4 DEF Receive, Numbers, db, stream
<1>5. CASE Drop
  <2>1. <<>> \in Seq(Proper)
    OBVIOUS
  <2> QED
    BY <1>5, <2>1 DEF Drop, Numbers, db, stream
<1>6. CASE RevokeToken \/ Connect \/ SeeEnd \/ UNCHANGED vars
  BY <1>6, <1>1 DEF RevokeToken, Connect, SeeEnd, vars, db, stream, client
<1>7. ASSUME NEW c \in Conn, NEW p \in Log, NEW at, NEW next, Seed(c, p, at, next) PROVE Numbers'
  <2>1. PICK cur \in Cursor : cur = cursor[c]
    BY <1>0 DEF Types
  <2>2. CASE UNCHANGED unsent
    BY <1>7, <2>2, <1>1 DEF Seed, db, client
  <2>3. ASSUME cur[p] # None,
               NEW page \in Pages(p, cur[p]),
               unsent' = [unsent EXCEPT ![c] = @ \o RowFrames(p, page, cur)]
        PROVE  Numbers'
    <3>1. RowFrames(p, page, cur) \in Seq(Proper)
      BY <1>0, <2>3, PageIsProper
    <3>2. unsent[c] \o RowFrames(p, page, cur) \in Seq(Proper)
      BY <3>1 DEF Numbers
    <3>3. unsent' \in [Conn -> Seq(Proper)]
      BY <2>3, <3>2 DEF Numbers
    <3> QED
      BY <1>7, <3>3 DEF Seed, Numbers, db, client
  <2> QED
    BY <1>7, <2>1, <2>2, <2>3 DEF Seed
<1>8. ASSUME NEW c \in Conn, Ready(c) PROVE Numbers'
  <2>1. PICK cur \in Ids : cur = cursor[c]
    BY <1>8 DEF Ready, Read
  <2>2. ReadyFrame(cur) \in Proper
    <3>1. ReadyFrame(cur) \in Frame /\ ReadyFrame(cur).log = "ready"
      BY Composed DEF ReadyFrame, Frame, Ids
    <3> QED
      BY <3>1 DEF Proper, Log
  <2>3. Append(unsent[c], ReadyFrame(cur)) \in Seq(Proper) /\ <<>> \in Seq(Proper)
    BY <2>2 DEF Numbers
  <2>4. wire' \in Seq(Proper)
    BY <1>8, <2>1, <2>3, WrittenIsProper DEF Ready
  <2>5. unsent' \in [Conn -> Seq(Proper)]
    BY <1>8, <2>3 DEF Ready, Numbers
  <2> QED
    BY <1>8, <2>4, <2>5 DEF Ready, Numbers, db
<1>9. ASSUME NEW c \in Conn, NEW p \in Log, pc[c] \in InLoop,
             NEW page \in Pages(p, cursor[c][p]), Send(c, p, page)
      PROVE  Numbers'
  <2>1. PICK cur \in Ids : cur = cursor[c]
    BY <1>9 DEF Read
  <2>2. cur \in Cursor /\ cur[p] # None
    BY <2>1, StreamAssumption DEF Ids, Cursor
  <2>3. RowFrames(p, page, cur) \in Seq(Proper)
    BY <1>0, <1>9, <2>1, <2>2, PageIsProper
  <2>4. wire' \in Seq(Proper)
    BY <1>9, <2>1, <2>3, WrittenIsProper DEF Send
  <2> QED
    BY <1>9, <2>4 DEF Send, Numbers, db
<1>10. ASSUME NEW c \in Conn, Serve(c) \/ Notify(c) \/ NoticeClose(c) PROVE Numbers'
  <2>1. CASE SeedActivity(c) \/ SeedInbox(c)
    BY <2>1, <1>7 DEF SeedActivity, SeedInbox, Log
  <2>2. CASE Leave(c) \/ NoticeClose(c)
    BY <2>2, <1>1 DEF Leave, NoticeClose, db, client
  <2>3. CASE ListActivity(c)
    BY <2>3, <1>9 DEF ListActivity, InLoop, Log
  <2>4. CASE ListInbox(c)
    BY <2>4, <1>9 DEF ListInbox, InLoop, Log
  <2>5. CASE WaitForUpdate(c) \/ Timeout(c) \/ Notify(c)
    BY <2>5, <1>1 DEF WaitForUpdate, Timeout, Notify, db, client
  <2> QED
    BY <1>8, <1>10, <2>1, <2>2, <2>3, <2>4, <2>5 DEF Serve
<1> QED
  BY <1>2, <1>3, <1>4, <1>5, <1>6, <1>10 DEF Next

\* Every reachable state of the logs, the connections and the client is well typed, and the
\* table of streams never holds more than the cap, however many connections become ready and
\* in whatever order they close (server.ts:815-848).
THEOREM TypeCorrect == Spec => []TypeOK
<1>1. Init => Table /\ Flags /\ Numbers
  <2> SUFFICES ASSUME Init PROVE Table /\ Flags /\ Numbers
    OBVIOUS
  <2>1. Table
    BY StreamAssumption DEF Init, Table
  <2>2. Flags
    BY DEF Init, Flags
  <2>3. Numbers
    <3>1. <<>> \in Seq(Proper)
      OBVIOUS
    <3> QED
      BY <3>1 DEF Init, Numbers
  <2> QED
    BY <2>1, <2>2, <2>3
<1>2. /\ StreamInv /\ Read /\ StreamInv' /\ Read' /\ Table /\ Flags /\ Numbers /\ [Next]_vars
      => (Table /\ Flags /\ Numbers)'
  BY TableStep, FlagsStep, NumbersStep
<1>3. StreamInv /\ Table /\ Flags /\ Numbers => TypeOK
  <2> SUFFICES ASSUME Types, Table, Flags, Numbers PROVE TypeOK
    BY DEF StreamInv
  <2>1. Ids \subseteq Cursor /\ Latest \in Cursor
    BY DEF Ids, Cursor, Latest
  <2> QED
    BY <2>1 DEF Types, Table, Flags, Numbers, TypeOK
<1> QED
  BY <1>1, <1>2, <1>3, StreamAlways, PTL DEF Spec

=============================================================================
