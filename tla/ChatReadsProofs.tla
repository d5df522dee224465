--------------------------- MODULE ChatReadsProofs ---------------------------
(***************************************************************************)
(* Proofs about ChatReads, for any tabs, retention, number of messages and *)
(* length of time.                                                         *)
(*                                                                         *)
(* The argument.  A message is never dated after it was stored             *)
(* (DatesPrecede), a mark is on a message that is there (MarkStands), a    *)
(* count that read a mark either still finds its message or is known to    *)
(* have lost it (CountStands), and what the task found quiet stays quiet   *)
(* but for messages that came later (PassStands).  The order of pages is   *)
(* total and has a least element (OldestExists), so that what a client has *)
(* not seen is older than its cursor (PagerStands).                        *)
(***************************************************************************)
EXTENDS ChatReads, FiniteSetTheorems, WellFoundedInduction, TLAPS

DatesPrecede ==
  /\ \A m \in Stored : msgs[m].date <= msgs[m].stored
  /\ socket # NoRow => socket <= time

MarkStands == mark \in Message => mark \in Stored

CountStands ==
  counting.busy /\ counting.row \in Message => counting.row \in Stored \/ counting.lost

PassStands ==
  pass.stage # "asleep" =>
    /\ room # "none" /\ created < pass.cutoff
    /\ \A m \in Stored : m \in pass.late \/ msgs[m].date < pass.cutoff

(* What is left of the messages of the first page's time has been seen or  *)
(* is still to come.                                                       *)
PagerStands ==
  /\ pager.since \subseteq Stored
  /\ pager.busy /\ ~pager.lost =>
       /\ pager.cursor \in Stored
       /\ \A m \in pager.since : m \in pager.seen \/ Older(m, pager.cursor)

IInv == TypeOK /\ DatesPrecede /\ MarkStands /\ CountStands /\ PassStands /\ PagerStands

-----------------------------------------------------------------------------
(* What the helpers do to the types.                                       *)

Msgs == UNION {[S -> [date : Time, stored : Time]] : S \in SUBSET Message}

LEMMA MsgsTyped ==
  ASSUME TypeOK
  PROVE  /\ Stored \in SUBSET Message
         /\ \A m \in Stored : msgs[m] \in [date : Time, stored : Time]
BY DEF TypeOK, Stored

LEMMA Numbers == Null \notin Message /\ NoRow \notin Message /\ NoRow \notin Time
BY DEF Null, NoRow, Message, Time

LEMMA DeleteTyped ==
  ASSUME TypeOK, NEW S, Delete(S)
  PROVE  /\ msgs' \in Msgs
         /\ Stored' = Stored \ S
         /\ \A m \in Stored' : msgs'[m] = msgs[m]
         /\ counting' \in [busy : BOOLEAN, row : Row, lost : BOOLEAN]
         /\ pager' \in [busy : BOOLEAN, cursor : Message \cup {Null},
                        seen : SUBSET Message, since : SUBSET Message, lost : BOOLEAN]
<1>1. msgs' = [m \in Stored \ S |-> msgs[m]]
  BY DEF Delete
<1>2. msgs' \in [Stored \ S -> [date : Time, stored : Time]] /\ Stored \ S \in SUBSET Message
  BY <1>1, MsgsTyped
<1>3. msgs' \in Msgs
  BY <1>2 DEF Msgs
<1>4. Stored' = Stored \ S /\ \A m \in Stored' : msgs'[m] = msgs[m]
  BY <1>1 DEF Stored
<1>5. counting' \in [busy : BOOLEAN, row : Row, lost : BOOLEAN]
  BY DEF TypeOK, Delete
<1>6. pager' \in [busy : BOOLEAN, cursor : Message \cup {Null},
                  seen : SUBSET Message, since : SUBSET Message, lost : BOOLEAN]
  BY DEF TypeOK, Delete
<1> QED
  BY <1>3, <1>4, <1>5, <1>6

LEMMA StoreTyped ==
  ASSUME TypeOK, NEW t \in Time, Store(t)
  PROVE  /\ msgs' \in Msgs
         /\ posted' \in 0..MaxMessages
         /\ posted' \in Message
         /\ Stored' = Stored \cup {posted'}
         /\ \A m \in Stored' :
              \/ m \in Stored /\ msgs'[m] = msgs[m]
              \/ m = posted' /\ msgs'[m] = [date |-> t, stored |-> time]
         /\ pass' \in [stage : {"asleep", "selected", "purged"}, cutoff : Int,
                       doomed : SUBSET Message, late : SUBSET Message]
         /\ pass'.stage = pass.stage /\ pass'.cutoff = pass.cutoff
         /\ pass.stage # "asleep" => pass'.late = pass.late \cup {posted'}
<1>1. posted' = posted + 1 /\ posted' \in 0..MaxMessages /\ posted' \in Message
  BY BoundAssumption DEF Store, TypeOK, Message
<1>2. msgs' = [m \in Stored \cup {posted'} |->
                 IF m \in Stored THEN msgs[m] ELSE [date |-> t, stored |-> time]]
  BY <1>1 DEF Store
<1>3. /\ msgs' \in [Stored \cup {posted'} -> [date : Time, stored : Time]]
      /\ Stored \cup {posted'} \in SUBSET Message
  BY <1>1, <1>2, MsgsTyped DEF TypeOK
<1>4. msgs' \in Msgs
  BY <1>3 DEF Msgs
<1>5. /\ Stored' = Stored \cup {posted'}
      /\ \A m \in Stored' :
           \/ m \in Stored /\ msgs'[m] = msgs[m]
           \/ m = posted' /\ msgs'[m] = [date |-> t, stored |-> time]
  BY <1>2 DEF Stored
<1>6. pass' = [pass EXCEPT !.late = IF pass.stage = "asleep" THEN {} ELSE pass.late \cup {posted'}]
  BY <1>1 DEF Store
<1>7. /\ pass' \in [stage : {"asleep", "selected", "purged"}, cutoff : Int,
                    doomed : SUBSET Message, late : SUBSET Message]
      /\ pass'.stage = pass.stage /\ pass'.cutoff = pass.cutoff
      /\ pass.stage # "asleep" => pass'.late = pass.late \cup {posted'}
  BY <1>1, <1>6 DEF TypeOK
<1> QED
  BY <1>1, <1>4, <1>5, <1>7

-----------------------------------------------------------------------------
(* The order of pages.                                                     *)

LEMMA LeastNat ==
  ASSUME NEW S \in SUBSET Nat, S # {}
  PROVE  \E m \in S : \A n \in S : m <= n
<1>1. PICK m \in S : \A n \in S : ~ (<<n, m>> \in OpToRel(<, Nat))
  BY NatLessThanWellFounded, WFMin
<1>2. \A n \in S : ~ (n < m)
  BY <1>1 DEF OpToRel
<1> QED
  BY <1>2

LEMMA OldestExists ==
  ASSUME TypeOK, NEW S \in SUBSET Stored, S # {}
  PROVE  Oldest(S) \in S /\ \A n \in S \ {Oldest(S)} : ~Older(n, Oldest(S))
<1>1. \A m \in S : m \in Nat /\ msgs[m].date \in Nat
  BY MsgsTyped DEF Message, Time
<1>2. PICK d \in {msgs[m].date : m \in S} : \A e \in {msgs[m].date : m \in S} : d <= e
  <2> DEFINE Dates == {msgs[m].date : m \in S}
  <2>1. Dates \in SUBSET Nat /\ Dates # {}
    BY <1>1
  <2> HIDE DEF Dates
  <2>2. \E d \in Dates : \A e \in Dates : d <= e
    BY <2>1, LeastNat
  <2> QED
    BY <2>2 DEF Dates
<1>3. {m \in S : msgs[m].date = d} \in SUBSET Nat /\ {m \in S : msgs[m].date = d} # {}
  BY <1>1, <1>2
<1>4. PICK k \in {m \in S : msgs[m].date = d} : \A n \in {m \in S : msgs[m].date = d} : k <= n
  BY <1>3, LeastNat
<1>5. \A n \in S \ {k} : ~Older(n, k)
  <2> SUFFICES ASSUME NEW n \in S \ {k} PROVE ~Older(n, k)
    OBVIOUS
  <2>1. d <= msgs[n].date
    BY <1>2
  <2>2. msgs[n].date = d => k <= n
    BY <1>4
  <2> QED
    BY <1>1, <1>4, <2>1, <2>2 DEF Older
<1>6. \E k2 \in S : \A n \in S \ {k2} : ~Older(n, k2)
  BY <1>4, <1>5
<1> QED
  BY <1>6 DEF Oldest

LEMMA OlderTotal ==
  ASSUME TypeOK, NEW m \in Stored, NEW n \in Stored, m # n
  PROVE  Older(m, n) \/ Older(n, m)
<1>1. msgs[m].date \in Nat /\ msgs[n].date \in Nat /\ m \in Nat /\ n \in Nat
  BY MsgsTyped DEF Message, Time
<1> QED
  BY <1>1 DEF Older

(* A page that is not the last ends at a cursor, and what it leaves is     *)
(* older than that.                                                        *)
LEMMA PageFacts ==
  ASSUME TypeOK, NEW S \in SUBSET Stored, NEW since \in SUBSET Stored, GetPage(S, since)
  PROVE  \/ S = {} /\ pager' = NotPaging
         \/ /\ pager'.busy /\ pager'.cursor \in S /\ pager'.since = since
            /\ pager.seen \subseteq pager'.seen /\ pager'.lost = pager.lost
            /\ \A m \in S : m \in pager'.seen \/ Older(m, pager'.cursor)
            /\ pager' \in [busy : BOOLEAN, cursor : Message \cup {Null},
                           seen : SUBSET Message, since : SUBSET Message, lost : BOOLEAN]
<1>1. PICK page \in Pages(S) :
        pager' = IF page = {} THEN NotPaging
                 ELSE [pager EXCEPT !.busy = TRUE, !.cursor = Oldest(page),
                                    !.seen = pager.seen \cup page, !.since = since]
  BY DEF GetPage
<1>2. /\ page \in SUBSET S
      /\ Cardinality(page) = PageSize \/ page = S
      /\ \A m \in page, n \in S \ page : ~Older(m, n)
  BY DEF Pages
<1>3. CASE page = {}
  BY <1>1, <1>2, <1>3, BoundAssumption, FS_EmptySet
<1>4. CASE page # {}
  <2>1. Oldest(page) \in page /\ page \in SUBSET Stored
    BY <1>2, <1>4, OldestExists
  <2>2. /\ pager'.busy /\ pager'.cursor = Oldest(page) /\ pager'.since = since
        /\ pager'.seen = pager.seen \cup page /\ pager'.lost = pager.lost
    BY <1>1, <1>4 DEF TypeOK
  <2>3. \A m \in S : m \in page \/ Older(m, Oldest(page))
    BY <1>2, <2>1, OlderTotal
  <2>4. pager' \in [busy : BOOLEAN, cursor : Message \cup {Null},
                    seen : SUBSET Message, since : SUBSET Message, lost : BOOLEAN]
    BY <1>1, <1>4, <2>1, MsgsTyped DEF TypeOK
  <2> QED
    BY <2>1, <2>2, <2>3, <2>4, <1>2
<1> QED
  BY <1>3, <1>4

-----------------------------------------------------------------------------
(* One lemma per conjunct of the invariant.                                *)

LEMMA ConstantsTyped ==
  /\ NotCounting \in [busy : BOOLEAN, row : Row, lost : BOOLEAN]
  /\ NotMarking \in [on : Message \cup {Null}, row : Row]
  /\ NotPaging \in [busy : BOOLEAN, cursor : Message \cup {Null},
                    seen : SUBSET Message, since : SUBSET Message, lost : BOOLEAN]
  /\ NoPass \in [stage : {"asleep", "selected", "purged"}, cutoff : Int,
                 doomed : SUBSET Message, late : SUBSET Message]
  /\ NoRow \in Row /\ Null \in Row
BY DEF NotCounting, NotMarking, NotPaging, NoPass, Row

LEMMA TypeKept ==
  ASSUME TypeOK, PagerStands, [Next]_vars
  PROVE  TypeOK'
<1>1. CASE UNCHANGED vars
  BY <1>1 DEF vars, chat, TypeOK
<1>2. ASSUME CreateRoom
      PROVE  TypeOK'
  BY <1>2 DEF CreateRoom, TypeOK, chat
<1>3. ASSUME NEW t \in Time, SendMessage(t)
      PROVE  TypeOK'
  BY <1>3, StoreTyped DEF SendMessage, Store, TypeOK, Msgs
<1>4. ASSUME OpenSocket
      PROVE  TypeOK'
  BY <1>4 DEF OpenSocket, TypeOK, chat
<1>5. ASSUME SocketMessage
      PROVE  TypeOK'
  <2>1. socket \in Time
    BY <1>5 DEF SocketMessage, TypeOK
  <2> QED
    BY <1>5, <2>1, StoreTyped DEF SocketMessage, Store, TypeOK, Msgs
<1>6. ASSUME CloseSocket
      PROVE  TypeOK'
  BY <1>6, ConstantsTyped DEF CloseSocket, TypeOK, chat
<1>7. ASSUME NEW m \in Message, DeleteMessage(m)
      PROVE  TypeOK'
  BY <1>7, DeleteTyped, ConstantsTyped DEF DeleteMessage, TypeOK, chat, UnsetMark, Msgs
<1>8. ASSUME NEW b \in Tab, NEW m \in Message, FindMark(b, m)
      PROVE  TypeOK'
  BY <1>8 DEF FindMark, TypeOK, chat, Row
<1>9. ASSUME NEW b \in Tab, SetMark(b)
      PROVE  TypeOK'
  BY <1>9, ConstantsTyped DEF SetMark, TypeOK, chat, NewMark, Row
<1>10. ASSUME NEW b \in Tab, SetMarkFails(b)
      PROVE  TypeOK'
  BY <1>10, ConstantsTyped DEF SetMarkFails, TypeOK, chat
<1>11. ASSUME FindMarkToCount
      PROVE  TypeOK'
  BY <1>11 DEF FindMarkToCount, TypeOK, chat
<1>12. ASSUME CountUnread
      PROVE  TypeOK'
  BY <1>12, ConstantsTyped DEF CountUnread, TypeOK, chat
<1>13. ASSUME FirstPage
      PROVE  TypeOK'
  <2>1. Stored \in SUBSET Stored /\ Stored \in SUBSET Stored
    BY MsgsTyped
  <2>2. pager' = NotPaging \/
        pager' \in [busy : BOOLEAN, cursor : Message \cup {Null},
                    seen : SUBSET Message, since : SUBSET Message, lost : BOOLEAN]
    BY <1>13, <2>1, PageFacts DEF FirstPage
  <2> QED
    BY <1>13, <2>2, ConstantsTyped DEF FirstPage, TypeOK, chat
<1>14. ASSUME NextPage
      PROVE  TypeOK'
  <2>1. {m \in Stored : pager.cursor \in Stored /\ Older(m, pager.cursor)} \in SUBSET Stored /\ pager.since \in SUBSET Stored
    BY DEF PagerStands
  <2>2. pager' = NotPaging \/
        pager' \in [busy : BOOLEAN, cursor : Message \cup {Null},
                    seen : SUBSET Message, since : SUBSET Message, lost : BOOLEAN]
    BY <1>14, <2>1, PageFacts DEF NextPage
  <2> QED
    BY <1>14, <2>2, ConstantsTyped DEF NextPage, TypeOK, chat
<1>15. ASSUME SelectRoom
      PROVE  TypeOK'
  <2>1. time - Retention \in Int
    BY BoundAssumption DEF TypeOK, Time
  <2> QED
    BY <1>15, <2>1 DEF SelectRoom, TypeOK, chat, NoPass
<1>16. ASSUME PurgeMessages
      PROVE  TypeOK'
  BY <1>16, MsgsTyped DEF PurgeMessages, TypeOK, chat
<1>17. ASSUME DeleteRoom
      PROVE  TypeOK'
  BY <1>17, DeleteTyped, ConstantsTyped DEF DeleteRoom, TypeOK, chat, Msgs
<1>18. ASSUME PassFails
      PROVE  TypeOK'
  BY <1>18, ConstantsTyped DEF PassFails, TypeOK, chat
<1>19. ASSUME Tick
      PROVE  TypeOK'
  BY <1>19, BoundAssumption DEF Tick, TypeOK, chat, Time
<1> QED
  BY <1>1, <1>2, <1>3, <1>4, <1>5, <1>6, <1>7, <1>8, <1>9, <1>10,
     <1>11, <1>12, <1>13, <1>14, <1>15, <1>16, <1>17, <1>18, <1>19 DEF Next

LEMMA DatesKept ==
  ASSUME TypeOK, DatesPrecede, [Next]_vars
  PROVE  DatesPrecede'
<1>1. CASE UNCHANGED vars
  BY <1>1 DEF vars, chat, DatesPrecede, Stored
<1>2. ASSUME CreateRoom
      PROVE  DatesPrecede'
  BY <1>2 DEF CreateRoom, DatesPrecede, chat, Stored
<1>3. ASSUME NEW t \in Time, SendMessage(t)
      PROVE  DatesPrecede'
  <2>1. t <= time
    BY <1>3 DEF SendMessage, Time, TypeOK
  <2>2. \A m \in Stored' :
          \/ m \in Stored /\ msgs'[m] = msgs[m]
          \/ msgs'[m] = [date |-> t, stored |-> time]
    BY <1>3, StoreTyped DEF SendMessage
  <2>3. time' = time /\ socket' = socket
    BY <1>3 DEF SendMessage
  <2> QED
    BY <2>1, <2>2, <2>3 DEF DatesPrecede
<1>4. ASSUME OpenSocket
      PROVE  DatesPrecede'
  BY <1>4 DEF OpenSocket, DatesPrecede, chat, Stored, Time, TypeOK
<1>5. ASSUME SocketMessage
      PROVE  DatesPrecede'
  <2>1. socket \in Time /\ socket <= time
    BY <1>5 DEF SocketMessage, TypeOK, DatesPrecede
  <2>2. time \in Nat
    BY DEF TypeOK, Time
  <2>3. \A m \in Stored' :
          \/ m \in Stored /\ msgs'[m] = msgs[m]
          \/ msgs'[m] = [date |-> socket, stored |-> time]
    BY <1>5, <2>1, StoreTyped DEF SocketMessage
  <2>4. time' = time /\ socket' = time
    BY <1>5 DEF SocketMessage
  <2> QED
    BY <2>1, <2>2, <2>3, <2>4 DEF DatesPrecede
<1>6. ASSUME CloseSocket
      PROVE  DatesPrecede'
  BY <1>6 DEF CloseSocket, DatesPrecede, chat, Stored
<1>7. ASSUME NEW m \in Message, DeleteMessage(m)
      PROVE  DatesPrecede'
  BY <1>7, DeleteTyped DEF DeleteMessage, DatesPrecede, chat
<1>8. ASSUME NEW b \in Tab, NEW m \in Message, FindMark(b, m)
      PROVE  DatesPrecede'
  BY <1>8 DEF FindMark, DatesPrecede, chat, Stored
<1>9. ASSUME NEW b \in Tab, SetMark(b)
      PROVE  DatesPrecede'
  BY <1>9 DEF SetMark, DatesPrecede, chat, Stored
<1>10. ASSUME NEW b \in Tab, SetMarkFails(b)
      PROVE  DatesPrecede'
  BY <1>10 DEF SetMarkFails, DatesPrecede, chat, Stored
<1>11. ASSUME FindMarkToCount
      PROVE  DatesPrecede'
  BY <1>11 DEF FindMarkToCount, DatesPrecede, chat, Stored
<1>12. ASSUME CountUnread
      PROVE  DatesPrecede'
  BY <1>12 DEF CountUnread, DatesPrecede, chat, Stored
<1>13. ASSUME FirstPage
      PROVE  DatesPrecede'
  BY <1>13 DEF FirstPage, DatesPrecede, chat, Stored
<1>14. ASSUME NextPage
      PROVE  DatesPrecede'
  BY <1>14 DEF NextPage, DatesPrecede, chat, Stored
<1>15. ASSUME SelectRoom
      PROVE  DatesPrecede'
  BY <1>15 DEF SelectRoom, DatesPrecede, chat, Stored
<1>16. ASSUME PurgeMessages
      PROVE  DatesPrecede'
  BY <1>16 DEF PurgeMessages, DatesPrecede, chat, Stored
<1>17. ASSUME DeleteRoom
      PROVE  DatesPrecede'
  BY <1>17, DeleteTyped DEF DeleteRoom, DatesPrecede, chat
<1>18. ASSUME PassFails
      PROVE  DatesPrecede'
  BY <1>18 DEF PassFails, DatesPrecede, chat, Stored
<1>19. ASSUME Tick
      PROVE  DatesPrecede'
  BY <1>19 DEF Tick, DatesPrecede, chat, Stored, Time, TypeOK
<1> QED
  BY <1>1, <1>2, <1>3, <1>4, <1>5, <1>6, <1>7, <1>8, <1>9, <1>10,
     <1>11, <1>12, <1>13, <1>14, <1>15, <1>16, <1>17, <1>18, <1>19 DEF Next

LEMMA MarkKept ==
  ASSUME TypeOK, MarkStands, [Next]_vars
  PROVE  MarkStands'
<1>1. CASE UNCHANGED vars
  BY <1>1 DEF vars, chat, MarkStands, Stored
<1>2. ASSUME CreateRoom
      PROVE  MarkStands'
  BY <1>2 DEF CreateRoom, MarkStands, chat, Stored
<1>3. ASSUME NEW t \in Time, SendMessage(t)
      PROVE  MarkStands'
  BY <1>3, StoreTyped DEF SendMessage, MarkStands
<1>4. ASSUME OpenSocket
      PROVE  MarkStands'
  BY <1>4 DEF OpenSocket, MarkStands, chat, Stored
<1>5. ASSUME SocketMessage
      PROVE  MarkStands'
  BY <1>5, StoreTyped DEF SocketMessage, MarkStands, TypeOK
<1>6. ASSUME CloseSocket
      PROVE  MarkStands'
  BY <1>6 DEF CloseSocket, MarkStands, chat, Stored
<1>7. ASSUME NEW m \in Message, DeleteMessage(m)
      PROVE  MarkStands'
  BY <1>7, DeleteTyped, Numbers DEF DeleteMessage, MarkStands, chat, UnsetMark
<1>8. ASSUME NEW b \in Tab, NEW m \in Message, FindMark(b, m)
      PROVE  MarkStands'
  BY <1>8 DEF FindMark, MarkStands, chat, Stored
<1>9. ASSUME NEW b \in Tab, SetMark(b)
      PROVE  MarkStands'
  BY <1>9 DEF SetMark, MarkStands, chat, NewMark, MaySetMark, Stored
<1>10. ASSUME NEW b \in Tab, SetMarkFails(b)
      PROVE  MarkStands'
  BY <1>10 DEF SetMarkFails, MarkStands, chat, Stored
<1>11. ASSUME FindMarkToCount
      PROVE  MarkStands'
  BY <1>11 DEF FindMarkToCount, MarkStands, chat, Stored
<1>12. ASSUME CountUnread
      PROVE  MarkStands'
  BY <1>12 DEF CountUnread, MarkStands, chat, Stored
<1>13. ASSUME FirstPage
      PROVE  MarkStands'
  BY <1>13 DEF FirstPage, MarkStands, chat, Stored
<1>14. ASSUME NextPage
      PROVE  MarkStands'
  BY <1>14 DEF NextPage, MarkStands, chat, Stored
<1>15. ASSUME SelectRoom
      PROVE  MarkStands'
  BY <1>15 DEF SelectRoom, MarkStands, chat, Stored
<1>16. ASSUME PurgeMessages
      PROVE  MarkStands'
  BY <1>16 DEF PurgeMessages, MarkStands, chat, Stored
<1>17. ASSUME DeleteRoom
      PROVE  MarkStands'
  BY <1>17, DeleteTyped, Numbers DEF DeleteRoom, MarkStands, chat
<1>18. ASSUME PassFails
      PROVE  MarkStands'
  BY <1>18 DEF PassFails, MarkStands, chat, Stored
<1>19. ASSUME Tick
      PROVE  MarkStands'
  BY <1>19 DEF Tick, MarkStands, chat, Stored
<1> QED
  BY <1>1, <1>2, <1>3, <1>4, <1>5, <1>6, <1>7, <1>8, <1>9, <1>10,
     <1>11, <1>12, <1>13, <1>14, <1>15, <1>16, <1>17, <1>18, <1>19 DEF Next

LEMMA CountKept ==
  ASSUME TypeOK, MarkStands, CountStands, [Next]_vars
  PROVE  CountStands'
<1>1. CASE UNCHANGED vars
  BY <1>1 DEF vars, chat, CountStands, Stored
<1>2. ASSUME CreateRoom
      PROVE  CountStands'
  BY <1>2 DEF CreateRoom, CountStands, chat, Stored
<1>3. ASSUME NEW t \in Time, SendMessage(t)
      PROVE  CountStands'
  BY <1>3, StoreTyped DEF SendMessage, CountStands
<1>4. ASSUME OpenSocket
      PROVE  CountStands'
  BY <1>4 DEF OpenSocket, CountStands, chat, Stored
<1>5. ASSUME SocketMessage
      PROVE  CountStands'
  BY <1>5, StoreTyped DEF SocketMessage, CountStands, TypeOK
<1>6. ASSUME CloseSocket
      PROVE  CountStands'
  BY <1>6 DEF CloseSocket, CountStands, chat, Stored
<1>7. ASSUME NEW m \in Message, DeleteMessage(m)
      PROVE  CountStands'
  BY <1>7, DeleteTyped DEF DeleteMessage, CountStands, chat, TypeOK, Delete
<1>8. ASSUME NEW b \in Tab, NEW m \in Message, FindMark(b, m)
      PROVE  CountStands'
  BY <1>8 DEF FindMark, CountStands, chat, Stored
<1>9. ASSUME NEW b \in Tab, SetMark(b)
      PROVE  CountStands'
  BY <1>9 DEF SetMark, CountStands, chat, Stored
<1>10. ASSUME NEW b \in Tab, SetMarkFails(b)
      PROVE  CountStands'
  BY <1>10 DEF SetMarkFails, CountStands, chat, Stored
<1>11. ASSUME FindMarkToCount
      PROVE  CountStands'
  BY <1>11 DEF FindMarkToCount, CountStands, chat, MarkStands, Stored
<1>12. ASSUME CountUnread
      PROVE  CountStands'
  BY <1>12 DEF CountUnread, CountStands, chat, NotCounting
<1>13. ASSUME FirstPage
      PROVE  CountStands'
  BY <1>13 DEF FirstPage, CountStands, chat, Stored
<1>14. ASSUME NextPage
      PROVE  CountStands'
  BY <1>14 DEF NextPage, CountStands, chat, Stored
<1>15. ASSUME SelectRoom
      PROVE  CountStands'
  BY <1>15 DEF SelectRoom, CountStands, chat, Stored
<1>16. ASSUME PurgeMessages
      PROVE  CountStands'
  BY <1>16 DEF PurgeMessages, CountStands, chat, Stored
<1>17. ASSUME DeleteRoom
      PROVE  CountStands'
  BY <1>17, DeleteTyped DEF DeleteRoom, CountStands, chat, TypeOK, Delete
<1>18. ASSUME PassFails
      PROVE  CountStands'
  BY <1>18 DEF PassFails, CountStands, chat, Stored
<1>19. ASSUME Tick
      PROVE  CountStands'
  BY <1>19 DEF Tick, CountStands, chat, Stored
<1> QED
  BY <1>1, <1>2, <1>3, <1>4, <1>5, <1>6, <1>7, <1>8, <1>9, <1>10,
     <1>11, <1>12, <1>13, <1>14, <1>15, <1>16, <1>17, <1>18, <1>19 DEF Next

LEMMA PassKept ==
  ASSUME TypeOK, PassStands, [Next]_vars
  PROVE  PassStands'
<1>1. CASE UNCHANGED vars
  BY <1>1 DEF vars, chat, PassStands, Stored
<1>2. ASSUME CreateRoom
      PROVE  PassStands'
  BY <1>2 DEF CreateRoom, PassStands, chat, Stored
<1>3. ASSUME NEW t \in Time, SendMessage(t)
      PROVE  PassStands'
  BY <1>3, StoreTyped DEF SendMessage, Store, PassStands
<1>4. ASSUME OpenSocket
      PROVE  PassStands'
  BY <1>4 DEF OpenSocket, PassStands, chat, Stored
<1>5. ASSUME SocketMessage
      PROVE  PassStands'
  BY <1>5, StoreTyped DEF SocketMessage, Store, PassStands, TypeOK
<1>6. ASSUME CloseSocket
      PROVE  PassStands'
  BY <1>6 DEF CloseSocket, PassStands, chat, Stored
<1>7. ASSUME NEW m \in Message, DeleteMessage(m)
      PROVE  PassStands'
  BY <1>7, DeleteTyped DEF DeleteMessage, PassStands, chat
<1>8. ASSUME NEW b \in Tab, NEW m \in Message, FindMark(b, m)
      PROVE  PassStands'
  BY <1>8 DEF FindMark, PassStands, chat, Stored
<1>9. ASSUME NEW b \in Tab, SetMark(b)
      PROVE  PassStands'
  BY <1>9 DEF SetMark, PassStands, chat, Stored
<1>10. ASSUME NEW b \in Tab, SetMarkFails(b)
      PROVE  PassStands'
  BY <1>10 DEF SetMarkFails, PassStands, chat, Stored
<1>11. ASSUME FindMarkToCount
      PROVE  PassStands'
  BY <1>11 DEF FindMarkToCount, PassStands, chat, Stored
<1>12. ASSUME CountUnread
      PROVE  PassStands'
  BY <1>12 DEF CountUnread, PassStands, chat, Stored
<1>13. ASSUME FirstPage
      PROVE  PassStands'
  BY <1>13 DEF FirstPage, PassStands, chat, Stored
<1>14. ASSUME NextPage
      PROVE  PassStands'
  BY <1>14 DEF NextPage, PassStands, chat, Stored
<1>15. ASSUME SelectRoom
      PROVE  PassStands'
  BY <1>15 DEF SelectRoom, PassStands, chat, NoPass, IsStale, Stored
<1>16. ASSUME PurgeMessages
      PROVE  PassStands'
  BY <1>16 DEF PurgeMessages, PassStands, chat, TypeOK, Stored
<1>17. ASSUME DeleteRoom
      PROVE  PassStands'
  BY <1>17 DEF DeleteRoom, PassStands, chat, NoPass
<1>18. ASSUME PassFails
      PROVE  PassStands'
  BY <1>18 DEF PassFails, PassStands, chat, NoPass
<1>19. ASSUME Tick
      PROVE  PassStands'
  BY <1>19 DEF Tick, PassStands, chat, Stored
<1> QED
  BY <1>1, <1>2, <1>3, <1>4, <1>5, <1>6, <1>7, <1>8, <1>9, <1>10,
     <1>11, <1>12, <1>13, <1>14, <1>15, <1>16, <1>17, <1>18, <1>19 DEF Next

(* Older says the same of two messages for as long as both are there.      *)
LEMMA PagerKept ==
  ASSUME TypeOK, PagerStands, [Next]_vars
  PROVE  PagerStands'
<1>1. CASE UNCHANGED vars
  <2>1. \A m, c \in Stored : Older(m, c)' <=> Older(m, c)
    BY <1>1 DEF vars, Older, Stored, chat
  <2> QED
    BY <1>1, <2>1 DEF vars, PagerStands, Stored, chat
<1>2. ASSUME CreateRoom
      PROVE  PagerStands'
  <2>1. \A m, c \in Stored : Older(m, c)' <=> Older(m, c)
    BY <1>2 DEF CreateRoom, Older, Stored, chat
  <2> QED
    BY <1>2, <2>1 DEF CreateRoom, PagerStands, Stored, chat
<1>3. ASSUME NEW t \in Time, SendMessage(t)
      PROVE  PagerStands'
  <2>1. Stored \subseteq Stored' /\ \A m \in Stored : msgs'[m] = msgs[m]
    <3>1. msgs' = [m \in Stored \cup {posted + 1} |->
                     IF m \in Stored THEN msgs[m] ELSE [date |-> t, stored |-> time]]
      BY <1>3 DEF SendMessage, Store
    <3> QED
      BY <3>1 DEF Stored
  <2>2. \A m, c \in Stored : Older(m, c)' <=> Older(m, c)
    BY <2>1 DEF Older
  <2>3. pager' = pager
    BY <1>3 DEF SendMessage
  <2> QED
    BY <2>1, <2>2, <2>3 DEF PagerStands
<1>4. ASSUME OpenSocket
      PROVE  PagerStands'
  <2>1. \A m, c \in Stored : Older(m, c)' <=> Older(m, c)
    BY <1>4 DEF OpenSocket, Older, Stored, chat
  <2> QED
    BY <1>4, <2>1 DEF OpenSocket, PagerStands, Stored, chat
<1>5. ASSUME SocketMessage
      PROVE  PagerStands'
  <2>1. Stored \subseteq Stored' /\ \A m \in Stored : msgs'[m] = msgs[m]
    <3>1. msgs' = [m \in Stored \cup {posted + 1} |->
                     IF m \in Stored THEN msgs[m] ELSE [date |-> socket, stored |-> time]]
      BY <1>5 DEF SocketMessage, Store
    <3> QED
      BY <3>1 DEF Stored
  <2>2. \A m, c \in Stored : Older(m, c)' <=> Older(m, c)
    BY <2>1 DEF Older
  <2>3. pager' = pager
    BY <1>5 DEF SocketMessage
  <2> QED
    BY <2>1, <2>2, <2>3 DEF PagerStands
<1>6. ASSUME CloseSocket
      PROVE  PagerStands'
  <2>1. \A m, c \in Stored : Older(m, c)' <=> Older(m, c)
    BY <1>6 DEF CloseSocket, Older, Stored, chat
  <2> QED
    BY <1>6, <2>1 DEF CloseSocket, PagerStands, Stored, chat
<1>7. ASSUME NEW m \in Message, DeleteMessage(m)
      PROVE  PagerStands'
  <2>1. Stored' = Stored \ {m} /\ \A n \in Stored' : msgs'[n] = msgs[n]
    BY <1>7, DeleteTyped DEF DeleteMessage
  <2>2. \A n, c \in Stored' : Older(n, c)' <=> Older(n, c)
    BY <2>1 DEF Older
  <2>3. /\ pager'.since = pager.since \ {m} /\ pager'.busy = pager.busy
        /\ pager'.seen = pager.seen /\ pager'.cursor = pager.cursor
        /\ pager'.lost = (pager.lost \/ pager.cursor \in {m})
    BY <1>7 DEF DeleteMessage, Delete, TypeOK
  <2> QED
    BY <2>1, <2>2, <2>3 DEF PagerStands
<1>8. ASSUME NEW b \in Tab, NEW m \in Message, FindMark(b, m)
      PROVE  PagerStands'
  <2>1. \A n, c \in Stored : Older(n, c)' <=> Older(n, c)
    BY <1>8 DEF FindMark, Older, Stored, chat
  <2> QED
    BY <1>8, <2>1 DEF FindMark, PagerStands, Stored, chat
<1>9. ASSUME NEW b \in Tab, SetMark(b)
      PROVE  PagerStands'
  <2>1. \A m, c \in Stored : Older(m, c)' <=> Older(m, c)
    BY <1>9 DEF SetMark, Older, Stored, chat
  <2> QED
    BY <1>9, <2>1 DEF SetMark, PagerStands, Stored, chat
<1>10. ASSUME NEW b \in Tab, SetMarkFails(b)
      PROVE  PagerStands'
  <2>1. \A m, c \in Stored : Older(m, c)' <=> Older(m, c)
    BY <1>10 DEF SetMarkFails, Older, Stored, chat
  <2> QED
    BY <1>10, <2>1 DEF SetMarkFails, PagerStands, Stored, chat
<1>11. ASSUME FindMarkToCount
      PROVE  PagerStands'
  <2>1. \A m, c \in Stored : Older(m, c)' <=> Older(m, c)
    BY <1>11 DEF FindMarkToCount, Older, Stored, chat
  <2> QED
    BY <1>11, <2>1 DEF FindMarkToCount, PagerStands, Stored, chat
<1>12. ASSUME CountUnread
      PROVE  PagerStands'
  <2>1. \A m, c \in Stored : Older(m, c)' <=> Older(m, c)
    BY <1>12 DEF CountUnread, Older, Stored, chat
  <2> QED
    BY <1>12, <2>1 DEF CountUnread, PagerStands, Stored, chat
<1>13. ASSUME FirstPage
      PROVE  PagerStands'
  <2>1. Stored \in SUBSET Stored /\ Stored \in SUBSET Stored
    BY DEF PagerStands
  <2>2. \/ pager' = NotPaging
        \/ /\ pager'.busy /\ pager'.cursor \in Stored /\ pager'.since = Stored
           /\ pager.seen \subseteq pager'.seen /\ pager'.lost = pager.lost
           /\ \A m \in Stored : m \in pager'.seen \/ Older(m, pager'.cursor)
    BY <1>13, <2>1, PageFacts DEF FirstPage
  <2>3. Stored' = Stored /\ \A m, c : Older(m, c)' <=> Older(m, c)
    BY <1>13 DEF FirstPage, Stored, Older, chat
  <2> QED
    BY <1>13, <2>1, <2>2, <2>3 DEF FirstPage, PagerStands, NotPaging
<1>14. ASSUME NextPage
      PROVE  PagerStands'
  <2>1. {m \in Stored : pager.cursor \in Stored /\ Older(m, pager.cursor)} \in SUBSET Stored /\ pager.since \in SUBSET Stored
    BY DEF PagerStands
  <2>2. \/ pager' = NotPaging
        \/ /\ pager'.busy /\ pager'.cursor \in {m \in Stored : pager.cursor \in Stored /\ Older(m, pager.cursor)} /\ pager'.since = pager.since
           /\ pager.seen \subseteq pager'.seen /\ pager'.lost = pager.lost
           /\ \A m \in {m \in Stored : pager.cursor \in Stored /\ Older(m, pager.cursor)} : m \in pager'.seen \/ Older(m, pager'.cursor)
    BY <1>14, <2>1, PageFacts DEF NextPage
  <2>3. Stored' = Stored /\ \A m, c : Older(m, c)' <=> Older(m, c)
    BY <1>14 DEF NextPage, Stored, Older, chat
  <2> QED
    BY <1>14, <2>1, <2>2, <2>3 DEF NextPage, PagerStands, NotPaging
<1>15. ASSUME SelectRoom
      PROVE  PagerStands'
  <2>1. \A m, c \in Stored : Older(m, c)' <=> Older(m, c)
    BY <1>15 DEF SelectRoom, Older, Stored, chat
  <2> QED
    BY <1>15, <2>1 DEF SelectRoom, PagerStands, Stored, chat
<1>16. ASSUME PurgeMessages
      PROVE  PagerStands'
  <2>1. \A m, c \in Stored : Older(m, c)' <=> Older(m, c)
    BY <1>16 DEF PurgeMessages, Older, Stored, chat
  <2> QED
    BY <1>16, <2>1 DEF PurgeMessages, PagerStands, Stored, chat
<1>17. ASSUME DeleteRoom
      PROVE  PagerStands'
  <2>1. Stored' = Stored \ Stored /\ \A m \in Stored' : msgs'[m] = msgs[m]
    BY <1>17, DeleteTyped DEF DeleteRoom
  <2>2. \A m, c \in Stored' : Older(m, c)' <=> Older(m, c)
    BY <2>1 DEF Older
  <2>3. /\ pager'.since = pager.since \ Stored /\ pager'.busy = pager.busy
        /\ pager'.seen = pager.seen /\ pager'.cursor = pager.cursor
        /\ pager'.lost = (pager.lost \/ pager.cursor \in Stored)
    BY <1>17 DEF DeleteRoom, Delete, TypeOK
  <2> QED
    BY <2>1, <2>2, <2>3 DEF PagerStands
<1>18. ASSUME PassFails
      PROVE  PagerStands'
  <2>1. \A m, c \in Stored : Older(m, c)' <=> Older(m, c)
    BY <1>18 DEF PassFails, Older, Stored, chat
  <2> QED
    BY <1>18, <2>1 DEF PassFails, PagerStands, Stored, chat
<1>19. ASSUME Tick
      PROVE  PagerStands'
  <2>1. \A m, c \in Stored : Older(m, c)' <=> Older(m, c)
    BY <1>19 DEF Tick, Older, Stored, chat
  <2> QED
    BY <1>19, <2>1 DEF Tick, PagerStands, Stored, chat
<1> QED
  BY <1>1, <1>2, <1>3, <1>4, <1>5, <1>6, <1>7, <1>8, <1>9, <1>10,
     <1>11, <1>12, <1>13, <1>14, <1>15, <1>16, <1>17, <1>18, <1>19 DEF Next

-----------------------------------------------------------------------------
(* The invariant, and the results.                                         *)

LEMMA InitIInv == Init => IInv
<1> SUFFICES ASSUME Init PROVE IInv
  OBVIOUS
<1>1. Stored = {} /\ msgs \in [{} -> [date : Time, stored : Time]]
  BY DEF Init, Stored
<1>2. TypeOK
  <2>1. msgs \in UNION {[S -> [date : Time, stored : Time]] : S \in SUBSET Message}
    BY <1>1
  <2>2. /\ room = "none" /\ created \in Time /\ posted \in 0..MaxMessages /\ time \in Time
        /\ mark \in Row /\ socket \in Time \cup {NoRow}
    BY ConstantsTyped, BoundAssumption DEF Init, Time
  <2>3. /\ marking \in [Tab -> [on : Message \cup {Null}, row : Row]]
        /\ counting = NotCounting /\ pager = NotPaging /\ pass = NoPass
    BY ConstantsTyped DEF Init
  <2> QED
    BY <2>1, <2>2, <2>3, ConstantsTyped DEF TypeOK
<1> QED
  BY <1>1, <1>2, Numbers DEF Init, IInv, DatesPrecede, MarkStands, CountStands, PassStands,
     PagerStands, NotCounting, NoPass, NotPaging

LEMMA NextIInv == IInv /\ [Next]_vars => IInv'
BY TypeKept, DatesKept, MarkKept, CountKept, PassKept, PagerKept DEF IInv

(* The strengthened invariant holds in every state of the specification.   *)
THEOREM Invariance == Spec => []IInv
BY InitIInv, NextIInv, PTL DEF Spec

(* Every variable keeps its type.                                          *)
THEOREM TypeCorrect == Spec => []TypeOK
BY Invariance, PTL DEF IInv

(* get_unread_count_service misses no message dated after the marked one   *)
(* was stored, unless the marked one is deleted while it counts.  A date   *)
(* is the start of a transaction: a message sent later over a WebSocket    *)
(* whose transaction began earlier may well be missed.                     *)
THEOREM CountsAreComplete == Spec => LaterMessagesCount
<1>1. IInv /\ [Next]_vars =>
        [Answered =>
           \/ counting.lost
           \/ \A m \in Stored :
                (counting.row \in Stored => msgs[m].date > msgs[counting.row].stored)
                => m \in Unread(counting.row)]_vars
  <2> SUFFICES ASSUME IInv, Answered, ~counting.lost, NEW m \in Stored,
                      counting.row \in Stored => msgs[m].date > msgs[counting.row].stored
               PROVE  m \in Unread(counting.row)
    OBVIOUS
  <2>1. CASE counting.row \in {NoRow, Null}
    BY <2>1 DEF Unread
  <2>2. CASE counting.row \notin {NoRow, Null}
    <3>1. counting.row \in Stored
      BY <2>2 DEF IInv, TypeOK, Row, CountStands, Answered
    <3>2. /\ msgs[counting.row].date <= msgs[counting.row].stored
          /\ msgs[m].date > msgs[counting.row].stored
      BY <3>1 DEF IInv, DatesPrecede
    <3>3. msgs[m].date \in Nat /\ msgs[counting.row].date \in Nat /\ msgs[counting.row].stored \in Nat
      BY <3>1, MsgsTyped DEF IInv, Time
    <3> QED
      BY <2>2, <3>1, <3>2, <3>3 DEF Unread
  <2> QED
    BY <2>1, <2>2
<1> QED
  BY <1>1, Invariance, PTL DEF Spec, LaterMessagesCount

(* mark_room_as_read_service: a mark that is answered stands, but for what *)
(* others did to it since it was read.                                     *)
THEOREM MarksStand == Spec => AnsweredMarksStand
<1>1. IInv /\ [Next]_vars =>
        [\A b \in Tab : marking[b] # NotMarking /\ marking'[b] = NotMarking =>
           \/ mark' = marking[b].on
           \/ mark # marking[b].row
           \/ marking[b].on \notin Stored]_vars
  <2> SUFFICES ASSUME IInv, Next, NEW b \in Tab, marking[b] # NotMarking, marking'[b] = NotMarking
               PROVE  \/ mark' = marking[b].on
                      \/ mark # marking[b].row
                      \/ marking[b].on \notin Stored
    OBVIOUS
  <2>1. SetMark(b) \/ SetMarkFails(b)
    BY Numbers DEF IInv, TypeOK, Next, CreateRoom, SendMessage, OpenSocket, SocketMessage, CloseSocket,
       DeleteMessage, FindMark, SetMark, SetMarkFails, FindMarkToCount, CountUnread, FirstPage,
       NextPage, SelectRoom, PurgeMessages, DeleteRoom, PassFails, Tick, chat
  <2>2. CASE SetMark(b)
    BY <2>2 DEF SetMark, NewMark
  <2>3. CASE SetMarkFails(b)
    BY <2>3 DEF SetMarkFails, MaySetMark
  <2> QED
    BY <2>1, <2>2, <2>3
<1> QED
  BY <1>1, Invariance, PTL DEF Spec, AnsweredMarksStand

(* list_messages_paginated: paging back to the end shows every message     *)
(* that was there all along, unless the cursor goes.                       *)
THEOREM PagingIsComplete == Spec => PagesAreComplete
<1>1. IInv /\ [Next]_vars =>
        [pager.busy /\ ~pager'.busy => pager.lost \/ pager.since \subseteq pager.seen]_vars
  <2> SUFFICES ASSUME IInv, Next, pager.busy, ~pager'.busy, ~pager.lost
               PROVE  pager.since \subseteq pager.seen
    OBVIOUS
  <2> DEFINE S == {m \in Stored : pager.cursor \in Stored /\ Older(m, pager.cursor)}
  <2>1. NextPage
    BY DEF IInv, TypeOK, Next, CreateRoom, SendMessage, OpenSocket, SocketMessage, CloseSocket,
       DeleteMessage, FindMark, SetMark, SetMarkFails, FindMarkToCount, CountUnread, FirstPage,
       SelectRoom, PurgeMessages, DeleteRoom, PassFails, Tick, Delete
  <2>2. S \in SUBSET Stored /\ pager.since \in SUBSET Stored /\ GetPage(S, pager.since)
    BY <2>1 DEF IInv, PagerStands, NextPage
  <2>3. S = {}
    BY <2>2, PageFacts DEF IInv
  <2> QED
    BY <2>2, <2>3 DEF IInv, PagerStands
<1> QED
  BY <1>1, Invariance, PTL DEF Spec, PagesAreComplete

(* cleanup_inactive_chat_rooms deletes a room of a month's silence, but    *)
(* for messages stored behind its back.                                    *)
THEOREM QuietRoomsGo == Spec => OnlyQuietRoomsGo
<1>1. IInv /\ [Next]_vars =>
        [room = "open" /\ room' = "deleted" =>
           /\ created < pass.cutoff
           /\ \A m \in Stored :
                \/ msgs[m].stored < pass.cutoff
                \/ m \in pass.late
                \/ msgs[m].date < msgs[m].stored]_vars
  <2> SUFFICES ASSUME IInv, Next, room = "open", room' = "deleted"
               PROVE  /\ created < pass.cutoff
                      /\ \A m \in Stored :
                           \/ msgs[m].stored < pass.cutoff
                           \/ m \in pass.late
                           \/ msgs[m].date < msgs[m].stored
    OBVIOUS
  <2>1. DeleteRoom
    BY DEF Next, CreateRoom, SendMessage, OpenSocket, SocketMessage, CloseSocket, Store,
       DeleteMessage, FindMark, SetMark, SetMarkFails, FindMarkToCount, CountUnread, FirstPage,
       NextPage, SelectRoom, PurgeMessages, DeleteRoom, PassFails, Tick, chat
  <2>2. created < pass.cutoff /\ \A m \in Stored : m \in pass.late \/ msgs[m].date < pass.cutoff
    BY <2>1 DEF IInv, PassStands, DeleteRoom
  <2>3. pass.cutoff \in Int
    BY DEF IInv, TypeOK
  <2>4. \A m \in Stored : msgs[m].date \in Nat /\ msgs[m].stored \in Nat
    BY MsgsTyped DEF IInv, Time
  <2> QED
    BY <2>2, <2>3, <2>4
<1> QED
  BY <1>1, Invariance, PTL DEF Spec, OnlyQuietRoomsGo

=============================================================================
