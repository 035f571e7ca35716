------------------------- MODULE PageSessionsProofs -------------------------
(***************************************************************************)
(* The invariants of the two sessions a page keeps: the search it shows    *)
(* (SearchSession) and the recording it makes of itself (DvrSession).      *)
(* Each has an inductive invariant of its own, stated in its module.       *)
(***************************************************************************)
EXTENDS SearchSession, DvrSession, Integers, FiniteSetTheorems, WellFoundedInduction, TLAPS

-----------------------------------------------------------------------------
(***************************************************************************)
(* SearchSession, for every number of requests in flight, searches, rows,  *)
(* page sizes and server restarts.  The argument: IInv is inductive.  A    *)
(* request of the current search was                                       *)
(* sent with a cursor the rows shown have reached by now, so its page      *)
(* extends them without a gap, however late it arrives (MergedExtends);    *)
(* everything an older request could change is guarded by the generation.  *)
(***************************************************************************)
\* The first n rows of search g.
FirstRows(g, n) == [i \in 1..n |-> <<g, i>>]

\* The phase the server reports is one the page knows, and "complete" has rows.
LEMMA SearchPhaseIs ==
  ASSUME NEW s \in Search
  PROVE  /\ SearchPhase(s) \in Phases
         /\ SearchPhase(s) = "complete" => s.rows > 0
<1>1. s.rows \in Nat /\ s.cancelled \in BOOLEAN
  BY SearchAssumption DEF Search
<1>2. CASE s.cancelled
  BY <1>1, <1>2 DEF SearchPhase, Phases, Live
<1>3. CASE ~s.cancelled /\ s.rows > 0
  BY <1>1, <1>3 DEF SearchPhase, Phases, Live
<1>4. CASE ~s.cancelled /\ s.rows = 0
  BY <1>1, <1>4 DEF SearchPhase, Phases, Live
<1>5. QED
  BY <1>1, <1>2, <1>3, <1>4

\* The rows at the positions after m are the rest of the page.
LEMMA RowsAtSuffix ==
  ASSUME NEW page, NEW n \in Nat, NEW m \in 0..n
  PROVE  RowsAt(page, (m + 1)..n) = [k \in 1..(n - m) |-> page[m + k]]
<1> DEFINE P == (m + 1)..n
           Before(i) == {h \in P : h < i}
<1>1. Cardinality(P) = n - m
  <2>1. m \in Int /\ n \in Int /\ m <= n /\ m + 1 \in Int
    OBVIOUS
  <2>2. Cardinality(P) = IF m + 1 > n THEN 0 ELSE n - (m + 1) + 1
    BY <2>1, FS_Interval
  <2>3. QED
    BY <2>1, <2>2
<1>2. ASSUME NEW i \in P
      PROVE  Cardinality(Before(i)) = i - 1 - m
  <2>1. Before(i) = (m + 1)..(i - 1)
    OBVIOUS
  <2>2. Cardinality((m + 1)..(i - 1)) = i - 1 - m
    BY FS_Interval
  <2>3. QED
    BY <2>1, <2>2
<1>3. ASSUME NEW k \in 1..(n - m)
      PROVE  (CHOOSE i \in P : Cardinality(Before(i)) = k - 1) = m + k
  <2>1. \A i \in P : Cardinality(Before(i)) = k - 1 <=> i = m + k
    <3> HIDE DEF Before
    <3>1. QED
      BY <1>2
  <2>2. m + k \in P
    OBVIOUS
  <2> HIDE DEF P, Before
  <2>3. QED
    BY <2>1, <2>2
<1>4. QED
  <2> HIDE DEF P
  <2>1. RowsAt(page, P)
          = [k \in 1..(n - m) |-> page[CHOOSE i \in P : Cardinality(Before(i)) = k - 1]]
    BY <1>1 DEF RowsAt
  <2> HIDE DEF Before
  <2>2. QED
    BY <1>3, <2>1 DEF P

\* A page that starts no later than where the rows shown end extends them to
\* where it ends, if that is further.
LEMMA MergedExtends ==
  ASSUME NEW g, NEW n \in Nat, NEW cur \in 0..n, NEW upto \in Nat
  PROVE  Merged(FirstRows(g, n), [i \in 1..(upto - cur) |-> <<g, cur + i>>])
           = FirstRows(g, IF upto > n THEN upto ELSE n)
<1> DEFINE old == FirstRows(g, n)
           page == [i \in 1..(upto - cur) |-> <<g, cur + i>>]
           new == {i \in DOMAIN page : \A k \in DOMAIN old : old[k] # page[i]}
<1>1. DOMAIN page = 1..(upto - cur) /\ DOMAIN old = 1..n
  BY DEF FirstRows
<1>2. new = {i \in 1..(upto - cur) : cur + i > n}
  <2>1. ASSUME NEW i \in 1..(upto - cur)
        PROVE  (\A k \in 1..n : old[k] # page[i]) <=> cur + i > n
    <3>1. page[i] = <<g, cur + i>> /\ \A k \in 1..n : old[k] = <<g, k>>
      BY DEF FirstRows
    <3>2. cur + i \in Nat \ {0}
      OBVIOUS
    <3>3. cur + i <= n => cur + i \in 1..n
      BY <3>2
    <3> HIDE DEF page, old
    <3>4. QED
      BY <3>1, <3>2, <3>3
  <2>2. QED
    BY <1>1, <2>1
<1>3. CASE upto > n
  <2>1. new = ((n - cur) + 1)..(upto - cur)
    <3> HIDE DEF new
    <3>1. QED
      BY <1>2, <1>3
  <2>2. RowsAt(page, new) = [k \in 1..(upto - n) |-> <<g, n + k>>]
    <3>1. (upto - cur) \in Nat /\ (n - cur) \in 0..(upto - cur)
      BY <1>3
    <3>2. RowsAt(page, new) = [k \in 1..((upto - cur) - (n - cur)) |-> page[(n - cur) + k]]
      <4> DEFINE N == upto - cur
                 M == n - cur
      <4>1. N \in Nat /\ M \in 0..N
        BY <3>1
      <4> HIDE DEF page, new, N, M
      <4>2. RowsAt(page, (M + 1)..N) = [k \in 1..(N - M) |-> page[M + k]]
        BY <4>1, RowsAtSuffix
      <4>3. QED
        BY <2>1, <4>2 DEF N, M
    <3>3. (upto - cur) - (n - cur) = upto - n
      OBVIOUS
    <3>4. \A k \in 1..(upto - n) : page[(n - cur) + k] = <<g, n + k>>
      BY <1>3
    <3> HIDE DEF page, new
    <3>5. QED
      BY <3>2, <3>3, <3>4
  <2>3. old \o [k \in 1..(upto - n) |-> <<g, n + k>>] = FirstRows(g, upto)
    BY <1>3 DEF FirstRows
  <2>4. QED
    BY <1>3, <2>2, <2>3 DEF Merged
<1>4. CASE upto <= n
  <2>1. new = {}
    BY <1>2, <1>4, SMTT(60)
  <2>2. RowsAt(page, {}) = <<>>
    BY FS_EmptySet DEF RowsAt
  <2>3. old \o <<>> = old
    BY DEF FirstRows
  <2>4. Merged(old, page) = old \o RowsAt(page, new)
    BY DEF Merged
  <2>5. Merged(old, page) = old
    <3> HIDE DEF page, new, old
    <3>1. QED
      BY <2>1, <2>2, <2>3, <2>4
  <2>6. (IF upto > n THEN upto ELSE n) = n
    BY <1>4
  <2>7. QED
    BY <2>5, <2>6
<1>5. QED
  BY <1>3, <1>4

-----------------------------------------------------------------------------
\* The rows shown, and how many there are.
LEMMA ShownIs ==
  ASSUME IInv
  PROVE  /\ Len(shown) \in 0..MaxRows
         /\ shown = FirstRows(gen, Len(shown))
         /\ shown = <<>> <=> Len(shown) = 0
<1>1. shown \in Seq((1..MaxGen) \X (1..MaxRows))
  BY DEF IInv, TypeOK
<1>2. Len(shown) \in Nat /\ DOMAIN shown = 1..Len(shown)
  BY <1>1
<1>3. shown = [i \in 1..Len(shown) |-> shown[i]]
  BY <1>1
<1>4. \A i \in 1..Len(shown) : shown[i] = <<gen, i>> /\ shown[i] \in (1..MaxGen) \X (1..MaxRows)
  <2>1. \A i \in 1..Len(shown) : shown[i] = <<gen, i>>
    BY <1>2 DEF IInv, RowsInServerOrder
  <2>2. \A i \in 1..Len(shown) : shown[i] \in (1..MaxGen) \X (1..MaxRows)
    BY <1>1
  <2>3. QED
    BY <2>1, <2>2
<1>5. shown = FirstRows(gen, Len(shown))
  BY <1>3, <1>4 DEF FirstRows
<1>6. Len(shown) <= MaxRows
  <2>1. CASE Len(shown) = 0
    BY <2>1, SearchAssumption
  <2>2. CASE Len(shown) > 0
    BY <1>2, <1>4, <2>2
  <2>3. QED
    BY <1>2, <2>1, <2>2
<1>7. shown = <<>> <=> Len(shown) = 0
  BY <1>1
<1>8. QED
  BY <1>2, <1>5, <1>6, <1>7, SearchAssumption

\* What a list of the first rows of a search is.
LEMMA FirstRowsAre ==
  ASSUME NEW g \in 1..MaxGen, NEW n \in 0..MaxRows
  PROVE  /\ FirstRows(g, n) \in Seq((1..MaxGen) \X (1..MaxRows))
         /\ Len(FirstRows(g, n)) = n
         /\ \A i \in DOMAIN FirstRows(g, n) : FirstRows(g, n)[i] = <<g, i>>
<1>1. \A i \in 1..n : <<g, i>> \in (1..MaxGen) \X (1..MaxRows)
  BY SearchAssumption
<1>2. QED
  BY <1>1, SearchAssumption DEF FirstRows

\* A request stays good when the store moves on: more rows, the cancel answered,
\* or another search.
LEMMA CallKept ==
  ASSUME NEW r \in Call, NEW g \in Nat, NEW s, NEW b \in BOOLEAN, NEW n \in Nat,
         CallOK(r, g, s, b, n),
         NEW g2 \in Nat, NEW s2, NEW b2 \in BOOLEAN, NEW n2 \in Nat,
         \/ g2 > g
         \/ g2 = g /\ s2 = s /\ (b2 => b) /\ n <= n2
  PROVE  CallOK(r, g2, s2, b2, n2)
  BY SearchAssumption DEF CallOK, Call

\* Changing one request.
LEMMA CallChanged ==
  ASSUME IInv, NEW c \in Calls, NEW r \in Call, calls' = [calls EXCEPT ![c] = r]
  PROVE  /\ calls' \in [Calls -> Call]
         /\ calls'[c] = r
         /\ \A d \in Calls : d # c => calls'[d] = calls[d]
  BY DEF IInv, TypeOK

\* A step that changes only a request, not to a create or status request of the
\* current search, and takes away none of these, keeps the invariant.
LEMMA RequestStep ==
  ASSUME IInv, UNCHANGED store, NEW c \in Calls, NEW r \in Call,
         calls' = [calls EXCEPT ![c] = r],
         CallOK(r, gen, sid, cancelling, Len(shown)),
         \/ r.kind = calls[c].kind /\ r.gen = calls[c].gen
         \/ r.kind = "status" /\ calls[c].kind = "none"
         \/ r.kind = "none" /\ (calls[c].gen # gen \/ calls[c].kind = "none"),
         DOMAIN searches' \subseteq 1..gen,
         \A g \in DOMAIN searches' : searches'[g] \in Search,
         asked' = asked, restarts' \in 0..MaxRestarts
  PROVE  IInv'
<1>1. /\ calls' \in [Calls -> Call]
      /\ calls'[c] = r
      /\ \A d \in Calls : d # c => calls'[d] = calls[d]
  BY CallChanged
<1>2. /\ gen' = gen /\ sid' = sid /\ phase' = phase /\ cancelling' = cancelling
      /\ cursor' = cursor /\ shown' = shown
  BY DEF store
<1>3. TypeOK'
  BY <1>1, <1>2 DEF IInv, TypeOK
<1>4. CallsOK'
  BY <1>1, <1>2 DEF IInv, CallsOK
<1>5. cursor' <= Len(shown') /\ SearchIdCurrent' /\ RowsInServerOrder'
  BY <1>2 DEF IInv, SearchIdCurrent, RowsInServerOrder
<1>6. LiveIsPolled'
  BY <1>1, <1>2 DEF IInv, LiveIsPolled, InFlight, Current
<1>7. OneCreate'
  BY <1>1, <1>2 DEF IInv, OneCreate, InFlight, Current
<1>8. BlankIsAsked'
  BY <1>1, <1>2 DEF IInv, BlankIsAsked, InFlight, Current
<1>9. QED
  BY <1>3, <1>4, <1>5, <1>6, <1>7, <1>8 DEF IInv

\* The record of an answered request.
LEMMA AnswerIs ==
  ASSUME IInv, NEW c \in Calls, NEW ph \in Phases, NEW u \in 0..MaxRows, NEW n \in 0..MaxRows,
         Answer(c, ph, u, n)
  PROVE  \E r \in Call :
           /\ calls' = [calls EXCEPT ![c] = r]
           /\ r.kind = calls[c].kind /\ r.gen = calls[c].gen /\ r.cursor = calls[c].cursor
           /\ r.phase = ph /\ r.upto = u /\ r.next = n
<1> DEFINE r == [calls[c] EXCEPT !.answered = TRUE, !.ok = TRUE, !.phase = ph,
                                 !.upto = u, !.next = n]
<1>1. calls \in [Calls -> Call] /\ calls[c] \in Call
  BY DEF IInv, TypeOK
<1>2. calls' = [calls EXCEPT ![c] = r]
  BY <1>1 DEF Answer
<1>3. r \in Call
  BY <1>1 DEF Call
<1>4. /\ r.kind = calls[c].kind /\ r.gen = calls[c].gen /\ r.cursor = calls[c].cursor
      /\ r.phase = ph /\ r.upto = u /\ r.next = n
  BY <1>1 DEF Call
<1>5. QED
  BY <1>2, <1>3, <1>4

LEMMA NoCallIs == NoCall \in Call /\ NoCall.kind = "none"
  BY SearchAssumption DEF NoCall, Call, Phases

LEMMA RequestIs ==
  ASSUME NEW k \in {"create", "status", "cancel"}, NEW g \in 0..MaxGen, NEW n \in 0..MaxRows
  PROVE  /\ Request(k, g, n) \in Call
         /\ Request(k, g, n).kind = k /\ Request(k, g, n).gen = g
         /\ Request(k, g, n).cursor = n /\ ~Request(k, g, n).answered
<1> DEFINE q1 == [NoCall EXCEPT !.kind = k]
           q2 == [q1 EXCEPT !.gen = g]
           q3 == [q2 EXCEPT !.cursor = n]
<1>1. q1 \in Call /\ q1.kind = k /\ ~q1.answered
  <2>1. ~NoCall.answered
    BY DEF NoCall
  <2>2. QED
    BY <2>1, NoCallIs DEF Call
<1>2. q2 \in Call /\ q2.kind = k /\ q2.gen = g /\ ~q2.answered
  <2> HIDE DEF q1
  <2>1. QED
    BY <1>1 DEF Call
<1>3. q3 \in Call /\ q3.kind = k /\ q3.gen = g /\ q3.cursor = n /\ ~q3.answered
  <2> HIDE DEF q2
  <2>1. QED
    BY <1>2 DEF Call
<1>4. Request(k, g, n) = q3
  BY DEF Request
<1> HIDE DEF q3
<1>5. QED
  BY <1>3, <1>4

LEMMA ServeCreateStep ==
  ASSUME IInv, NEW c \in Calls, ServeCreate(c)
  PROVE  IInv'
<1>1. calls[c] \in Call /\ calls[c].kind = "create" /\ CallOK(calls[c], gen, sid, cancelling, Len(shown))
  BY DEF ServeCreate, Sent, IInv, TypeOK, CallsOK
<1>2. calls[c].gen \in 1..gen
  BY <1>1 DEF CallOK
<1>3. PICK s \in Search :
        /\ searches' = [g \in DOMAIN searches \cup {calls[c].gen} |->
                          IF g = calls[c].gen THEN s ELSE searches[g]]
        /\ Answer(c, SearchPhase(s), 0, 0)
  BY DEF ServeCreate
<1>4. DOMAIN searches' \subseteq 1..gen /\ \A g \in DOMAIN searches' : searches'[g] \in Search
  BY <1>2, <1>3 DEF IInv, TypeOK
<1>5. PICK r \in Call :
        /\ calls' = [calls EXCEPT ![c] = r]
        /\ r.kind = calls[c].kind /\ r.gen = calls[c].gen
  BY <1>3, SearchPhaseIs, AnswerIs, SearchAssumption
<1>6. CallOK(r, gen, sid, cancelling, Len(shown))
  BY <1>1, <1>5 DEF CallOK
<1>7. UNCHANGED <<store, restarts, asked>> /\ restarts' \in 0..MaxRestarts
  BY DEF ServeCreate, IInv, TypeOK
<1>8. QED
  BY <1>4, <1>5, <1>6, <1>7, RequestStep

LEMMA ServeStatusStep ==
  ASSUME IInv, NEW c \in Calls, ServeStatus(c)
  PROVE  IInv'
<1> DEFINE s == searches[calls[c].gen]
           upto == Lesser(calls[c].cursor + PageSize, s.rows)
           next == IF upto < s.rows THEN upto ELSE 0
<1>1. calls[c] \in Call /\ calls[c].kind = "status" /\ CallOK(calls[c], gen, sid, cancelling, Len(shown))
  BY DEF ServeStatus, Sent, IInv, TypeOK, CallsOK
<1>2. s \in Search /\ s.rows \in 0..MaxRows /\ calls[c].cursor \in Nat
  BY <1>1, SearchAssumption, SMTT(60) DEF ServeStatus, IInv, TypeOK, Search, Call
<1>3. Answer(c, SearchPhase(s), upto, next)
  BY DEF ServeStatus
<1>4. /\ upto \in 0..MaxRows /\ next \in 0..MaxRows /\ next <= upto
      /\ s.rows > 0 => upto > 0
  <2> HIDE DEF s
  <2>1. QED
    BY <1>2, SearchAssumption DEF Lesser
<1>5. SearchPhase(s) \in Phases /\ (SearchPhase(s) = "complete" => upto > 0)
  <2> HIDE DEF s
  <2>1. QED
    BY <1>2, <1>4, SearchPhaseIs
<1>6. PICK r \in Call :
        /\ calls' = [calls EXCEPT ![c] = r]
        /\ r.kind = calls[c].kind /\ r.gen = calls[c].gen /\ r.cursor = calls[c].cursor
        /\ r.phase = SearchPhase(s) /\ r.upto = upto /\ r.next = next
  <2> HIDE DEF s, upto, next
  <2>1. QED
    BY <1>3, <1>4, <1>5, AnswerIs
<1>7. CallOK(r, gen, sid, cancelling, Len(shown))
  <2> HIDE DEF s, upto, next
  <2>1. QED
    BY <1>1, <1>4, <1>5, <1>6 DEF CallOK
<1>8. /\ UNCHANGED <<store, server, asked>>
      /\ DOMAIN searches' \subseteq 1..gen /\ \A g \in DOMAIN searches' : searches'[g] \in Search
      /\ restarts' \in 0..MaxRestarts
  BY DEF ServeStatus, server, IInv, TypeOK
<1>9. QED
  BY <1>6, <1>7, <1>8, RequestStep

LEMMA ServeCancelStep ==
  ASSUME IInv, NEW c \in Calls, ServeCancel(c)
  PROVE  IInv'
<1>1. calls[c] \in Call /\ calls[c].kind = "cancel" /\ CallOK(calls[c], gen, sid, cancelling, Len(shown))
  BY DEF ServeCancel, Sent, IInv, TypeOK, CallsOK
<1>2. ASSUME NEW s \in Search
      PROVE  SearchCancelled(s) \in Search
  BY <1>2 DEF SearchCancelled, Search, Statuses
<1>3. /\ searches' = [searches EXCEPT ![calls[c].gen] = SearchCancelled(@)]
      /\ Answer(c, "cancelled", 0, 0)
  BY DEF ServeCancel
<1>4. DOMAIN searches' \subseteq 1..gen /\ \A g \in DOMAIN searches' : searches'[g] \in Search
  BY <1>2, <1>3 DEF IInv, TypeOK
<1>5. PICK r \in Call :
        /\ calls' = [calls EXCEPT ![c] = r]
        /\ r.kind = calls[c].kind /\ r.gen = calls[c].gen
  <2>1. "cancelled" \in Phases /\ 0 \in 0..MaxRows
    BY SearchAssumption DEF Phases
  <2>2. QED
    BY <1>3, <2>1, AnswerIs
<1>6. CallOK(r, gen, sid, cancelling, Len(shown))
  BY <1>1, <1>5 DEF CallOK
<1>7. UNCHANGED <<store, restarts, asked>> /\ restarts' \in 0..MaxRestarts
  BY DEF ServeCancel, IInv, TypeOK
<1>8. QED
  BY <1>4, <1>5, <1>6, <1>7, RequestStep

LEMMA FailStep ==
  ASSUME IInv, NEW c \in Calls, Fail(c)
  PROVE  IInv'
<1> DEFINE r == [calls[c] EXCEPT !.answered = TRUE, !.ok = FALSE]
<1>1. calls \in [Calls -> Call] /\ calls[c] \in Call /\ CallOK(calls[c], gen, sid, cancelling, Len(shown))
  BY DEF IInv, TypeOK, CallsOK
<1>2. calls' = [calls EXCEPT ![c] = r]
  BY <1>1 DEF Fail
<1>3. /\ r \in Call /\ r.kind = calls[c].kind /\ r.gen = calls[c].gen
      /\ r.cursor = calls[c].cursor /\ ~r.ok
  BY <1>1 DEF Call
<1>4. CallOK(r, gen, sid, cancelling, Len(shown))
  BY <1>1, <1>3 DEF CallOK
<1>5. /\ UNCHANGED <<store, server, asked>>
      /\ DOMAIN searches' \subseteq 1..gen /\ \A g \in DOMAIN searches' : searches'[g] \in Search
      /\ restarts' \in 0..MaxRestarts
  BY DEF Fail, server, IInv, TypeOK
<1> HIDE DEF r
<1>6. QED
  BY <1>2, <1>3, <1>4, <1>5, RequestStep

LEMMA DropStep ==
  ASSUME IInv, NEW c \in Calls, ~Current(c), Drop(c)
  PROVE  IInv'
<1>1. calls' = [calls EXCEPT ![c] = NoCall] /\ UNCHANGED <<store, server, asked>>
  BY DEF Drop, Done
<1>2. CallOK(NoCall, gen, sid, cancelling, Len(shown))
  BY NoCallIs DEF CallOK
<1>3. /\ DOMAIN searches' \subseteq 1..gen /\ \A g \in DOMAIN searches' : searches'[g] \in Search
      /\ restarts' \in 0..MaxRestarts
  BY <1>1 DEF server, IInv, TypeOK
<1>4. QED
  BY <1>1, <1>2, <1>3, NoCallIs, RequestStep DEF Current

LEMMA PollStep ==
  ASSUME IInv, NEW c \in Calls, Poll(c)
  PROVE  IInv'
<1> DEFINE r == Request("status", gen, cursor)
<1>1. /\ calls[c].kind = "none" /\ calls' = [calls EXCEPT ![c] = r]
      /\ UNCHANGED <<store, server, asked>>
      /\ sid # 0
  BY DEF Poll, Send, MayPoll
<1>2. sid = gen /\ gen \in 1..gen /\ gen \in 0..MaxGen /\ cursor \in 0..MaxRows /\ cursor <= Len(shown)
  BY <1>1, SearchAssumption DEF IInv, SearchIdCurrent, TypeOK
<1>3. r \in Call /\ r.kind = "status" /\ r.gen = gen /\ r.cursor = cursor /\ ~r.answered
  BY <1>2, RequestIs
<1>4. CallOK(r, gen, sid, cancelling, Len(shown))
  BY <1>2, <1>3 DEF CallOK
<1>5. /\ DOMAIN searches' \subseteq 1..gen /\ \A g \in DOMAIN searches' : searches'[g] \in Search
      /\ restarts' \in 0..MaxRestarts
  BY <1>1 DEF server, IInv, TypeOK
<1> HIDE DEF r
<1>6. QED
  BY <1>1, <1>3, <1>4, <1>5, RequestStep

\* A new search: every request under way belongs to an older one.
LEMMA SubmitStep ==
  ASSUME IInv, NEW c \in Calls, Submit(c)
  PROVE  IInv'
<1> DEFINE r == Request("create", gen + 1, 0)
<1>1. /\ gen' = gen + 1 /\ gen' \in 1..MaxGen /\ gen \in Nat
      /\ sid' = 0 /\ phase' = "queued" /\ cancelling' = FALSE
      /\ cursor' = 0 /\ shown' = <<>>
      /\ calls' = [calls EXCEPT ![c] = r]
      /\ searches' = searches /\ restarts' = restarts /\ asked' = asked
  BY SearchAssumption DEF Submit, Send, server, IInv, TypeOK
<1>2. r \in Call /\ r.kind = "create" /\ r.gen = gen' /\ r.cursor = 0 /\ ~r.answered
  BY <1>1, RequestIs, SearchAssumption
<1>3. /\ calls' \in [Calls -> Call]
      /\ calls'[c] = r
      /\ \A d \in Calls : d # c => calls'[d] = calls[d]
  <2> HIDE DEF r
  <2>1. QED
    BY <1>1, <1>2, CallChanged
<1> HIDE DEF r
<1>4. \A d \in Calls : CallOK(calls[d], gen, sid, cancelling, Len(shown)) /\ calls[d] \in Call
  BY DEF IInv, CallsOK, TypeOK
<1>5. \A d \in Calls : calls[d].kind # "none" => calls[d].gen <= gen
  BY <1>1, <1>4 DEF CallOK
<1>6. TypeOK'
  <2>1. shown' \in Seq((1..MaxGen) \X (1..MaxRows))
    BY <1>1
  <2>2. phase' \in Phases /\ cursor' \in 0..MaxRows /\ sid' \in 0..MaxGen /\ gen' \in 0..MaxGen
    BY <1>1, SearchAssumption DEF Phases, Live
  <2>3. DOMAIN searches' \subseteq 1..gen' /\ asked' \subseteq 1..gen'
    BY <1>1 DEF IInv, TypeOK
  <2>4. QED
    BY <1>1, <1>3, <2>1, <2>2, <2>3 DEF IInv, TypeOK
<1>7. CallsOK'
  <2>1. ASSUME NEW d \in Calls, d # c
        PROVE  CallOK(calls'[d], gen', sid', cancelling', Len(shown'))
    BY <1>1, <1>3, <1>4, <2>1 DEF CallOK
  <2>2. CallOK(calls'[c], gen', sid', cancelling', Len(shown'))
    BY <1>1, <1>2, <1>3 DEF CallOK
  <2>3. QED
    BY <2>1, <2>2 DEF CallsOK
<1>8. cursor' <= Len(shown') /\ SearchIdCurrent' /\ RowsInServerOrder' /\ BlankIsAsked'
  BY <1>1 DEF SearchIdCurrent, RowsInServerOrder, BlankIsAsked
<1>9. LiveIsPolled'
  BY <1>2, <1>3 DEF LiveIsPolled, InFlight, Current
<1>10. OneCreate'
  BY <1>1, <1>3, <1>5 DEF OneCreate, InFlight, Current
<1>11. QED
  BY <1>6, <1>7, <1>8, <1>9, <1>10 DEF IInv

LEMMA SubmitShortStep ==
  ASSUME IInv, SubmitShort
  PROVE  IInv'
<1>1. /\ phase' = "idle"
      /\ UNCHANGED <<gen, sid, cancelling, cursor, shown, calls, searches, restarts, asked>>
  BY DEF SubmitShort, server
<1>2. phase' \in Phases
  BY <1>1 DEF Phases
<1>3. TypeOK'
  BY <1>1, <1>2 DEF IInv, TypeOK
<1>4. CallsOK' /\ SearchIdCurrent' /\ RowsInServerOrder' /\ LiveIsPolled' /\ OneCreate' /\ BlankIsAsked'
  BY <1>1 DEF IInv, CallsOK, SearchIdCurrent, RowsInServerOrder, LiveIsPolled,
              OneCreate, BlankIsAsked, InFlight, Current, Live
<1>5. QED
  BY <1>1, <1>3, <1>4 DEF IInv

LEMMA ServerRestartStep ==
  ASSUME IInv, ServerRestart
  PROVE  IInv'
<1>1. /\ UNCHANGED <<gen, sid, phase, cancelling, cursor, shown, calls, asked>>
      /\ restarts' \in 0..MaxRestarts
      /\ DOMAIN searches' = {}
  BY SearchAssumption DEF ServerRestart, store, IInv, TypeOK
<1>2. TypeOK'
  BY <1>1 DEF IInv, TypeOK
<1>3. CallsOK' /\ SearchIdCurrent' /\ RowsInServerOrder' /\ LiveIsPolled' /\ OneCreate' /\ BlankIsAsked'
  BY <1>1 DEF IInv, CallsOK, SearchIdCurrent, RowsInServerOrder, LiveIsPolled,
              OneCreate, BlankIsAsked, InFlight, Current
<1>4. QED
  BY <1>1, <1>2, <1>3 DEF IInv

\* The page forgets a request and shows the phase that follows from its answer;
\* the current search, its id and its rows stay, unless rows are added.
LEMMA AnsweredStep ==
  ASSUME IInv, NEW c \in Calls, calls' = [calls EXCEPT ![c] = NoCall],
         UNCHANGED <<gen, sid, server, asked>>,
         phase' \in Phases, cursor' \in 0..MaxRows,
         cancelling' \in BOOLEAN, cancelling' => cancelling,
         gen \in 1..MaxGen,
         NEW n \in Len(shown)..MaxRows, shown' = FirstRows(gen, n), cursor' <= n,
         phase' \in Live => sid = gen \/ (phase \in Live /\ calls[c].kind # "create"),
         phase' = "complete" /\ n = 0 => phase = "complete" /\ calls[c].kind # "status"
  PROVE  IInv'
<1>1. /\ calls' \in [Calls -> Call]
      /\ calls'[c] = NoCall /\ NoCall.kind = "none"
      /\ \A d \in Calls : d # c => calls'[d] = calls[d]
  BY CallChanged, NoCallIs
<1>2. gen' = gen /\ sid' = sid /\ searches' = searches /\ restarts' = restarts /\ asked' = asked
  BY DEF server
<1>3. Len(shown) \in 0..MaxRows /\ n \in 0..MaxRows /\ Len(shown) <= n
  BY ShownIs, SearchAssumption
<1>4. /\ shown' \in Seq((1..MaxGen) \X (1..MaxRows))
      /\ Len(shown') = n
      /\ \A i \in DOMAIN shown' : shown'[i] = <<gen, i>>
  BY <1>3, FirstRowsAre
<1>5. TypeOK'
  BY <1>1, <1>2, <1>4 DEF IInv, TypeOK
<1>6. CallsOK'
  <2>1. ASSUME NEW d \in Calls, d # c
        PROVE  CallOK(calls'[d], gen', sid', cancelling', Len(shown'))
    <3>1. CallOK(calls[d], gen, sid, cancelling, Len(shown)) /\ calls[d] \in Call
      BY DEF IInv, CallsOK, TypeOK
    <3>2. gen \in Nat /\ cancelling \in BOOLEAN /\ Len(shown) \in Nat /\ n \in Nat
      BY <1>3, SearchAssumption DEF IInv, TypeOK
    <3>3. CallOK(calls[d], gen, sid, cancelling', n)
      BY <1>3, <3>1, <3>2, CallKept
    <3>4. QED
      BY <1>1, <1>2, <1>4, <2>1, <3>3
  <2>2. CallOK(calls'[c], gen', sid', cancelling', Len(shown'))
    BY <1>1 DEF CallOK
  <2>3. QED
    BY <2>1, <2>2 DEF CallsOK
<1>7. cursor' <= Len(shown') /\ SearchIdCurrent' /\ RowsInServerOrder'
  BY <1>2, <1>4 DEF IInv, SearchIdCurrent, RowsInServerOrder
<1>8. LiveIsPolled'
  BY <1>1, <1>2 DEF IInv, LiveIsPolled, InFlight, Current
<1>9. OneCreate'
  BY <1>1, <1>2 DEF IInv, OneCreate, InFlight, Current
<1>10. BlankIsAsked'
  <2>1. SUFFICES ASSUME phase' = "complete", shown' = <<>>
                 PROVE  \E d \in Calls : calls'[d].kind = "status" /\ calls'[d].gen = gen'
    BY DEF BlankIsAsked, InFlight, Current
  <2>2. n = 0
    BY <1>4, <2>1
  <2>3. phase = "complete" /\ calls[c].kind # "status" /\ shown = <<>>
    BY <1>3, <2>1, <2>2, ShownIs
  <2>4. PICK d \in Calls : calls[d].kind = "status" /\ calls[d].gen = gen
    BY <2>3 DEF IInv, BlankIsAsked, InFlight, Current
  <2>5. QED
    BY <1>1, <1>2, <2>3, <2>4
<1>11. QED
  BY <1>5, <1>6, <1>7, <1>8, <1>9, <1>10 DEF IInv

\* A request under way belongs to a search, so there is one.
LEMMA RequestHasSearch ==
  ASSUME IInv, NEW c \in Calls, calls[c].kind # "none"
  PROVE  /\ gen \in 1..MaxGen /\ calls[c] \in Call
         /\ CallOK(calls[c], gen, sid, cancelling, Len(shown))
         /\ Len(shown) \in 0..MaxRows /\ shown = FirstRows(gen, Len(shown))
         /\ cursor \in 0..MaxRows /\ cancelling \in BOOLEAN /\ phase \in Phases
<1>1. calls[c] \in Call /\ CallOK(calls[c], gen, sid, cancelling, Len(shown))
  BY DEF IInv, CallsOK, TypeOK
<1>2. calls[c].gen \in 1..gen /\ gen \in 0..MaxGen
  BY <1>1 DEF CallOK, IInv, TypeOK
<1>3. gen \in 1..MaxGen
  BY <1>2, SearchAssumption
<1>4. QED
  BY <1>1, <1>3, ShownIs DEF IInv, TypeOK

LEMMA CreateFailedStep ==
  ASSUME IInv, NEW c \in Calls, Answered(c, "create"), CreateFailed(c)
  PROVE  IInv'
<1>1. /\ phase' = "failed" /\ calls' = [calls EXCEPT ![c] = NoCall]
      /\ UNCHANGED <<gen, sid, cancelling, cursor, shown, server, asked>>
  BY DEF CreateFailed, Done
<1>2. phase' \in Phases /\ phase' \notin Live
  BY <1>1 DEF Phases, Live
<1>3. calls[c].kind # "none"
  BY DEF Answered
<1>4. Len(shown) \in Len(shown)..MaxRows /\ cursor' <= Len(shown)
  BY <1>1, <1>3, RequestHasSearch, SearchAssumption DEF IInv
<1>5. QED
  BY <1>1, <1>2, <1>3, <1>4, RequestHasSearch, AnsweredStep

LEMMA PollFailedStep ==
  ASSUME IInv, NEW c \in Calls, Answered(c, "status"), PollFailed(c)
  PROVE  IInv'
<1>1. /\ phase' = "failed" /\ calls' = [calls EXCEPT ![c] = NoCall]
      /\ UNCHANGED <<gen, sid, cancelling, cursor, shown, server, asked>>
  BY DEF PollFailed, Done
<1>2. phase' \in Phases /\ phase' \notin Live
  BY <1>1 DEF Phases, Live
<1>3. calls[c].kind # "none"
  BY DEF Answered
<1>4. Len(shown) \in Len(shown)..MaxRows /\ cursor' <= Len(shown)
  BY <1>1, <1>3, RequestHasSearch, SearchAssumption, SMTT(60) DEF IInv
<1>5. QED
  BY <1>1, <1>2, <1>3, <1>4, RequestHasSearch, AnsweredStep

\* The answer to a cancel is applied to whatever search is current by now.
LEMMA CancelReplyStep ==
  ASSUME IInv, NEW c \in Calls, CancelReply(c)
  PROVE  IInv'
<1>1. /\ phase' = IF calls[c].ok THEN "cancelled" ELSE phase
      /\ calls' = [calls EXCEPT ![c] = NoCall] /\ cancelling' = FALSE
      /\ UNCHANGED <<gen, sid, cursor, shown, server, asked>>
      /\ calls[c].kind = "cancel"
  BY DEF CancelReply, Done, Answered
<1>2. phase' \in Phases /\ (phase' = "cancelled" \/ phase' = phase) /\ "cancelled" \notin Live
  BY <1>1 DEF Phases, Live, IInv, TypeOK
<1>3. Len(shown) \in Len(shown)..MaxRows /\ cursor' <= Len(shown)
  BY <1>1, RequestHasSearch, SearchAssumption DEF IInv
<1>4. phase' \in Live => phase \in Live
  BY <1>2
<1>5. cancelling' \in BOOLEAN /\ (cancelling' => cancelling)
  BY <1>1
<1>6. phase' = "complete" => phase = "complete"
  BY <1>2
<1>7. calls[c].kind # "none" /\ calls[c].kind # "create" /\ calls[c].kind # "status"
  BY <1>1
<1>8. gen \in 1..MaxGen /\ shown' = FirstRows(gen, Len(shown)) /\ cursor' \in 0..MaxRows
  BY <1>1, <1>7, RequestHasSearch
<1>9. QED
  BY <1>1, <1>2, <1>3, <1>4, <1>5, <1>6, <1>7, <1>8, AnsweredStep, ZenonT(60)

\* The page of a status answer extends the rows shown.
LEMMA PollOkStep ==
  ASSUME IInv, NEW c \in Calls, Answered(c, "status"), Current(c), PollOk(c)
  PROVE  IInv'
<1> DEFINE n == IF calls[c].upto > Len(shown) THEN calls[c].upto ELSE Len(shown)
<1>1. /\ calls[c].kind = "status" /\ calls[c].answered /\ calls[c].ok /\ calls[c].gen = gen
      /\ phase' = calls[c].phase /\ shown' = Merged(shown, Page(c))
      /\ cursor' = calls[c].next /\ calls' = [calls EXCEPT ![c] = NoCall]
      /\ UNCHANGED <<gen, sid, cancelling, server, asked>>
  BY DEF Answered, Current, PollOk, Done
<1>2. /\ gen \in 1..MaxGen /\ calls[c] \in Call
      /\ CallOK(calls[c], gen, sid, cancelling, Len(shown))
      /\ Len(shown) \in 0..MaxRows /\ shown = FirstRows(gen, Len(shown))
      /\ cancelling \in BOOLEAN
  BY <1>1, RequestHasSearch
<1>3. /\ sid = gen /\ calls[c].cursor <= Len(shown)
      /\ calls[c].next <= calls[c].upto
      /\ calls[c].phase = "complete" => calls[c].upto > 0
  BY <1>1, <1>2 DEF CallOK
<1>4. /\ calls[c].cursor \in 0..Len(shown) /\ calls[c].upto \in 0..MaxRows
      /\ calls[c].next \in 0..MaxRows /\ calls[c].phase \in Phases
  BY <1>2, <1>3, SearchAssumption DEF Call
<1>5. shown' = FirstRows(gen, n)
  <2>1. Page(c) = [i \in 1..(calls[c].upto - calls[c].cursor) |-> <<gen, calls[c].cursor + i>>]
    BY <1>1 DEF Page
  <2>2. Merged(FirstRows(gen, Len(shown)), Page(c)) = FirstRows(gen, n)
    <3>1. Len(shown) \in Nat /\ calls[c].cursor \in 0..Len(shown) /\ calls[c].upto \in Nat
      BY <1>2, <1>4, SearchAssumption
    <3> DEFINE m == Len(shown)
               cur == calls[c].cursor
               upto == calls[c].upto
    <3>2. m \in Nat /\ cur \in 0..m /\ upto \in Nat
      BY <3>1
    <3>3. Page(c) = [i \in 1..(upto - cur) |-> <<gen, cur + i>>]
      BY <2>1
    <3>4. n = IF upto > m THEN upto ELSE m
      OBVIOUS
    <3> HIDE DEF m, cur, upto, n
    <3>5. Merged(FirstRows(gen, m), [i \in 1..(upto - cur) |-> <<gen, cur + i>>])
            = FirstRows(gen, IF upto > m THEN upto ELSE m)
      BY <3>2, MergedExtends
    <3>6. Merged(FirstRows(gen, m), Page(c)) = FirstRows(gen, n)
      BY <3>3, <3>4, <3>5
    <3>7. QED
      BY <3>6 DEF m
  <2>3. QED
    BY <1>1, <1>2, <2>2
<1>6. /\ n \in Len(shown)..MaxRows /\ calls[c].next <= n
      /\ calls[c].phase = "complete" => n # 0
  BY <1>2, <1>3, <1>4, SearchAssumption
<1> HIDE DEF n
<1>7. QED
  BY <1>1, <1>2, <1>3, <1>4, <1>5, <1>6, AnsweredStep

\* The search is accepted; unless it was asked for the first page at once, it
\* was cancelled.
LEMMA CreateOkStep ==
  ASSUME IInv, NEW c \in Calls, Answered(c, "create"), Current(c), CreateOk(c)
  PROVE  IInv'
<1>1. /\ calls[c].kind = "create" /\ calls[c].gen = gen
      /\ sid' = gen /\ phase' = calls[c].phase
      /\ UNCHANGED <<gen, cancelling, cursor, shown, searches, restarts, asked>>
  BY DEF Answered, Current, CreateOk, server
<1>2. /\ gen \in 1..MaxGen /\ calls[c] \in Call
      /\ CallOK(calls[c], gen, sid, cancelling, Len(shown))
      /\ Len(shown) \in 0..MaxRows /\ cursor \in 0..MaxRows
  BY <1>1, RequestHasSearch
<1>3. sid = 0 /\ ~cancelling /\ cursor <= Len(shown) /\ calls[c].phase \in Phases
  BY <1>1, <1>2 DEF CallOK, Call, IInv
<1>4. PICK r \in Call :
        /\ calls' = [calls EXCEPT ![c] = r]
        /\ \/ r.kind = "none" /\ phase' = "cancelled"
           \/ r.kind = "status" /\ r.gen = gen /\ r.cursor = cursor /\ ~r.answered
  <2>1. CASE MayPoll(sid', phase', cancelling)
    <3>1. calls' = [calls EXCEPT ![c] = Request("status", gen, cursor)]
      BY <2>1 DEF CreateOk
    <3>2. gen \in 0..MaxGen
      BY <1>2, SearchAssumption
    <3> DEFINE q == Request("status", gen, cursor)
    <3>3. q \in Call /\ q.kind = "status" /\ q.gen = gen /\ q.cursor = cursor /\ ~q.answered
      BY <1>2, <3>2, RequestIs
    <3> HIDE DEF q
    <3>4. QED
      BY <3>1, <3>3 DEF q
  <2>2. CASE ~MayPoll(sid', phase', cancelling)
    <3>1. calls' = [calls EXCEPT ![c] = NoCall]
      BY <2>2 DEF CreateOk, Done
    <3>2. phase' = "cancelled"
      BY <1>1, <1>2, <1>3, <2>2 DEF MayPoll
    <3>3. QED
      BY <3>1, <3>2, NoCallIs
  <2>3. QED
    BY <2>1, <2>2
<1>5. /\ calls' \in [Calls -> Call]
      /\ calls'[c] = r
      /\ \A d \in Calls : d # c => calls'[d] = calls[d]
  BY <1>4, CallChanged
<1>6. TypeOK'
  BY <1>1, <1>2, <1>3, <1>5 DEF IInv, TypeOK
<1>7. CallsOK'
  <2>1. ASSUME NEW d \in Calls, d # c
        PROVE  CallOK(calls'[d], gen', sid', cancelling', Len(shown'))
    <3>1. CallOK(calls[d], gen, sid, cancelling, Len(shown))
      BY DEF IInv, CallsOK
    <3>2. ~(calls[d].kind = "create" /\ calls[d].gen = gen)
      BY <1>1, <2>1 DEF IInv, OneCreate, InFlight, Current
    <3>3. ~(calls[d].kind = "status" /\ calls[d].gen = gen)
      BY <1>2, <1>3, <3>1 DEF CallOK
    <3>4. QED
      BY <1>1, <1>5, <2>1, <3>1, <3>2, <3>3 DEF CallOK
  <2>2. CallOK(calls'[c], gen', sid', cancelling', Len(shown'))
    BY <1>1, <1>2, <1>3, <1>4, <1>5 DEF CallOK
  <2>3. QED
    BY <2>1, <2>2 DEF CallsOK
<1>8. cursor' <= Len(shown') /\ SearchIdCurrent' /\ RowsInServerOrder' /\ LiveIsPolled'
  BY <1>1, <1>3 DEF IInv, SearchIdCurrent, RowsInServerOrder, LiveIsPolled
<1>9. OneCreate'
  BY <1>1, <1>4, <1>5 DEF IInv, OneCreate, InFlight, Current
<1>10. BlankIsAsked'
  BY <1>1, <1>4, <1>5 DEF BlankIsAsked, InFlight, Current
<1>11. QED
  BY <1>6, <1>7, <1>8, <1>9, <1>10 DEF IInv

LEMMA CancelStep ==
  ASSUME IInv, NEW c \in Calls, Cancel(c)
  PROVE  IInv'
<1> DEFINE r == Request("cancel", sid, 0)
<1>1. /\ calls[c].kind = "none" /\ calls' = [calls EXCEPT ![c] = r]
      /\ cancelling' = TRUE /\ asked' = asked \cup {gen}
      /\ UNCHANGED <<gen, sid, phase, cursor, shown, searches, restarts>>
      /\ sid # 0
  BY DEF Cancel, Send, server
<1>2. sid = gen /\ gen \in 1..gen /\ gen \in 0..MaxGen
  BY <1>1, SearchAssumption DEF IInv, SearchIdCurrent, TypeOK
<1>3. r \in Call /\ r.kind = "cancel" /\ r.gen = gen /\ ~r.answered
  BY <1>2, RequestIs, SearchAssumption
<1> HIDE DEF r
<1>4. /\ calls' \in [Calls -> Call]
      /\ calls'[c] = r
      /\ \A d \in Calls : d # c => calls'[d] = calls[d]
  BY <1>1, <1>3, CallChanged
<1>5. TypeOK'
  BY <1>1, <1>2, <1>4 DEF IInv, TypeOK
<1>6. CallsOK'
  <2>1. ASSUME NEW d \in Calls, d # c
        PROVE  CallOK(calls'[d], gen', sid', cancelling', Len(shown'))
    <3>1. CallOK(calls[d], gen, sid, cancelling, Len(shown))
      BY DEF IInv, CallsOK
    <3>2. QED
      BY <1>1, <1>4, <2>1, <3>1 DEF CallOK
  <2>2. CallOK(calls'[c], gen', sid', cancelling', Len(shown'))
    BY <1>1, <1>2, <1>3, <1>4 DEF CallOK
  <2>3. QED
    BY <2>1, <2>2 DEF CallsOK
<1>7. cursor' <= Len(shown') /\ SearchIdCurrent' /\ RowsInServerOrder'
  BY <1>1 DEF IInv, SearchIdCurrent, RowsInServerOrder
<1>8. LiveIsPolled' /\ OneCreate' /\ BlankIsAsked'
  BY <1>1, <1>2, <1>3, <1>4 DEF IInv, LiveIsPolled, OneCreate, BlankIsAsked, InFlight, Current
<1>9. QED
  BY <1>5, <1>6, <1>7, <1>8 DEF IInv

-----------------------------------------------------------------------------
LEMMA InitIInv ==
  ASSUME Init
  PROVE  IInv
<1>1. /\ gen = 0 /\ sid = 0 /\ phase = "idle" /\ cancelling = FALSE
      /\ cursor = 0 /\ shown = <<>> /\ restarts = 0 /\ asked = {} /\ DOMAIN searches = {}
      /\ calls = [c \in Calls |-> NoCall]
  BY DEF Init
<1>2. calls \in [Calls -> Call] /\ \A c \in Calls : calls[c].kind = "none"
  BY <1>1, NoCallIs
<1>3. phase \in Phases /\ phase \notin Live
  BY <1>1 DEF Phases, Live
<1>4. TypeOK
  <2>1. gen \in 0..MaxGen /\ sid \in 0..MaxGen /\ cursor \in 0..MaxRows /\ restarts \in 0..MaxRestarts
    BY <1>1, SearchAssumption
  <2>2. shown \in Seq((1..MaxGen) \X (1..MaxRows))
    <3>1. <<>> \in Seq((1..MaxGen) \X (1..MaxRows))
      OBVIOUS
    <3>2. QED
      BY <1>1, <3>1
  <2>3. cancelling \in BOOLEAN
    BY <1>1
  <2>4. QED
    BY <1>1, <1>2, <1>3, <2>1, <2>2, <2>3 DEF TypeOK
<1>5. CallsOK
  BY <1>2 DEF CallsOK, CallOK
<1>6. SearchIdCurrent /\ RowsInServerOrder /\ LiveIsPolled /\ OneCreate /\ BlankIsAsked
  BY <1>1, <1>2, <1>3 DEF SearchIdCurrent, RowsInServerOrder, LiveIsPolled,
                          OneCreate, BlankIsAsked, InFlight
<1>7. QED
  BY <1>1, <1>4, <1>5, <1>6 DEF IInv

LEMMA ResumeStep ==
  ASSUME IInv, NEW c \in Calls, Resume(c)
  PROVE  IInv'
  BY CreateFailedStep, CreateOkStep, PollFailedStep, PollOkStep, CancelReplyStep, DropStep
  DEF Resume, CreateReply, PollReply

LEMMA NextIInv ==
  ASSUME IInv, [Next]_vars
  PROVE  IInv'
<1>1. CASE \E c \in Calls : Submit(c) \/ Poll(c) \/ Cancel(c)
  BY <1>1, SubmitStep, PollStep, CancelStep
<1>2. CASE \E c \in Calls : Serve(c) \/ Fail(c)
  BY <1>2, ServeCreateStep, ServeStatusStep, ServeCancelStep, FailStep DEF Serve
<1>3. CASE \E c \in Calls : Resume(c)
  BY <1>3, ResumeStep
<1>4. CASE SubmitShort
  BY <1>4, SubmitShortStep
<1>5. CASE ServerRestart
  BY <1>5, ServerRestartStep
<1>6. CASE UNCHANGED vars
  BY <1>6 DEF vars, store, server, IInv, TypeOK, CallsOK, SearchIdCurrent, RowsInServerOrder,
              LiveIsPolled, OneCreate, BlankIsAsked, InFlight, Current
<1>7. QED
  BY <1>1, <1>2, <1>3, <1>4, <1>5, <1>6 DEF Next

\* IInv holds in every reachable state.
THEOREM SearchInvariance == Spec => []IInv
<1>1. Init => IInv
  BY InitIInv
<1>2. IInv /\ [Next]_vars => IInv'
  BY NextIInv
<1>3. QED
  BY <1>1, <1>2, PTL DEF Spec

\* Every variable keeps its type; the rows are rows of searches that were made.
THEOREM SearchTypeCorrect == Spec => []TypeOK
<1>1. IInv => TypeOK
  BY DEF IInv
<1>2. QED
  BY <1>1, SearchInvariance, PTL

\* Whatever answers arrive late, twice or out of order, the page polls the
\* search it shows, lists its first rows in the server's order, each once, says
\* "searching" only with something to ask about, and is not blank when complete.
THEOREM PageStaysCurrent == Spec => []PageIsCurrent
<1>1. IInv => CompleteShowsRows
  BY DEF IInv, BlankIsAsked, CompleteShowsRows, Quiet, InFlight
<1>2. IInv => PageIsCurrent
  BY <1>1 DEF IInv, PageIsCurrent
<1>3. QED
  BY <1>2, SearchInvariance, PTL

-----------------------------------------------------------------------------
(***************************************************************************)
(* DvrSession, for every budget, cap, size of screenshots and number of    *)
(* sessions, events, transactions and failures.  The argument: DvrInv is   *)
(* inductive.                                                              *)
(*   - What is stored or on its way is charged for (ChargesOK), so the     *)
(*     bytes stored stay within the budget however captures overlap; this  *)
(*     needs what a sum over a finite set is, which comes first.           *)
(*   - Ring and timeline are runs of consecutive numbers that end with the *)
(*     last entry, and the timeline is cut only when it is longer than the *)
(*     ring can be (ListsAligned).                                         *)
(*   - Metas only grow and their writes run in the order they were issued  *)
(*     in, so that none goes back (MetasInOrder).                          *)
(*   - A key is used once, so that no write or drop meets a stored         *)
(*     screenshot (KeysUsedOnce).                                          *)
(***************************************************************************)

(***************************************************************************)
(* The sum of the sizes of a set of screenshots.  The library's sum is a   *)
(* fold along an arbitrary order; here it is shown to be one number, which *)
(* a screenshot's removal makes smaller by that screenshot's size.  Each   *)
(* induction looks at a smallest set for which the claim fails.            *)
(***************************************************************************)
\* Among subsets of a finite set one is smallest.
LEMMA SmallestSet ==
  ASSUME NEW S, IsFiniteSet(S), NEW Bad \in SUBSET SUBSET S, Bad # {}
  PROVE  \E m \in Bad : \A t \in Bad : t \subseteq m => t = m
<1>1. FiniteSubsetsOf(S) = SUBSET S
  BY FS_FiniteSubsetsOfFinite
<1>2. IsWellFoundedOn(StrictSubsetOrdering(S), SUBSET S)
  BY <1>1, FS_StrictSubsetOrderingWellFounded
<1>3. \E m \in Bad : \A t \in Bad : ~(<<t, m>> \in StrictSubsetOrdering(S))
  BY <1>2, WFMin
<1>4. PICK m \in Bad : \A t \in Bad : ~(<<t, m>> \in StrictSubsetOrdering(S))
  BY <1>3
<1>5. \A t \in Bad : t \subseteq m => t = m
  BY <1>4 DEF StrictSubsetOrdering
<1>6. QED
  BY <1>5

\* The screenshot the fold adds first.
FirstAdded(shotSet) == CHOOSE p \in shotSet : TRUE

\* g computes the sum for S and all its subsets.
Sums(g, S) == g = [t \in SUBSET S |-> IF t = {} THEN 0 ELSE FirstAdded(t)[3] + g[t \ {FirstAdded(t)}]]

Val(S) == (CHOOSE g : Sums(g, S))[S]

LEMMA BytesIsVal ==
  ASSUME NEW S
  PROVE  Bytes(S) = Val(S)
  BY Zenon DEF Bytes, Val, Sums, FirstAdded, MapThenSumSet, MapThenFoldSet

LEMMA FirstAddedIn ==
  ASSUME NEW S, S # {}
  PROVE  FirstAdded(S) \in S
  BY DEF FirstAdded

LEMMA SumsUnique ==
  ASSUME NEW S, NEW U, NEW T, IsFiniteSet(T), T \subseteq S, T \subseteq U,
         NEW g, NEW h, Sums(g, S), Sums(h, U)
  PROVE  g[T] = h[T]
<1> DEFINE Bad == {t \in SUBSET T : g[t] # h[t]}
<1>1. SUFFICES ASSUME Bad # {} PROVE FALSE
  OBVIOUS
<1>2. PICK m \in Bad : \A t \in Bad : t \subseteq m => t = m
  <2>1. Bad \in SUBSET SUBSET T
    OBVIOUS
  <2> HIDE DEF Bad
  <2>2. QED
    BY <1>1, <2>1, SmallestSet
<1>3. m \subseteq S /\ m \subseteq U /\ g[m] # h[m]
  BY <1>2
<1>4. /\ g[m] = IF m = {} THEN 0 ELSE FirstAdded(m)[3] + g[m \ {FirstAdded(m)}]
      /\ h[m] = IF m = {} THEN 0 ELSE FirstAdded(m)[3] + h[m \ {FirstAdded(m)}]
  BY <1>3 DEF Sums
<1>5. m # {}
  BY <1>3, <1>4
<1>6. m \ {FirstAdded(m)} # m
  BY <1>5, FirstAddedIn
<1>7. m \ {FirstAdded(m)} \notin Bad
  BY <1>2, <1>6
<1>8. g[m \ {FirstAdded(m)}] = h[m \ {FirstAdded(m)}]
  BY <1>2, <1>7
<1>9. QED
  BY <1>3, <1>4, <1>8

LEMMA ValEquation ==
  ASSUME NEW S, IsFiniteSet(S), NEW g, Sums(g, S)
  PROVE  /\ Val(S) = g[S]
         /\ Sums(CHOOSE f : Sums(f, S), S)
<1>1. Sums(CHOOSE f : Sums(f, S), S)
  OBVIOUS
<1>2. QED
  BY <1>1, SumsUnique DEF Val

LEMMA SumsExist ==
  ASSUME NEW S, IsFiniteSet(S)
  PROVE  \E g : Sums(g, S)
<1> DEFINE Bad == {t \in SUBSET S : ~\E g : Sums(g, t)}
<1>1. SUFFICES ASSUME Bad # {} PROVE FALSE
  OBVIOUS
<1>2. PICK m \in Bad : \A t \in Bad : t \subseteq m => t = m
  <2>1. Bad \in SUBSET SUBSET S
    OBVIOUS
  <2> HIDE DEF Bad
  <2>2. QED
    BY <1>1, <2>1, SmallestSet
<1>3. \A t \in SUBSET m : t # m => \E g : Sums(g, t)
  BY <1>2
<1>4. \A t \in SUBSET m : IsFiniteSet(t)
  BY FS_Subset, <1>2
<1> DEFINE H == [t \in SUBSET m |-> IF t = {} THEN 0 ELSE FirstAdded(t)[3] + Val(t \ {FirstAdded(t)})]
<1>5. ASSUME NEW t \in SUBSET m, t # {}
      PROVE  H[t \ {FirstAdded(t)}] = Val(t \ {FirstAdded(t)})
  <2> DEFINE u == t \ {FirstAdded(t)}
  <2>1. u \in SUBSET m /\ u # m /\ IsFiniteSet(u)
    BY <1>4, <1>5, FirstAddedIn
  <2>2. PICK g : Sums(g, u)
    BY <1>3, <2>1
  <2>3. Val(u) = g[u]
    BY <2>1, <2>2, ValEquation
  <2>4. g[u] = IF u = {} THEN 0 ELSE FirstAdded(u)[3] + g[u \ {FirstAdded(u)}]
    BY <2>2 DEF Sums
  <2>5. CASE u = {}
    BY <2>1, <2>3, <2>4, <2>5
  <2>6. CASE u # {}
    <3> DEFINE w == u \ {FirstAdded(u)}
    <3>1. w \in SUBSET m /\ w # m /\ IsFiniteSet(w) /\ w \subseteq u
      BY <1>4, <2>1, <2>6, FirstAddedIn
    <3>2. PICK f : Sums(f, w)
      BY <1>3, <3>1
    <3>3. g[w] = f[w] /\ Val(w) = f[w]
      <4>1. g[w] = f[w]
        <5>1. w \subseteq u /\ w \subseteq w /\ IsFiniteSet(w) /\ Sums(g, u) /\ Sums(f, w)
          BY <3>1, <3>2, <2>2
        <5> HIDE DEF u, w
        <5>2. QED
          BY <5>1, SumsUnique
      <4>2. Val(w) = f[w]
        BY <3>1, <3>2, ValEquation
      <4>3. QED
        BY <4>1, <4>2
    <3>4. H[u] = FirstAdded(u)[3] + Val(w)
      BY <2>1, <2>6
    <3>5. QED
      BY <2>3, <2>4, <2>6, <3>3, <3>4
  <2>7. QED
    BY <2>5, <2>6
<1>6. \A t \in SUBSET m : H[t] = IF t = {} THEN 0 ELSE FirstAdded(t)[3] + H[t \ {FirstAdded(t)}]
  BY <1>5
<1>7. Sums(H, m)
  <2>1. H = [t \in SUBSET m |-> H[t]]
    OBVIOUS
  <2>2. [t \in SUBSET m |-> H[t]] = [t \in SUBSET m |-> IF t = {} THEN 0 ELSE FirstAdded(t)[3] + H[t \ {FirstAdded(t)}]]
    BY <1>6
  <2> HIDE DEF H
  <2>3. QED
    BY <2>1, <2>2 DEF Sums
<1>8. QED
  BY <1>2, <1>7

LEMMA BytesStep ==
  ASSUME NEW S, IsFiniteSet(S)
  PROVE  Bytes(S) = IF S = {} THEN 0 ELSE FirstAdded(S)[3] + Bytes(S \ {FirstAdded(S)})
<1>1. PICK g : Sums(g, S)
  BY SumsExist
<1>2. Bytes(S) = g[S]
  BY <1>1, BytesIsVal, ValEquation
<1>3. g[S] = IF S = {} THEN 0 ELSE FirstAdded(S)[3] + g[S \ {FirstAdded(S)}]
  BY <1>1 DEF Sums
<1>4. CASE S = {}
  BY <1>2, <1>3, <1>4
<1>5. CASE S # {}
  <2> DEFINE u == S \ {FirstAdded(S)}
  <2>1. IsFiniteSet(u) /\ u \subseteq S
    BY FS_Subset
  <2>2. PICK h : Sums(h, u)
    BY <2>1, SumsExist
  <2>3. Bytes(u) = h[u] /\ g[u] = h[u]
    BY <1>1, <2>1, <2>2, BytesIsVal, ValEquation, SumsUnique
  <2>4. QED
    BY <1>2, <1>3, <1>5, <2>3
<1>6. QED
  BY <1>4, <1>5

\* The sum is a number.
LEMMA BytesType ==
  ASSUME NEW S, IsFiniteSet(S), \A p \in S : p[3] \in Nat
  PROVE  Bytes(S) \in Nat
<1> DEFINE Bad == {t \in SUBSET S : Bytes(t) \notin Nat}
<1>1. SUFFICES ASSUME Bad # {} PROVE FALSE
  OBVIOUS
<1>2. PICK m \in Bad : \A t \in Bad : t \subseteq m => t = m
  <2>1. Bad \in SUBSET SUBSET S
    OBVIOUS
  <2> HIDE DEF Bad
  <2>2. QED
    BY <1>1, <2>1, SmallestSet
<1>3. IsFiniteSet(m) /\ m \subseteq S
  BY <1>2, FS_Subset
<1>4. Bytes(m) = IF m = {} THEN 0 ELSE FirstAdded(m)[3] + Bytes(m \ {FirstAdded(m)})
  BY <1>3, BytesStep
<1>5. m # {}
  BY <1>2, <1>4
<1>6. FirstAdded(m) \in m /\ m \ {FirstAdded(m)} # m
  BY <1>5, FirstAddedIn
<1>7. Bytes(m \ {FirstAdded(m)}) \in Nat
  BY <1>2, <1>6
<1>8. QED
  BY <1>2, <1>3, <1>4, <1>5, <1>6, <1>7

\* Any element can be taken out first.
LEMMA BytesWithout ==
  ASSUME NEW S, IsFiniteSet(S), \A p \in S : p[3] \in Nat, NEW x \in S
  PROVE  Bytes(S) = x[3] + Bytes(S \ {x})
<1> DEFINE Bad == {t \in SUBSET S : \E y \in t : Bytes(t) # y[3] + Bytes(t \ {y})}
<1>1. SUFFICES ASSUME Bad # {} PROVE FALSE
  OBVIOUS
<1>2. PICK m \in Bad : \A t \in Bad : t \subseteq m => t = m
  <2>1. Bad \in SUBSET SUBSET S
    OBVIOUS
  <2> HIDE DEF Bad
  <2>2. QED
    BY <1>1, <2>1, SmallestSet
<1>3. PICK y \in m : Bytes(m) # y[3] + Bytes(m \ {y})
  BY <1>2
<1> DEFINE c == FirstAdded(m)
<1>4. \A t \in SUBSET m : IsFiniteSet(t) /\ Bytes(t) \in Nat
  BY <1>2, FS_Subset, BytesType
<1>5. c \in m /\ Bytes(m) = c[3] + Bytes(m \ {c})
  BY <1>3, <1>4, BytesStep, FirstAddedIn
<1>6. y # c
  BY <1>3, <1>5
<1>7. m \ {c} \notin Bad /\ m \ {y} \notin Bad
  BY <1>2, <1>3, <1>5
<1>8. Bytes(m \ {c}) = y[3] + Bytes((m \ {c}) \ {y})
  BY <1>2, <1>3, <1>6, <1>7
<1>9. Bytes(m \ {y}) = c[3] + Bytes((m \ {y}) \ {c})
  BY <1>2, <1>5, <1>6, <1>7
<1>10. (m \ {c}) \ {y} = (m \ {y}) \ {c}
  OBVIOUS
<1>11. y[3] \in Nat /\ c[3] \in Nat /\ Bytes((m \ {c}) \ {y}) \in Nat
  BY <1>2, <1>3, <1>4, <1>5
<1> HIDE DEF c
<1>12. QED
  BY <1>3, <1>5, <1>8, <1>9, <1>10, <1>11

\* A part takes up no more than the whole.
LEMMA BytesOfMore ==
  ASSUME NEW S, IsFiniteSet(S), \A p \in S : p[3] \in Nat, NEW T, T \subseteq S
  PROVE  Bytes(T) <= Bytes(S)
<1> DEFINE Bad == {t \in SUBSET S : T \subseteq t /\ ~(Bytes(T) <= Bytes(t))}
<1>1. SUFFICES ASSUME Bad # {} PROVE FALSE
  OBVIOUS
<1>2. PICK m \in Bad : \A t \in Bad : t \subseteq m => t = m
  <2>1. Bad \in SUBSET SUBSET S
    OBVIOUS
  <2> HIDE DEF Bad
  <2>2. QED
    BY <1>1, <2>1, SmallestSet
<1>3. \A t \in SUBSET S : IsFiniteSet(t) /\ Bytes(t) \in Nat
  BY FS_Subset, BytesType
<1>4. m # T
  BY <1>2, <1>3
<1>5. PICK y \in m : y \notin T
  BY <1>2, <1>4
<1>6. Bytes(m) = y[3] + Bytes(m \ {y})
  BY <1>2, <1>3, <1>5, BytesWithout
<1>7. m \ {y} \notin Bad
  BY <1>2, <1>5
<1>8. Bytes(T) <= Bytes(m \ {y})
  BY <1>2, <1>5, <1>7
<1>9. Bytes(T) \in Nat /\ Bytes(m \ {y}) \in Nat /\ y[3] \in Nat
  BY <1>2, <1>3, <1>5
<1>10. QED
  BY <1>2, <1>6, <1>8, <1>9

-----------------------------------------------------------------------------
(***************************************************************************)
(* The transactions under way.  Each step keeps some of them, in their     *)
(* order, and adds others behind them.                                     *)
(***************************************************************************)
\* The first n transactions after the step are those of before at positions pos.
Carried(n, pos) ==
  /\ n \in Nat /\ n <= Len(txs')
  /\ pos \in [1..n -> DOMAIN txs]
  /\ \A k, l \in 1..n : k < l => pos[k] < pos[l]
  /\ \A k \in 1..n : txs'[k] = txs[pos[k]]

\* The positions of those that the step has added.
Added(n) == {k \in DOMAIN txs' : k > n}

LEMMA CarriedOrAdded ==
  ASSUME NEW n, NEW pos, Carried(n, pos), txs' \in Seq(Txs), NEW k \in DOMAIN txs'
  PROVE  \/ k \in 1..n /\ pos[k] \in DOMAIN txs /\ txs'[k] = txs[pos[k]]
         \/ k \in Added(n)
<1>1. k \in 1..Len(txs') /\ Len(txs') \in Nat
  OBVIOUS
<1>2. QED
  BY <1>1 DEF Carried, Added

LEMMA AllCarried ==
  ASSUME txs \in Seq(Txs), NEW further \in Seq(Txs), txs' = txs \o further
  PROVE  /\ txs' \in Seq(Txs)
         /\ Carried(Len(txs), [k \in 1..Len(txs) |-> k])
         /\ \A k \in Added(Len(txs)) : k - Len(txs) \in DOMAIN further /\ txs'[k] = further[k - Len(txs)]
<1>1. /\ txs' \in Seq(Txs) /\ Len(txs') = Len(txs) + Len(further)
      /\ Len(txs) \in Nat /\ Len(further) \in Nat
      /\ DOMAIN txs = 1..Len(txs) /\ DOMAIN further = 1..Len(further) /\ DOMAIN txs' = 1..Len(txs')
  OBVIOUS
<1>2. \A k \in 1..Len(txs') : txs'[k] = IF k <= Len(txs) THEN txs[k] ELSE further[k - Len(txs)]
  BY <1>1
<1>3. Carried(Len(txs), [k \in 1..Len(txs) |-> k])
  BY <1>1, <1>2 DEF Carried
<1>4. \A k \in Added(Len(txs)) : k - Len(txs) \in DOMAIN further /\ txs'[k] = further[k - Len(txs)]
  BY <1>1, <1>2 DEF Added
<1>5. QED
  BY <1>1, <1>3, <1>4

LEMMA Removed ==
  ASSUME NEW S, NEW q \in Seq(S), NEW i \in DOMAIN q
  PROVE  /\ RemoveAt(q, i) \in Seq(S)
         /\ Len(RemoveAt(q, i)) = Len(q) - 1
         /\ \A k \in 1..(Len(q) - 1) : RemoveAt(q, i)[k] = q[IF k < i THEN k ELSE k + 1]
<1>1. i \in 1..Len(q) /\ Len(q) \in Nat
  OBVIOUS
<1> DEFINE a == SubSeq(q, 1, i - 1)
           b == SubSeq(q, i + 1, Len(q))
<1>2. a \in Seq(S) /\ Len(a) = i - 1 /\ \A k \in 1..(i - 1) : a[k] = q[k]
  BY <1>1
<1>3. b \in Seq(S) /\ Len(b) = Len(q) - i /\ \A k \in 1..(Len(q) - i) : b[k] = q[i + k]
  BY <1>1
<1>4. RemoveAt(q, i) = a \o b
  BY DEF RemoveAt
<1> HIDE DEF a, b
<1>5. /\ a \o b \in Seq(S) /\ Len(a \o b) = Len(q) - 1
      /\ \A k \in 1..(Len(q) - 1) : (a \o b)[k] = IF k <= i - 1 THEN a[k] ELSE b[k - (i - 1)]
  BY <1>1, <1>2, <1>3, SMTT(60)
<1>6. \A k \in 1..(Len(q) - 1) : (a \o b)[k] = q[IF k < i THEN k ELSE k + 1]
  <2>1. SUFFICES ASSUME NEW k \in 1..(Len(q) - 1) PROVE (a \o b)[k] = q[IF k < i THEN k ELSE k + 1]
    OBVIOUS
  <2>2. CASE k < i
    BY <1>1, <1>2, <1>5, <2>2
  <2>3. CASE ~(k < i)
    <3>1. k - (i - 1) \in 1..(Len(q) - i) /\ i + (k - (i - 1)) = k + 1
      BY <1>1, <2>3
    <3>2. b[k - (i - 1)] = q[k + 1]
      BY <1>3, <3>1
    <3>3. (a \o b)[k] = b[k - (i - 1)]
      <4>1. ~(k <= i - 1)
        BY <1>1, <2>3
      <4>2. QED
        BY <1>5, <4>1
    <3>4. QED
      BY <2>3, <3>2, <3>3
  <2>4. QED
    BY <2>2, <2>3
<1>7. QED
  BY <1>4, <1>5, <1>6

\* Where a transaction was before that at position i ended.
Before(i) == [k \in 1..(Len(txs) - 1) |-> IF k < i THEN k ELSE k + 1]

LEMMA OthersCarried ==
  ASSUME txs \in Seq(Txs), NEW i \in DOMAIN txs, NEW further \in Seq(Txs), Ended(i, further)
  PROVE  /\ txs' \in Seq(Txs)
         /\ Carried(Len(txs) - 1, Before(i))
         /\ \A k \in 1..(Len(txs) - 1) : Before(i)[k] # i
         /\ \A k \in Added(Len(txs) - 1) :
              k - (Len(txs) - 1) \in DOMAIN further /\ txs'[k] = further[k - (Len(txs) - 1)]
<1> DEFINE r == RemoveAt(txs, i)
<1>1. /\ r \in Seq(Txs) /\ Len(r) = Len(txs) - 1
      /\ \A k \in 1..(Len(txs) - 1) : r[k] = txs[IF k < i THEN k ELSE k + 1]
  BY Removed
<1>2. txs' = r \o further
  BY DEF Ended
<1> HIDE DEF r
<1>3. /\ txs' \in Seq(Txs) /\ Len(txs') = Len(r) + Len(further)
      /\ Len(txs) \in Nat /\ Len(further) \in Nat /\ Len(r) \in Nat /\ i \in 1..Len(txs)
      /\ DOMAIN txs = 1..Len(txs) /\ DOMAIN further = 1..Len(further) /\ DOMAIN txs' = 1..Len(txs')
  BY <1>1, <1>2
<1>4. \A k \in 1..Len(txs') : txs'[k] = IF k <= Len(r) THEN r[k] ELSE further[k - Len(r)]
  <2>1. r \in Seq(Txs) /\ further \in Seq(Txs)
    BY <1>1
  <2>2. \A k \in 1..(Len(r) + Len(further)) : (r \o further)[k] = IF k <= Len(r) THEN r[k] ELSE further[k - Len(r)]
    BY <2>1
  <2>3. QED
    BY <1>2, <1>3, <2>2
<1>5. Carried(Len(txs) - 1, Before(i))
  <2>1. Len(txs) - 1 \in Nat /\ Len(txs) - 1 <= Len(txs')
    BY <1>1, <1>3
  <2>2. Before(i) \in [1..(Len(txs) - 1) -> DOMAIN txs]
    BY <1>3 DEF Before
  <2>3. \A k, l \in 1..(Len(txs) - 1) : k < l => Before(i)[k] < Before(i)[l]
    BY <1>3 DEF Before
  <2>4. \A k \in 1..(Len(txs) - 1) : txs'[k] = txs[Before(i)[k]]
    BY <1>1, <1>3, <1>4 DEF Before
  <2>5. QED
    BY <2>1, <2>2, <2>3, <2>4 DEF Carried
<1>6. \A k \in 1..(Len(txs) - 1) : Before(i)[k] # i
  BY <1>3 DEF Before
<1>7. \A k \in Added(Len(txs) - 1) :
        k - (Len(txs) - 1) \in DOMAIN further /\ txs'[k] = further[k - (Len(txs) - 1)]
  <2>1. \A k \in Added(Len(r)) : k - Len(r) \in DOMAIN further /\ txs'[k] = further[k - Len(r)]
    BY <1>3, <1>4 DEF Added
  <2>2. QED
    BY <1>1, <2>1
<1>8. QED
  BY <1>3, <1>5, <1>6, <1>7

-----------------------------------------------------------------------------
(***************************************************************************)
(* What carries over, conjunct by conjunct.                                *)
(***************************************************************************)
LEMMA TxsCarry ==
  ASSUME TxsOK, NEW n, NEW pos, Carried(n, pos), txs' \in Seq(Txs),
         \A k \in Added(n) :
           /\ Shot(txs'[k]) => txs'[k].pic[1] = txs'[k].s
           /\ txs'[k].op = "delete" => \A p \in txs'[k].found : p[1] = txs'[k].s
  PROVE  TxsOK'
<1>1. SUFFICES ASSUME NEW k \in DOMAIN txs'
               PROVE  /\ Shot(txs'[k]) => txs'[k].pic[1] = txs'[k].s
                      /\ txs'[k].op = "delete" => \A p \in txs'[k].found : p[1] = txs'[k].s
  BY DEF TxsOK, Shot
<1>2. CASE k \in 1..n /\ pos[k] \in DOMAIN txs /\ txs'[k] = txs[pos[k]]
  BY <1>2 DEF TxsOK
<1>3. CASE k \in Added(n)
  BY <1>3
<1>4. QED
  BY <1>2, <1>3, CarriedOrAdded

LEMMA UntilSelf ==
  ASSUME NEW m \in Metas
  PROVE  Until(m, m)
  BY DEF Until, Metas

LEMMA UntilChain ==
  ASSUME NEW a \in Metas, NEW b \in Metas, NEW c \in Metas, Until(a, b), Until(b, c)
  PROVE  Until(a, c)
  BY DEF Until, Metas

LEMMA PutMetaType ==
  ASSUME NEW tx \in Txs, tx.op = "putMeta"
  PROVE  tx.s \in Sessions /\ tx.meta \in Metas
  BY DEF Txs

LEMMA ShotType ==
  ASSUME NEW tx \in Txs, Shot(tx)
  PROVE  tx.s \in Sessions /\ tx.pic \in Pics
  BY DEF Txs, Shot

\* Metas only grow, so those on their way to the store stay in order when the
\* newest goes last.
LEMMA MetasCarry ==
  ASSUME StateOK, meta' \in [Sessions -> Metas], metas' \in [Sessions -> Metas \cup {NoRow}],
         MetasInOrder, NEW n, NEW pos, Carried(n, pos), txs' \in Seq(Txs),
         \A s \in Sessions : Until(meta[s], meta'[s]),
         \A s \in Sessions : metas'[s] \in {metas[s], NoRow},
         \A k \in Added(n) : txs'[k].op = "putMeta" => txs'[k].meta = meta'[txs'[k].s]
  PROVE  MetasInOrder'
<1>1. \A s \in Sessions : metas'[s] # NoRow => metas'[s] = metas[s] /\ metas[s] # NoRow /\ metas[s] \in Metas
  BY DEF StateOK, DvrTypeOK
<1>2. \A s \in Sessions : metas'[s] # NoRow => Until(metas'[s], meta'[s])
  <2>1. SUFFICES ASSUME NEW s \in Sessions, metas'[s] # NoRow PROVE Until(metas'[s], meta'[s])
    OBVIOUS
  <2>2. Until(metas[s], meta[s])
    BY <1>1, <2>1 DEF MetasInOrder
  <2>3. QED
    BY <1>1, <2>1, <2>2, UntilChain DEF StateOK, DvrTypeOK
<1>3. ASSUME NEW k \in DOMAIN txs', txs'[k].op = "putMeta"
      PROVE  /\ txs'[k].s \in Sessions /\ txs'[k].meta \in Metas
             /\ Until(txs'[k].meta, meta'[txs'[k].s])
             /\ metas'[txs'[k].s] # NoRow => Until(metas'[txs'[k].s], txs'[k].meta)
  <2> DEFINE s == txs'[k].s
  <2>1. s \in Sessions /\ txs'[k].meta \in Metas
    BY <1>3, PutMetaType
  <2>2. CASE k \in 1..n /\ pos[k] \in DOMAIN txs /\ txs'[k] = txs[pos[k]]
    <3>1. Until(txs'[k].meta, meta[s]) /\ (metas[s] # NoRow => Until(metas[s], txs'[k].meta))
      BY <1>3, <2>2 DEF MetasInOrder
    <3>2. Until(txs'[k].meta, meta'[s])
      BY <2>1, <3>1, UntilChain DEF StateOK, DvrTypeOK
    <3>3. QED
      BY <1>1, <2>1, <3>1, <3>2
  <2>3. CASE k \in Added(n)
    <3>1. txs'[k].meta = meta'[s]
      BY <1>3, <2>3
    <3>2. QED
      BY <1>2, <2>1, <3>1, UntilSelf
  <2>4. QED
    BY <2>2, <2>3, CarriedOrAdded
<1>4. ASSUME NEW k \in DOMAIN txs', NEW l \in DOMAIN txs', k < l,
             txs'[k].op = "putMeta", txs'[l].op = "putMeta", txs'[k].s = txs'[l].s
      PROVE  Until(txs'[k].meta, txs'[l].meta)
  <2>1. CASE l \in 1..n /\ pos[l] \in DOMAIN txs /\ txs'[l] = txs[pos[l]]
    <3>1. k \in 1..n
      <4>1. k \in 1..Len(txs') /\ n \in Nat
        BY DEF Carried
      <4>2. QED
        BY <1>4, <2>1, <4>1
    <3>2. pos[k] \in DOMAIN txs /\ txs'[k] = txs[pos[k]] /\ pos[k] < pos[l]
      BY <1>4, <2>1, <3>1 DEF Carried
    <3>3. QED
      BY <1>4, <2>1, <3>2 DEF MetasInOrder
  <2>2. CASE l \in Added(n)
    BY <1>3, <1>4, <2>2
  <2>3. QED
    BY <2>1, <2>2, CarriedOrAdded
<1>5. QED
  BY <1>2, <1>3, <1>4 DEF MetasInOrder

LEMMA KeysCarry ==
  ASSUME StateOK, TxsOK, KeysUsedOnce, NEW n, NEW pos, Carried(n, pos), txs' \in Seq(Txs),
         shotSeq' \in [Sessions -> Nat], \A s \in Sessions : shotSeq[s] <= shotSeq'[s],
         pics' \subseteq pics,
         \A k \in Added(n) : ~Shot(txs'[k])
  PROVE  KeysUsedOnce'
<1>1. \A p \in pics' : p[2] <= shotSeq'[p[1]]
  BY DEF StateOK, DvrTypeOK, KeysUsedOnce
<1>2. ASSUME NEW k \in DOMAIN txs', Shot(txs'[k])
      PROVE  k \in 1..n /\ pos[k] \in DOMAIN txs /\ txs'[k] = txs[pos[k]]
  BY <1>2, CarriedOrAdded
<1>3. ASSUME NEW k \in DOMAIN txs', Shot(txs'[k])
      PROVE  /\ txs'[k].pic[2] <= shotSeq'[txs'[k].s]
             /\ \A p \in pics' : ~SamePlace(p, txs'[k].pic)
  <2>1. txs'[k].s \in Sessions /\ txs'[k].pic \in Pics
    BY <1>3, ShotType
  <2>2. txs'[k].pic[2] <= shotSeq[txs'[k].s] /\ \A p \in pics : ~SamePlace(p, txs'[k].pic)
    BY <1>2, <1>3 DEF KeysUsedOnce
  <2>3. txs'[k].pic[2] \in Nat /\ shotSeq[txs'[k].s] \in Nat /\ shotSeq'[txs'[k].s] \in Nat
    BY <2>1 DEF StateOK, DvrTypeOK, Pics
  <2>4. shotSeq[txs'[k].s] <= shotSeq'[txs'[k].s]
    BY <2>1
  <2>5. QED
    BY <2>2, <2>3, <2>4
<1>4. ASSUME NEW k \in DOMAIN txs', Shot(txs'[k]), NEW l \in DOMAIN txs', k # l, Shot(txs'[l])
      PROVE  ~SamePlace(txs'[l].pic, txs'[k].pic)
  <2>1. pos[k] # pos[l]
    <3>1. k \in 1..n /\ l \in 1..n /\ pos[k] \in DOMAIN txs /\ pos[l] \in DOMAIN txs
      BY <1>2, <1>4
    <3>2. k < l \/ l < k
      BY <1>4, <3>1
    <3>3. pos[k] < pos[l] \/ pos[l] < pos[k]
      BY <3>1, <3>2 DEF Carried
    <3>4. pos[k] \in 1..Len(txs) /\ pos[l] \in 1..Len(txs) /\ Len(txs) \in Nat
      BY <3>1 DEF StateOK
    <3>5. QED
      BY <3>3, <3>4
  <2>2. QED
    BY <1>2, <1>4, <2>1 DEF KeysUsedOnce
<1>5. QED
  BY <1>1, <1>3, <1>4 DEF KeysUsedOnce, Shot, SamePlace

\* What is charged for is a finite set of screenshots.
LEMMA ClaimedFinite ==
  ASSUME IsFiniteSet(pics), pics \subseteq Pics, txs \in Seq(Txs), NEW s
  PROVE  IsFiniteSet(Claimed(s)) /\ Claimed(s) \subseteq Pics
<1> DEFINE D == {j \in DOMAIN txs : txs[j].op = "putShot" /\ txs[j].s = s}
           P == {txs[i].pic : i \in D}
<1>1. IsFiniteSet(1..Len(txs))
  BY FS_Interval
<1>2. D \subseteq 1..Len(txs)
  OBVIOUS
<1>3. IsFiniteSet(D)
  BY <1>1, <1>2, FS_Subset
<1>4. IsFiniteSet(P)
  <2> DEFINE f == [i \in D |-> txs[i].pic]
  <2>1. f \in Surjection(D, P)
    BY DEF Surjection
  <2> HIDE DEF D, P, f
  <2>2. QED
    BY <1>3, <2>1, FS_Surjection
<1>5. IsFiniteSet(PicsOf(s)) /\ PicsOf(s) \subseteq Pics
  BY FS_Subset DEF PicsOf
<1>6. P \subseteq Pics
  BY ShotType DEF Shot
<1>7. Claimed(s) = PicsOf(s) \cup P
  BY DEF Claimed
<1> HIDE DEF P
<1>8. QED
  BY <1>4, <1>5, <1>6, <1>7, FS_Union

LEMMA PicSize ==
  ASSUME NEW S, S \subseteq Pics
  PROVE  \A p \in S : p[3] \in Nat
  BY DvrAssumption DEF Pics

\* Where nothing new is stored or on its way, no more is charged for.
LEMMA ChargesCarry ==
  ASSUME StateOK, ChargesOK, meta' \in [Sessions -> Metas],
         \A s \in Sessions : Claimed(s)' \subseteq Claimed(s),
         \A s \in Sessions : meta'[s].bytes = meta[s].bytes,
         pics' \subseteq pics \/ IsFiniteSet(pics')
  PROVE  ChargesOK'
<1>1. IsFiniteSet(pics')
  BY FS_Subset DEF ChargesOK
<1>2. ASSUME NEW s \in Sessions
      PROVE  Bytes(Claimed(s))' <= meta'[s].bytes /\ meta'[s].bytes <= Budget
  <2>1. IsFiniteSet(Claimed(s)) /\ Claimed(s) \subseteq Pics
    BY ClaimedFinite DEF ChargesOK, StateOK, DvrTypeOK, Pics
  <2>2. IsFiniteSet(Claimed(s)') /\ Claimed(s)' \subseteq Pics
    BY <2>1, FS_Subset
  <2>3. Bytes(Claimed(s)') <= Bytes(Claimed(s))
    BY <2>1, BytesOfMore, PicSize
  <2>4. Bytes(Claimed(s)') \in Nat /\ Bytes(Claimed(s)) \in Nat
    BY <2>1, <2>2, BytesType, PicSize
  <2>5. Bytes(Claimed(s)) <= meta[s].bytes /\ meta[s].bytes <= Budget /\ meta[s].bytes \in Nat
    BY DEF ChargesOK, StateOK, DvrTypeOK, Metas
  <2>6. Bytes(Claimed(s))' = Bytes(Claimed(s)')
    BY Zenon DEF Bytes, MapThenSumSet, MapThenFoldSet
  <2>7. QED
    BY <2>3, <2>4, <2>5, <2>6
<1>3. QED
  BY <1>1, <1>2 DEF ChargesOK

LEMMA ClaimedCarry ==
  ASSUME NEW n, NEW pos, Carried(n, pos), txs' \in Seq(Txs), pics' \subseteq pics,
         \A k \in Added(n) : txs'[k].op # "putShot", NEW s
  PROVE  Claimed(s)' \subseteq Claimed(s)
<1>1. SUFFICES ASSUME NEW p \in Claimed(s)' PROVE p \in Claimed(s)
  OBVIOUS
<1>2. CASE p \in PicsOf(s)'
  BY <1>2 DEF PicsOf, Claimed
<1>3. CASE \E k \in DOMAIN txs' : txs'[k].op = "putShot" /\ txs'[k].s = s /\ p = txs'[k].pic
  <2>1. PICK k \in DOMAIN txs' : txs'[k].op = "putShot" /\ txs'[k].s = s /\ p = txs'[k].pic
    BY <1>3
  <2>2. pos[k] \in DOMAIN txs /\ txs'[k] = txs[pos[k]]
    BY <2>1, CarriedOrAdded
  <2>3. QED
    BY <2>1, <2>2 DEF Claimed
<1>4. QED
  BY <1>1, <1>2, <1>3 DEF Claimed

LEMMA ListsStay ==
  ASSUME ListsAligned, UNCHANGED <<ring, seq, handle, started, since, timeline>>
  PROVE  ListsAligned'
  BY DEF ListsAligned

\* A step that stores no meta and takes or stores no screenshot, but may add
\* transactions of other kinds, metas with the present counts among them, and
\* may delete.
LEMMA StoresCarry ==
  ASSUME DvrInv, StateOK', NEW n, NEW pos, Carried(n, pos),
         pics' \subseteq pics, \A s \in Sessions : metas'[s] \in {metas[s], NoRow},
         shotSeq' = shotSeq,
         \A s \in Sessions : Until(meta[s], meta'[s]) /\ meta'[s].bytes = meta[s].bytes,
         \A k \in Added(n) :
           /\ ~Shot(txs'[k])
           /\ txs'[k].op = "putMeta" => txs'[k].meta = meta'[txs'[k].s]
           /\ txs'[k].op = "delete" => \A p \in txs'[k].found : p[1] = txs'[k].s
  PROVE  TxsOK' /\ ChargesOK' /\ MetasInOrder' /\ KeysUsedOnce'
<1>1. /\ txs' \in Seq(Txs) /\ meta' \in [Sessions -> Metas] /\ metas' \in [Sessions -> Metas \cup {NoRow}]
      /\ shotSeq' \in [Sessions -> Nat] /\ \A s \in Sessions : shotSeq[s] <= shotSeq'[s]
  <2>1. txs' \in Seq(Txs) /\ meta' \in [Sessions -> Metas] /\ metas' \in [Sessions -> Metas \cup {NoRow}]
    BY DEF StateOK, DvrTypeOK
  <2>2. shotSeq' \in [Sessions -> Nat]
    BY DEF StateOK, DvrTypeOK
  <2>3. \A s \in Sessions : shotSeq'[s] <= shotSeq'[s]
    BY <2>2
  <2>4. QED
    BY <2>1, <2>2, <2>3
<1>2. TxsOK'
  BY <1>1, TxsCarry DEF DvrInv
<1>3. MetasInOrder'
  BY <1>1, MetasCarry DEF DvrInv
<1>4. KeysUsedOnce'
  BY <1>1, KeysCarry DEF DvrInv
<1>5. \A s \in Sessions : Claimed(s)' \subseteq Claimed(s)
  BY <1>1, ClaimedCarry DEF Shot
<1>6. ChargesOK'
  BY <1>1, <1>5, ChargesCarry DEF DvrInv
<1>7. QED
  BY <1>2, <1>3, <1>4, <1>6

\* In particular one that leaves the transactions alone.
LEMMA StoresStand ==
  ASSUME DvrInv, StateOK', UNCHANGED <<txs, pics, metas, shotSeq>>,
         \A s \in Sessions : Until(meta[s], meta'[s]) /\ meta'[s].bytes = meta[s].bytes
  PROVE  TxsOK' /\ ChargesOK' /\ MetasInOrder' /\ KeysUsedOnce'
<1>1. <<>> \in Seq(Txs) /\ txs \in Seq(Txs)
  BY DEF DvrInv, StateOK
<1>2. txs' = txs \o <<>>
  BY <1>1
<1>3. /\ Carried(Len(txs), [k \in 1..Len(txs) |-> k])
      /\ \A k \in Added(Len(txs)) : k - Len(txs) \in DOMAIN <<>>
  BY <1>1, <1>2, AllCarried
<1>4. Added(Len(txs)) = {}
  BY <1>3
<1>5. QED
  BY <1>3, <1>4, StoresCarry

\* And one that adds transactions.
LEMMA StoresIssue ==
  ASSUME DvrInv, StateOK', UNCHANGED <<pics, metas, shotSeq>>,
         NEW further \in Seq(Txs), txs' = txs \o further,
         \A s \in Sessions : Until(meta[s], meta'[s]) /\ meta'[s].bytes = meta[s].bytes,
         \A k \in DOMAIN further :
           /\ further[k].op \in {"putMeta", "listMetas", "listShots"}
           /\ further[k].op = "putMeta" => further[k].meta = meta'[further[k].s]
  PROVE  TxsOK' /\ ChargesOK' /\ MetasInOrder' /\ KeysUsedOnce'
<1>1. txs \in Seq(Txs)
  BY DEF DvrInv, StateOK
<1>2. /\ Carried(Len(txs), [k \in 1..Len(txs) |-> k])
      /\ \A k \in Added(Len(txs)) : k - Len(txs) \in DOMAIN further /\ txs'[k] = further[k - Len(txs)]
  BY <1>1, AllCarried
<1>3. \A k \in Added(Len(txs)) :
        /\ txs'[k].op \in {"putMeta", "listMetas", "listShots"}
        /\ txs'[k].op = "putMeta" => txs'[k].meta = meta'[txs'[k].s]
  BY <1>2
<1>4. \A k \in Added(Len(txs)) :
        /\ ~Shot(txs'[k])
        /\ txs'[k].op = "putMeta" => txs'[k].meta = meta'[txs'[k].s]
        /\ txs'[k].op = "delete" => \A p \in txs'[k].found : p[1] = txs'[k].s
  BY <1>3 DEF Shot
<1>5. QED
  BY <1>2, <1>4, StoresCarry

-----------------------------------------------------------------------------
(***************************************************************************)
(* The types, and the steps that change no more.                           *)
(***************************************************************************)
\* The parts of StateOK, by what changes together.
RingTypes == recording \in BOOLEAN /\ seq \in Nat /\ ring \in Seq(1..seq) /\ Len(ring) <= RingCap

RunTypes == handle \in 0..started /\ started \in 0..MaxSessions /\ since \in 0..seq

DbTypes ==
  /\ db \in [Sessions -> {"none", "opening", "failed", "open", "closed"}]
  /\ timer \in [Sessions -> BOOLEAN]

LineTypes ==
  /\ timeline \in [Sessions -> Seq(Nat)]
  /\ \A s \in Sessions : timeline[s] \in Seq(1..seq) /\ Len(timeline[s]) <= TimelineCap

ShotTypes ==
  /\ shots \in [Sessions -> Seq(Nat)] /\ shotSeq \in [Sessions -> Nat]
  /\ \A s \in Sessions : Len(shots[s]) <= ShotCap

CaptureTypes ==
  /\ captures \in [Sessions -> SUBSET Nat]
  /\ \A s \in Sessions : captures[s] \subseteq 1..MaxEvents

StoreTypes ==
  metas \in [Sessions -> Metas \cup {NoRow}] /\ pics \subseteq Sessions \X Nat \X ShotSizes

Allowance == [starts : 0..MaxSessions, events : 0..MaxEvents, acts : Nat, faults : Nat]

CountTypes ==
  /\ meta \in [Sessions -> Metas] /\ allowed \in Allowance
  /\ started <= allowed.starts
  /\ \A s \in Sessions : meta[s].n + allowed.events <= MaxEvents

Parts ==
  /\ RingTypes /\ RunTypes /\ DbTypes /\ LineTypes /\ ShotTypes /\ CaptureTypes
  /\ StoreTypes /\ CountTypes /\ txs \in Seq(Txs)

LEMMA StateParts ==
  (StateOK <=> Parts) /\ (StateOK' <=> Parts')
<1>1. StateOK <=> Parts
  BY DEF StateOK, DvrTypeOK, Parts, RingTypes, RunTypes, DbTypes, LineTypes, ShotTypes,
         CaptureTypes, StoreTypes, CountTypes, Allowance
<1>2. StateOK' <=> Parts'
  BY DEF StateOK, DvrTypeOK, Parts, RingTypes, RunTypes, DbTypes, LineTypes, ShotTypes,
         CaptureTypes, StoreTypes, CountTypes, Allowance
<1>3. QED
  BY <1>1, <1>2

\* What a step leaves alone keeps its types.
LEMMA PartsStay ==
  ASSUME DvrInv
  PROVE  /\ Parts
         /\ UNCHANGED ringVars => RingTypes'
         /\ UNCHANGED <<runVars, seq>> => RunTypes'
         /\ UNCHANGED <<timeline, seq>> => LineTypes'
         /\ UNCHANGED <<db, timer>> => DbTypes'
         /\ UNCHANGED <<shots, shotSeq>> => ShotTypes'
         /\ UNCHANGED captures => CaptureTypes'
         /\ UNCHANGED storeVars => StoreTypes'
         /\ (/\ UNCHANGED <<meta, started>> /\ allowed' \in Allowance
             /\ allowed'.events = allowed.events /\ allowed'.starts = allowed.starts) => CountTypes'
         /\ UNCHANGED txs => txs' \in Seq(Txs)
<1>1. Parts
  BY StateParts DEF DvrInv
<1>2. UNCHANGED ringVars => RingTypes'
  BY <1>1 DEF Parts, RingTypes, ringVars
<1>3. UNCHANGED <<runVars, seq>> => RunTypes'
  BY <1>1 DEF Parts, RunTypes, runVars
<1>4. UNCHANGED <<timeline, seq>> => LineTypes'
  BY <1>1 DEF Parts, LineTypes
<1>5. UNCHANGED <<db, timer>> => DbTypes'
  BY <1>1 DEF Parts, DbTypes
<1>6. UNCHANGED <<shots, shotSeq>> => ShotTypes'
  BY <1>1 DEF Parts, ShotTypes
<1>7. UNCHANGED captures => CaptureTypes'
  BY <1>1 DEF Parts, CaptureTypes
<1>8. UNCHANGED storeVars => StoreTypes'
  BY <1>1 DEF Parts, StoreTypes, storeVars
<1>9. (/\ UNCHANGED <<meta, started>> /\ allowed' \in Allowance
       /\ allowed'.events = allowed.events /\ allowed'.starts = allowed.starts) => CountTypes'
  BY <1>1 DEF Parts, CountTypes
<1>10. UNCHANGED txs => txs' \in Seq(Txs)
  BY <1>1 DEF Parts
<1>11. QED
  BY <1>1, <1>2, <1>3, <1>4, <1>5, <1>6, <1>7, <1>8, <1>9, <1>10

LEMMA MetasSame ==
  ASSUME DvrInv, meta' = meta
  PROVE  \A s \in Sessions : Until(meta[s], meta'[s]) /\ meta'[s].bytes = meta[s].bytes
  BY UntilSelf DEF DvrInv, StateOK, DvrTypeOK

\* The bounds after an event, an action of the operator or a failure.
LEMMA AllowedLess ==
  ASSUME StateOK
  PROVE  /\ Event => /\ allowed.events \in Nat \ {0}
                     /\ allowed' \in Allowance
                     /\ allowed'.events = allowed.events - 1 /\ allowed'.starts = allowed.starts
         /\ Act \/ Fault => /\ allowed' \in Allowance
                            /\ allowed'.events = allowed.events /\ allowed'.starts = allowed.starts
<1>1. allowed \in Allowance /\ allowed.events \in 0..MaxEvents /\ allowed.acts \in Nat /\ allowed.faults \in Nat
  BY DEF StateOK, Allowance
<1>2. ASSUME Event
      PROVE  /\ allowed.events \in Nat \ {0} /\ allowed' \in Allowance
             /\ allowed'.events = allowed.events - 1 /\ allowed'.starts = allowed.starts
  <2>1. allowed.events \in Nat \ {0} /\ allowed.events - 1 \in 0..MaxEvents
    BY <1>1, <1>2, DvrAssumption DEF Event
  <2>2. QED
    BY <1>1, <1>2, <2>1 DEF Event, Allowance
<1>3. ASSUME Act
      PROVE  allowed' \in Allowance /\ allowed'.events = allowed.events /\ allowed'.starts = allowed.starts
  <2>1. allowed.acts - 1 \in Nat
    BY <1>1, <1>3 DEF Act
  <2>2. QED
    BY <1>1, <1>3, <2>1 DEF Act, Allowance
<1>4. ASSUME Fault
      PROVE  allowed' \in Allowance /\ allowed'.events = allowed.events /\ allowed'.starts = allowed.starts
  <2>1. allowed.faults - 1 \in Nat
    BY <1>1, <1>4 DEF Fault
  <2>2. QED
    BY <1>1, <1>4, <2>1 DEF Fault, Allowance
<1>5. QED
  BY <1>2, <1>3, <1>4

LEMMA HandleIsSession ==
  ASSUME StateOK, handle # 0
  PROVE  handle \in Sessions /\ handle <= started /\ started \in Nat
  BY DvrAssumption DEF StateOK, DvrTypeOK, Sessions

LEMMA InstallStep ==
  ASSUME DvrInv, Install
  PROVE  DvrInv'
<1>1. started + 1 \in Sessions /\ started + 1 <= allowed.starts /\ started \in Nat
  BY DvrAssumption DEF DvrInv, StateOK, DvrTypeOK, Install, Sessions
<1>2. StateOK'
  <2>1. Parts
    BY PartsStay
  <2>2. RunTypes'
    BY <1>1, <2>1 DEF Parts, RingTypes, RunTypes, Install, ringVars, Sessions
  <2>3. DbTypes'
    BY <1>1, <2>1 DEF Parts, DbTypes, Install
  <2>4. CountTypes'
    BY <1>1, <2>1 DEF Parts, CountTypes, Install, memVars
  <2>5. QED
    BY <2>1, <2>2, <2>3, <2>4, PartsStay, StateParts DEF Parts, Install, ringVars, memVars
<1>3. ListsAligned'
  <2>1. timeline[started + 1] = <<>>
    BY <1>1 DEF DvrInv, ListsAligned
  <2>2. handle' = started + 1 /\ timeline'[handle'] = <<>> /\ since' = seq /\ seq' = seq /\ seq \in Nat
    BY <2>1 DEF Install, memVars, ringVars, DvrInv, StateOK, DvrTypeOK
  <2>3. Len(timeline'[handle']) = 0 /\ DOMAIN timeline'[handle'] = {}
    BY <2>2
  <2>4. \A s \in Sessions : s > started' => timeline'[s] = <<>>
    BY <1>1 DEF DvrInv, ListsAligned, Install, memVars, Sessions
  <2>5. \A k \in DOMAIN ring' : ring'[k] = seq' - Len(ring') + k
    BY DEF DvrInv, ListsAligned, Install, ringVars
  <2>6. QED
    BY <2>2, <2>3, <2>4, <2>5 DEF ListsAligned
<1>4. TxsOK' /\ ChargesOK' /\ MetasInOrder' /\ KeysUsedOnce'
  BY <1>2, StoresStand, MetasSame DEF Install, memVars, storeVars
<1>5. QED
  BY <1>2, <1>3, <1>4 DEF DvrInv

LEMMA UninstallStep ==
  ASSUME DvrInv, Uninstall
  PROVE  DvrInv'
<1>1. handle \in Sessions
  BY HandleIsSession DEF DvrInv, Uninstall
<1>2. StateOK'
  <2>1. Parts
    BY PartsStay
  <2>2. RunTypes'
    BY <2>1 DEF Parts, RunTypes, Uninstall, ringVars
  <2>3. DbTypes'
    BY <1>1, <2>1 DEF Parts, DbTypes, Uninstall
  <2>4. CountTypes'
    BY AllowedLess, PartsStay DEF Uninstall, memVars, DvrInv
  <2>5. QED
    BY <2>2, <2>3, <2>4, PartsStay, StateParts DEF Parts, Uninstall, ringVars, memVars
<1>3. ListsAligned'
  BY DEF DvrInv, ListsAligned, Uninstall, ringVars, memVars
<1>4. TxsOK' /\ ChargesOK' /\ MetasInOrder' /\ KeysUsedOnce'
  BY <1>2, StoresStand, MetasSame DEF Uninstall, memVars, storeVars
<1>5. QED
  BY <1>2, <1>3, <1>4 DEF DvrInv

LEMMA SetRecordingStep ==
  ASSUME DvrInv, SetRecording
  PROVE  DvrInv'
<1>1. StateOK'
  <2>1. Parts
    BY PartsStay
  <2>2. RingTypes'
    BY <2>1 DEF Parts, RingTypes, SetRecording
  <2>3. CountTypes'
    BY AllowedLess, PartsStay DEF SetRecording, memVars, runVars, DvrInv
  <2>4. QED
    BY <2>2, <2>3, PartsStay, StateParts DEF Parts, SetRecording, memVars
<1>2. ListsAligned'
  BY ListsStay DEF DvrInv, SetRecording, runVars, memVars
<1>3. TxsOK' /\ ChargesOK' /\ MetasInOrder' /\ KeysUsedOnce'
  BY <1>1, StoresStand, MetasSame DEF SetRecording, memVars, storeVars
<1>4. QED
  BY <1>1, <1>2, <1>3 DEF DvrInv

LEMMA ClearRingStep ==
  ASSUME DvrInv, ClearRing
  PROVE  DvrInv'
<1>1. <<>> \in Seq(1..seq) /\ Len(<<>>) = 0 /\ DOMAIN <<>> = {}
  OBVIOUS
<1>2. StateOK'
  <2>1. Parts
    BY PartsStay
  <2>2. RingTypes'
    BY <1>1, <2>1, DvrAssumption DEF Parts, RingTypes, ClearRing
  <2>3. CountTypes'
    BY AllowedLess, PartsStay DEF ClearRing, memVars, runVars, DvrInv
  <2>4. QED
    BY <2>2, <2>3, PartsStay, StateParts DEF Parts, ClearRing, memVars
<1>3. ListsAligned'
  BY <1>1 DEF DvrInv, ListsAligned, ClearRing, runVars, memVars
<1>4. TxsOK' /\ ChargesOK' /\ MetasInOrder' /\ KeysUsedOnce'
  BY <1>2, StoresStand, MetasSame DEF ClearRing, memVars, storeVars
<1>5. QED
  BY <1>2, <1>3, <1>4 DEF DvrInv

LEMMA CaptureFailsStep ==
  ASSUME DvrInv, NEW s \in Sessions, CaptureFails(s)
  PROVE  DvrInv'
<1>1. StateOK'
  <2>1. Parts
    BY PartsStay
  <2>2. CaptureTypes'
    <3>1. PICK atClick : captures' = [captures EXCEPT ![s] = @ \ {atClick}]
      BY DEF CaptureFails
    <3>2. QED
      BY <2>1, <3>1 DEF Parts, CaptureTypes
  <2>3. CountTypes'
    BY <2>1, PartsStay DEF Parts, CountTypes, CaptureFails, memVars, runVars
  <2>4. QED
    BY <2>2, <2>3, PartsStay, StateParts DEF Parts, CaptureFails, ringVars, memVars
<1>2. ListsAligned'
  BY ListsStay DEF DvrInv, CaptureFails, ringVars, runVars, memVars
<1>3. TxsOK' /\ ChargesOK' /\ MetasInOrder' /\ KeysUsedOnce'
  BY <1>1, StoresStand, MetasSame DEF CaptureFails, memVars, storeVars
<1>4. QED
  BY <1>1, <1>2, <1>3 DEF DvrInv

\* What persistMeta and its callers issue.
LEMMA PersistTypes ==
  ASSUME NEW s \in Sessions, NEW m \in Metas
  PROVE  /\ Persist(s, m) \in Seq(Txs) /\ PutMeta(s, m) \in Txs /\ <<PutMeta(s, m)>> \in Seq(Txs)
         /\ \A k \in DOMAIN Persist(s, m) :
              Persist(s, m)[k].op = "putMeta" /\ Persist(s, m)[k].s = s /\ Persist(s, m)[k].meta = m
<1>1. PutMeta(s, m) \in Txs
  BY DEF PutMeta, Txs
<1>2. QED
  BY <1>1 DEF Persist, PutMeta

\* A step of the recorder after which the session's meta is written.
LEMMA PersistStep ==
  ASSUME DvrInv, NEW s \in Sessions, meta' \in [Sessions -> Metas],
         \A q \in Sessions : Until(meta[q], meta'[q]) /\ meta'[q].bytes = meta[q].bytes /\ meta'[q].n = meta[q].n,
         Issue(Persist(s, meta'[s])), timer' \in [Sessions -> BOOLEAN],
         UNCHANGED <<ringVars, runVars, db, timeline, shots, shotSeq, captures, storeVars>>,
         allowed' \in Allowance,
         allowed'.events = allowed.events, allowed'.starts = allowed.starts
  PROVE  DvrInv'
<1> DEFINE further == Persist(s, meta'[s])
<1>1. /\ further \in Seq(Txs)
      /\ \A k \in DOMAIN further : further[k].op = "putMeta" /\ further[k].meta = meta'[further[k].s]
  <2>1. meta'[s] \in Metas
    OBVIOUS
  <2>2. QED
    BY <2>1, PersistTypes
<1>2. txs' = txs \o further /\ txs \in Seq(Txs)
  BY DEF Issue, DvrInv, StateOK
<1> HIDE DEF further
<1>3. txs' \in Seq(Txs)
  BY <1>1, <1>2
<1>4. StateOK'
  <2>1. Parts
    BY PartsStay
  <2>2. DbTypes'
    BY <2>1 DEF Parts, DbTypes
  <2>3. CountTypes'
    BY <2>1 DEF Parts, CountTypes, runVars
  <2>4. QED
    BY <1>3, <2>2, <2>3, PartsStay, StateParts DEF Parts, ringVars, runVars
<1>5. ListsAligned'
  BY ListsStay DEF DvrInv, ringVars, runVars
<1>6. \A k \in DOMAIN further :
           /\ further[k].op \in {"putMeta", "listMetas", "listShots"}
           /\ further[k].op = "putMeta" => further[k].meta = meta'[further[k].s]
  BY <1>1
<1>7. TxsOK' /\ ChargesOK' /\ MetasInOrder' /\ KeysUsedOnce'
  BY <1>1, <1>2, <1>4, <1>6, StoresIssue DEF storeVars
<1>8. QED
  BY <1>4, <1>5, <1>7 DEF DvrInv

LEMMA HiddenStep ==
  ASSUME DvrInv, Hidden
  PROVE  DvrInv'
<1>1. handle \in Sessions
  BY HandleIsSession DEF DvrInv, Hidden
<1>2. \A q \in Sessions : Until(meta[q], meta'[q]) /\ meta'[q].bytes = meta[q].bytes /\ meta'[q].n = meta[q].n
  BY MetasSame DEF Hidden, memVars
<1>3. meta' \in [Sessions -> Metas] /\ timer' \in [Sessions -> BOOLEAN] /\ Issue(Persist(handle, meta'[handle]))
  BY DEF Hidden, memVars, DvrInv, StateOK, DvrTypeOK
<1>4. UNCHANGED <<ringVars, runVars, db, timeline, shots, shotSeq, captures, storeVars>>
  BY DEF Hidden, memVars
<1>5. QED
  BY <1>1, <1>2, <1>3, <1>4, AllowedLess, PersistStep DEF Hidden, DvrInv

LEMMA PageHideStep ==
  ASSUME DvrInv, PageHide
  PROVE  DvrInv'
<1>1. handle \in Sessions
  BY HandleIsSession DEF DvrInv, PageHide
<1>2. meta \in [Sessions -> Metas]
  BY DEF DvrInv, StateOK, DvrTypeOK
<1>3. meta' \in [Sessions -> Metas]
  BY <1>1, <1>2 DEF PageHide, Metas
<1>4. \A q \in Sessions : Until(meta[q], meta'[q]) /\ meta'[q].bytes = meta[q].bytes /\ meta'[q].n = meta[q].n
  BY <1>1, <1>2 DEF PageHide, Until, Metas
<1>5. timer' \in [Sessions -> BOOLEAN]
  BY DEF PageHide, DvrInv, StateOK, DvrTypeOK
<1>6. QED
  BY <1>1, <1>3, <1>4, <1>5, AllowedLess, PersistStep DEF PageHide, DvrInv

LEMMA PersistTimerStep ==
  ASSUME DvrInv, NEW s \in Sessions, PersistTimer(s)
  PROVE  DvrInv'
<1>1. \A q \in Sessions : Until(meta[q], meta'[q]) /\ meta'[q].bytes = meta[q].bytes /\ meta'[q].n = meta[q].n
  BY MetasSame DEF PersistTimer, memVars
<1>2. meta' \in [Sessions -> Metas] /\ timer' \in [Sessions -> BOOLEAN] /\ Issue(Persist(s, meta'[s]))
  BY DEF PersistTimer, memVars, DvrInv, StateOK, DvrTypeOK
<1>3. UNCHANGED <<ringVars, runVars, db, timeline, shots, shotSeq, captures, storeVars, allowed>>
  BY DEF PersistTimer, memVars
<1>4. allowed \in Allowance
  BY DEF DvrInv, StateOK, Allowance
<1>5. QED
  BY <1>1, <1>2, <1>3, <1>4, PersistStep

-----------------------------------------------------------------------------
(***************************************************************************)
(* The database opens, the page goes, events.                              *)
(***************************************************************************)
LEMMA OpenedStep ==
  ASSUME DvrInv, NEW s \in Sessions, Opened(s)
  PROVE  DvrInv'
<1>1. Parts
  BY PartsStay
<1>2. UNCHANGED <<ringVars, runVars, memVars, captures, timer, storeVars>>
  BY DEF Opened
<1>3. DbTypes'
  BY <1>1, <1>2 DEF Parts, DbTypes, Opened
<1>4. ListsAligned'
  BY <1>2, ListsStay DEF DvrInv, ringVars, runVars, memVars
<1>5. \A q \in Sessions : Until(meta[q], meta'[q]) /\ meta'[q].bytes = meta[q].bytes
  BY <1>2, MetasSame DEF memVars
<1>6. CASE Issue(<<ListMetas, PutMeta(s, meta[s])>>) /\ UNCHANGED <<failures, allowed>>
  <2> DEFINE further == <<ListMetas, PutMeta(s, meta[s])>>
  <2>1. meta[s] \in Metas /\ txs \in Seq(Txs)
    BY <1>1 DEF Parts, CountTypes
  <2>2. further \in Seq(Txs) /\ DOMAIN further = {1, 2} /\ further[1] = ListMetas /\ further[2] = PutMeta(s, meta[s])
    <3>1. ListMetas \in Txs /\ PutMeta(s, meta[s]) \in Txs
      BY <2>1 DEF ListMetas, PutMeta, Txs
    <3>2. QED
      BY <3>1
  <2>3. txs' = txs \o further
    BY <1>6 DEF Issue
  <2>4. \A k \in DOMAIN further :
           /\ further[k].op \in {"putMeta", "listMetas", "listShots"}
           /\ further[k].op = "putMeta" => further[k].meta = meta'[further[k].s]
    BY <1>2, <2>2 DEF ListMetas, PutMeta, memVars
  <2> HIDE DEF further
  <2>5. txs' \in Seq(Txs)
    BY <2>1, <2>2, <2>3
  <2>6. CountTypes'
    BY <1>1, <1>2, <1>6 DEF Parts, CountTypes, memVars, runVars
  <2>7. StateOK'
    BY <1>2, <1>3, <2>5, <2>6, PartsStay, StateParts DEF Parts, ringVars, memVars
  <2>8. TxsOK' /\ ChargesOK' /\ MetasInOrder' /\ KeysUsedOnce'
    BY <1>2, <1>5, <2>2, <2>3, <2>4, <2>7, StoresIssue DEF storeVars, memVars
  <2>9. QED
    BY <1>4, <2>7, <2>8 DEF DvrInv
<1>7. CASE Fault /\ UNCHANGED txs
  <2>1. CountTypes'
    BY <1>2, <1>7, AllowedLess, PartsStay DEF memVars, runVars, DvrInv
  <2>2. StateOK'
    BY <1>2, <1>3, <1>7, <2>1, PartsStay, StateParts DEF Parts, ringVars, memVars
  <2>3. TxsOK' /\ ChargesOK' /\ MetasInOrder' /\ KeysUsedOnce'
    BY <1>2, <1>5, <1>7, <2>2, StoresStand DEF storeVars, memVars
  <2>4. QED
    BY <1>4, <2>2, <2>3 DEF DvrInv
<1>8. QED
  BY <1>6, <1>7 DEF Opened

LEMMA PageGoneStep ==
  ASSUME DvrInv, PageGone
  PROVE  DvrInv'
<1>1. Parts
  BY PartsStay
<1>2. <<>> \in Seq(Txs) /\ <<>> \in Seq(Nat) /\ (\A n : <<>> \in Seq(1..n)) /\ Len(<<>>) = 0 /\ DOMAIN <<>> = {}
  OBVIOUS
<1>3. RingTypes'
  BY <1>2, DvrAssumption DEF RingTypes, PageGone
<1>4. RunTypes'
  BY <1>1, DvrAssumption DEF Parts, RunTypes, PageGone
<1>5. DbTypes'
  BY <1>1 DEF Parts, DbTypes, PageGone
<1>6. LineTypes'
  BY <1>2, DvrAssumption DEF LineTypes, PageGone
<1>7. ShotTypes'
  BY <1>1, <1>2, DvrAssumption DEF Parts, ShotTypes, PageGone
<1>8. CaptureTypes'
  BY DEF CaptureTypes, PageGone
<1>9. CountTypes'
  BY AllowedLess, PartsStay DEF DvrInv, PageGone
<1>10. txs' = <<>> /\ txs' \in Seq(Txs)
  BY <1>2 DEF PageGone
<1>11. StateOK'
  BY <1>3, <1>4, <1>5, <1>6, <1>7, <1>8, <1>9, <1>10, PartsStay, StateParts DEF Parts, PageGone
<1>12. ListsAligned'
  BY <1>2 DEF ListsAligned, PageGone
<1>13. TxsOK' /\ ChargesOK' /\ MetasInOrder' /\ KeysUsedOnce'
  <2>1. Carried(0, [k \in 1..0 |-> k])
    BY <1>10 DEF Carried
  <2>2. Added(0) = {}
    BY <1>2, <1>10 DEF Added
  <2>3. UNCHANGED <<meta, shotSeq, storeVars>>
    BY DEF PageGone
  <2>4. \A s \in Sessions : Until(meta[s], meta'[s]) /\ meta'[s].bytes = meta[s].bytes
    BY <2>3, MetasSame
  <2>5. QED
    BY <1>11, <2>1, <2>2, <2>3, <2>4, StoresCarry DEF storeVars
<1>14. QED
  BY <1>11, <1>12, <1>13 DEF DvrInv

\* One more event is counted.
LEMMA CountedStep ==
  ASSUME DvrInv, NEW s \in Sessions, Event, meta' = [meta EXCEPT ![s].n = @ + 1], UNCHANGED started
  PROVE  /\ CountTypes' /\ meta'[s].n \in 1..MaxEvents
         /\ \A q \in Sessions : Until(meta[q], meta'[q]) /\ meta'[q].bytes = meta[q].bytes
<1>1. Parts /\ StateOK
  BY PartsStay DEF DvrInv
<1>2. /\ allowed.events \in Nat \ {0} /\ allowed' \in Allowance
      /\ allowed'.events = allowed.events - 1 /\ allowed'.starts = allowed.starts
  BY <1>1, AllowedLess
<1>3. meta \in [Sessions -> Metas] /\ \A q \in Sessions : meta[q].n + allowed.events <= MaxEvents
  BY <1>1 DEF Parts, CountTypes
<1>4. meta' \in [Sessions -> Metas] /\ meta'[s].n = meta[s].n + 1
  BY <1>3 DEF Metas
<1>5. \A q \in Sessions : q # s => meta'[q] = meta[q]
  BY <1>3
<1>6. \A q \in Sessions : meta[q].n \in Nat
  BY <1>3 DEF Metas
<1>7. \A q \in Sessions : meta'[q].n + allowed'.events <= MaxEvents
  <2>1. SUFFICES ASSUME NEW q \in Sessions PROVE meta'[q].n + allowed'.events <= MaxEvents
    OBVIOUS
  <2>2. meta'[q].n \in {meta[q].n, meta[q].n + 1}
    BY <1>4, <1>5
  <2>3. meta[q].n + allowed.events <= MaxEvents /\ meta[q].n \in Nat /\ MaxEvents \in Nat
    BY <1>3, <1>6, DvrAssumption
  <2>4. QED
    BY <1>2, <2>2, <2>3
<1>8. meta'[s].n \in 1..MaxEvents
  <2>1. meta[s].n + allowed.events <= MaxEvents /\ meta[s].n \in Nat /\ MaxEvents \in Nat
    BY <1>3, <1>6, DvrAssumption
  <2>2. QED
    BY <1>2, <1>4, <2>1, SMTT(60)
<1>9. \A q \in Sessions : Until(meta[q], meta'[q]) /\ meta'[q].bytes = meta[q].bytes
  BY <1>3 DEF Until, Metas
<1>10. CountTypes'
  BY <1>1, <1>2, <1>4, <1>7 DEF Parts, CountTypes
<1>11. QED
  BY <1>8, <1>9, <1>10

LEMMA BatchStep ==
  ASSUME DvrInv, Batch
  PROVE  DvrInv'
<1>1. handle \in Sessions /\ Parts
  BY HandleIsSession, PartsStay DEF DvrInv, Batch
<1>2. CountTypes' /\ \A q \in Sessions : Until(meta[q], meta'[q]) /\ meta'[q].bytes = meta[q].bytes
  BY <1>1, CountedStep DEF Batch, runVars
<1>3. DbTypes'
  BY <1>1 DEF Parts, DbTypes, Batch, SchedulePersist
<1>4. StateOK'
  BY <1>2, <1>3, PartsStay, StateParts DEF Parts, Batch, ringVars
<1>5. ListsAligned'
  BY ListsStay DEF DvrInv, Batch, ringVars, runVars
<1>6. TxsOK' /\ ChargesOK' /\ MetasInOrder' /\ KeysUsedOnce'
  BY <1>2, <1>4, StoresStand DEF Batch, storeVars
<1>7. QED
  BY <1>4, <1>5, <1>6 DEF DvrInv

\* Sequences that lose members in front and gain one behind.
LEMMA Dropped ==
  ASSUME NEW S, NEW q \in Seq(S), NEW old \in 0..Len(q)
  PROVE  /\ SubSeq(q, old + 1, Len(q)) \in Seq(S) /\ Len(SubSeq(q, old + 1, Len(q))) = Len(q) - old
         /\ \A k \in 1..(Len(q) - old) : SubSeq(q, old + 1, Len(q))[k] = q[old + k]
<1>1. Len(q) \in Nat /\ old \in Nat /\ old <= Len(q)
  OBVIOUS
<1>2. QED
  BY <1>1

LEMMA Grown ==
  ASSUME NEW S, NEW q \in Seq(S), NEW e \in S
  PROVE  /\ q \o <<e>> \in Seq(S) /\ Len(q \o <<e>>) = Len(q) + 1 /\ Len(q) \in Nat
         /\ (q \o <<e>>)[Len(q) + 1] = e /\ \A k \in 1..Len(q) : (q \o <<e>>)[k] = q[k]
  OBVIOUS

LEMMA Retyped ==
  ASSUME NEW S, NEW T, NEW q \in Seq(S), \A k \in 1..Len(q) : q[k] \in T
  PROVE  q \in Seq(T)
  OBVIOUS

\* Newest keeps the last members.
LEMMA NewestKeeps ==
  ASSUME NEW S, NEW q \in Seq(S), NEW n \in Nat
  PROVE  Newest(q, n) \in Seq(S) /\ Len(Newest(q, n)) <= n
<1>1. Len(q) \in Nat
  OBVIOUS
<1>2. CASE Len(q) > n
  <2> DEFINE old == Len(q) - n
  <2>1. old \in 0..Len(q) /\ old + 1 = Len(q) - n + 1 /\ Len(q) - old = n
    BY <1>1, <1>2
  <2>2. SubSeq(q, old + 1, Len(q)) \in Seq(S) /\ Len(SubSeq(q, old + 1, Len(q))) = n
    BY <2>1, Dropped
  <2>3. QED
    BY <1>2, <2>1, <2>2 DEF Newest
<1>3. CASE ~(Len(q) > n)
  BY <1>1, <1>3 DEF Newest
<1>4. QED
  BY <1>2, <1>3

\* A sequence of consecutive numbers that ends with n.
EndsWith(q, n) ==
  q \in Seq(Nat) /\ Len(q) <= n /\ \A k \in 1..Len(q) : q[k] = n - Len(q) + k

LEMMA Consecutive ==
  ASSUME NEW n \in Nat, NEW q, EndsWith(q, n)
  PROVE  q \in Seq(1..n)
<1>1. q \in Seq(Nat) /\ Len(q) \in Nat /\ Len(q) <= n
  BY DEF EndsWith
<1>2. \A k \in 1..Len(q) : q[k] \in 1..n
  BY <1>1 DEF EndsWith
<1> DEFINE T == 1..n
<1>3. \A k \in 1..Len(q) : q[k] \in T
  BY <1>2
<1> HIDE DEF T
<1>4. q \in Seq(T)
  BY <1>1, <1>3, Retyped
<1>5. QED
  BY <1>4 DEF T

\* Numbers up to n that are consecutive and end with n are at most n many.
LEMMA EndsWithIt ==
  ASSUME NEW n \in Nat, NEW q \in Seq(1..n), \A k \in DOMAIN q : q[k] = n - Len(q) + k
  PROVE  EndsWith(q, n)
<1> DEFINE T == 1..n
<1>1. q \in Seq(T)
  OBVIOUS
<1>2. T \subseteq Nat
  OBVIOUS
<1> HIDE DEF T
<1>3. Len(q) \in Nat /\ DOMAIN q = 1..Len(q) /\ \A k \in 1..Len(q) : q[k] \in T
  BY <1>1
<1>4. q \in Seq(Nat)
  BY <1>1, <1>2, <1>3, Retyped
<1>5. Len(q) <= n
  <2>1. CASE Len(q) = 0
    BY <2>1
  <2>2. CASE Len(q) > 0
    <3>1. 1 \in 1..Len(q)
      BY <1>3, <2>2
    <3>2. q[1] = n - Len(q) + 1 /\ q[1] \in T
      BY <1>3, <3>1
    <3>3. QED
      BY <1>3, <3>2 DEF T
  <2>3. QED
    BY <1>3, <2>1, <2>2
<1>6. QED
  BY <1>3, <1>4, <1>5 DEF EndsWith

LEMMA EndsGrown ==
  ASSUME NEW n \in Nat, NEW q, EndsWith(q, n)
  PROVE  EndsWith(q \o <<n + 1>>, n + 1) /\ Len(q \o <<n + 1>>) = Len(q) + 1 /\ Len(q) \in Nat
<1>1. q \in Seq(Nat) /\ Len(q) \in Nat /\ Len(q) <= n /\ \A k \in 1..Len(q) : q[k] = n - Len(q) + k
  BY DEF EndsWith
<1> DEFINE w == q \o <<n + 1>>
<1>2. /\ w \in Seq(Nat) /\ Len(w) = Len(q) + 1
      /\ w[Len(q) + 1] = n + 1 /\ \A k \in 1..Len(q) : w[k] = q[k]
  BY <1>1, Grown
<1> HIDE DEF w
<1>3. \A k \in 1..Len(w) : w[k] = (n + 1) - Len(w) + k
  <2>1. SUFFICES ASSUME NEW k \in 1..Len(w) PROVE w[k] = (n + 1) - Len(w) + k
    OBVIOUS
  <2>2. CASE k \in 1..Len(q)
    <3>1. w[k] = n - Len(q) + k
      BY <1>1, <1>2, <2>2
    <3>2. QED
      BY <1>1, <1>2, <2>2, <3>1
  <2>3. CASE k = Len(q) + 1
    BY <1>1, <1>2, <2>3
  <2>4. QED
    BY <1>1, <1>2, <2>2, <2>3
<1>4. EndsWith(w, n + 1)
  BY <1>1, <1>2, <1>3 DEF EndsWith
<1>5. QED
  BY <1>1, <1>2, <1>4 DEF w

LEMMA EndsDropped ==
  ASSUME NEW n \in Nat, NEW q, EndsWith(q, n), NEW old \in 0..Len(q)
  PROVE  /\ EndsWith(SubSeq(q, old + 1, Len(q)), n)
         /\ Len(SubSeq(q, old + 1, Len(q))) = Len(q) - old
<1>1. q \in Seq(Nat) /\ Len(q) \in Nat /\ Len(q) <= n /\ \A k \in 1..Len(q) : q[k] = n - Len(q) + k
  BY DEF EndsWith
<1> DEFINE w == SubSeq(q, old + 1, Len(q))
<1>2. w \in Seq(Nat) /\ Len(w) = Len(q) - old /\ \A k \in 1..(Len(q) - old) : w[k] = q[old + k]
  BY <1>1, Dropped
<1> HIDE DEF w
<1>3. \A k \in 1..Len(w) : w[k] = n - Len(w) + k
  <2>1. SUFFICES ASSUME NEW k \in 1..Len(w) PROVE w[k] = n - Len(w) + k
    OBVIOUS
  <2>2. old + k \in 1..Len(q)
    BY <1>1, <1>2
  <2>3. w[k] = n - Len(q) + (old + k)
    BY <1>1, <1>2, <2>2
  <2>4. QED
    BY <1>1, <1>2, <2>3
<1>4. Len(w) <= n
  BY <1>1, <1>2
<1>5. QED
  BY <1>2, <1>3, <1>4 DEF EndsWith, w

LEMMA EndsNewest ==
  ASSUME NEW n \in Nat, NEW q, EndsWith(q, n), NEW c \in Nat
  PROVE  EndsWith(Newest(q, c), n) /\ Len(Newest(q, c)) <= c
<1>1. q \in Seq(Nat) /\ Len(q) \in Nat
  BY DEF EndsWith
<1>2. CASE Len(q) > c
  <2> DEFINE old == Len(q) - c
  <2>1. old \in 0..Len(q) /\ old + 1 = Len(q) - c + 1 /\ Len(q) - old = c
    BY <1>1, <1>2
  <2>2. EndsWith(SubSeq(q, old + 1, Len(q)), n) /\ Len(SubSeq(q, old + 1, Len(q))) = c
    BY <2>1, EndsDropped
  <2>3. Newest(q, c) = SubSeq(q, old + 1, Len(q))
    BY <1>2, <2>1 DEF Newest
  <2>4. QED
    BY <2>2, <2>3
<1>3. CASE ~(Len(q) > c)
  BY <1>1, <1>3 DEF Newest
<1>4. QED
  BY <1>2, <1>3

LEMMA RingStep ==
  ASSUME seq \in Nat, EndsWith(ring, seq), NEW old \in 0..Len(ring)
  PROVE  EndsWith(RingWith(seq + 1, old), seq + 1) /\ Len(RingWith(seq + 1, old)) <= RingCap
<1> DEFINE a == SubSeq(ring, old + 1, Len(ring))
<1>1. EndsWith(a, seq)
  BY EndsDropped
<1>2. EndsWith(a \o <<seq + 1>>, seq + 1)
  BY <1>1, EndsGrown
<1>3. seq + 1 \in Nat /\ RingCap \in Nat
  BY DvrAssumption
<1> HIDE DEF a
<1>4. EndsWith(Newest(a \o <<seq + 1>>, RingCap), seq + 1) /\ Len(Newest(a \o <<seq + 1>>, RingCap)) <= RingCap
  BY <1>2, <1>3, EndsNewest
<1>5. QED
  BY <1>4 DEF RingWith, a

LEMMA TimelineStep ==
  ASSUME seq \in Nat, NEW s, EndsWith(timeline[s], seq), Len(timeline[s]) <= TimelineCap,
         since \in 0..seq, Len(timeline[s]) \in {TimelineCap, seq - since}
  PROVE  LET w == TimelineWith(s, seq + 1)
         IN  /\ EndsWith(w, seq + 1) /\ Len(w) <= TimelineCap
             /\ Len(w) \in {TimelineCap, (seq + 1) - since}
<1> DEFINE t == timeline[s]
           a == IF Len(t) < TimelineCap THEN t ELSE Tail(t)
           w == a \o <<seq + 1>>
<1>1. /\ Len(t) \in Nat /\ TimelineCap \in Nat /\ TimelineCap >= 1 /\ t \in Seq(Nat)
      /\ Len(t) <= TimelineCap /\ Len(t) \in {TimelineCap, seq - since} /\ since \in Nat
  BY DvrAssumption DEF EndsWith
<1> HIDE DEF t
<1>2. EndsWith(a, seq) /\ Len(a) = (IF Len(t) < TimelineCap THEN Len(t) ELSE TimelineCap - 1)
  <2>1. CASE Len(t) < TimelineCap
    BY <2>1 DEF t
  <2>2. CASE ~(Len(t) < TimelineCap)
    <3>1. Len(t) = TimelineCap /\ t # <<>> /\ 1 \in 0..Len(t)
      BY <1>1, <2>2
    <3>2. EndsWith(t, seq)
      BY DEF t
    <3>3. EndsWith(SubSeq(t, 1 + 1, Len(t)), seq) /\ Len(SubSeq(t, 1 + 1, Len(t))) = Len(t) - 1
      BY <3>1, <3>2, EndsDropped
    <3>4. Tail(t) = SubSeq(t, 1 + 1, Len(t))
      BY <1>1, <3>1
    <3>5. QED
      BY <2>2, <3>1, <3>3, <3>4
  <2>3. QED
    BY <2>1, <2>2
<1> HIDE DEF a
<1>3. EndsWith(w, seq + 1) /\ Len(w) = Len(a) + 1
  BY <1>2, EndsGrown
<1>4. Len(w) <= TimelineCap /\ Len(w) \in {TimelineCap, (seq + 1) - since}
  BY <1>1, <1>2, <1>3
<1>5. TimelineWith(s, seq + 1) = w
  BY DEF TimelineWith, w, a, t
<1>6. QED
  BY <1>3, <1>4, <1>5

LEMMA PushStep ==
  ASSUME DvrInv, NEW click \in BOOLEAN, Push(click)
  PROVE  DvrInv'
<1>1. Parts
  BY PartsStay
<1>2. seq' = seq + 1 /\ seq \in Nat /\ since \in 0..seq /\ since' = since /\ handle' = handle /\ started' = started
  BY <1>1 DEF Push, Parts, RingTypes, RunTypes, runVars
<1>3. RingTypes' /\ \A k \in DOMAIN ring' : ring'[k] = seq' - Len(ring') + k
  <2>1. PICK old \in 0..Len(ring) : ring' = RingWith(seq + 1, old)
    BY DEF Push
  <2>2. /\ ring' \in Seq(1..(seq + 1)) /\ Len(ring') <= RingCap
        /\ \A k \in DOMAIN ring' : ring'[k] = (seq + 1) - Len(ring') + k
    <3>1. EndsWith(ring, seq)
      BY <1>1, EndsWithIt DEF Parts, RingTypes, DvrInv, ListsAligned
    <3>2. EndsWith(ring', seq + 1) /\ Len(ring') <= RingCap /\ seq + 1 \in Nat
      BY <1>2, <2>1, <3>1, RingStep
    <3>3. ring' \in Seq(1..(seq + 1)) /\ DOMAIN ring' = 1..Len(ring')
      BY <3>2, Consecutive DEF EndsWith
    <3>4. QED
      BY <3>2, <3>3 DEF EndsWith
  <2>3. recording' \in BOOLEAN
    BY <1>1 DEF Parts, RingTypes, Push
  <2>4. QED
    BY <1>2, <2>2, <2>3 DEF RingTypes
<1>4. RunTypes'
  BY <1>1, <1>2 DEF Parts, RunTypes
<1>5. /\ LineTypes' /\ \A s \in Sessions : s > started' => timeline'[s] = <<>>
      /\ handle' # 0 =>
           /\ \A k \in DOMAIN timeline'[handle'] : timeline'[handle'][k] = seq' - Len(timeline'[handle']) + k
           /\ Len(timeline'[handle']) \in {TimelineCap, seq' - since'}
  <2>1. /\ timeline \in [Sessions -> Seq(Nat)]
        /\ \A s \in Sessions : timeline[s] \in Seq(1..seq) /\ Len(timeline[s]) <= TimelineCap
        /\ \A s \in Sessions : s > started => timeline[s] = <<>>
    BY <1>1 DEF Parts, LineTypes, DvrInv, ListsAligned
  <2>2. \A s \in Sessions : timeline[s] \in Seq(1..(seq + 1))
    <3> DEFINE S == 1..seq
               T == 1..(seq + 1)
    <3>1. S \subseteq T
      BY <1>2
    <3>2. \A s \in Sessions : timeline[s] \in Seq(S)
      BY <2>1
    <3> HIDE DEF S, T
    <3>3. \A s \in Sessions : timeline[s] \in Seq(T)
      <4>1. SUFFICES ASSUME NEW s \in Sessions PROVE timeline[s] \in Seq(T)
        OBVIOUS
      <4>2. timeline[s] \in Seq(S) /\ \A k \in 1..Len(timeline[s]) : timeline[s][k] \in T
        BY <3>1, <3>2
      <4>3. QED
        BY <4>2, Retyped
    <3>4. QED
      BY <3>3 DEF T
  <2>3. CASE handle = 0
    <3>1. timeline' = timeline
      BY <2>3 DEF Push
    <3>2. QED
      BY <1>2, <2>1, <2>2, <2>3, <3>1 DEF LineTypes
  <2>4. CASE handle # 0
    <3> DEFINE w == TimelineWith(handle, seq + 1)
    <3>1. timeline' = [timeline EXCEPT ![handle] = w] /\ handle \in Sessions /\ handle <= started /\ started \in Nat
      BY <2>4, HandleIsSession DEF Push, DvrInv
    <3>2. /\ EndsWith(w, seq + 1) /\ w \in Seq(1..(seq + 1)) /\ Len(w) <= TimelineCap
          /\ Len(w) \in {TimelineCap, (seq + 1) - since}
          /\ \A k \in DOMAIN w : w[k] = (seq + 1) - Len(w) + k
      <4>1. EndsWith(timeline[handle], seq)
        BY <1>2, <2>1, <2>4, <3>1, EndsWithIt DEF DvrInv, ListsAligned
      <4>2. Len(timeline[handle]) <= TimelineCap /\ Len(timeline[handle]) \in {TimelineCap, seq - since}
        BY <2>1, <2>4, <3>1 DEF DvrInv, ListsAligned
      <4>3. EndsWith(w, seq + 1) /\ Len(w) <= TimelineCap /\ Len(w) \in {TimelineCap, (seq + 1) - since}
        BY <1>2, <4>1, <4>2, TimelineStep
      <4> HIDE DEF w
      <4>4. w \in Seq(1..(seq + 1)) /\ w \in Seq(Nat) /\ DOMAIN w = 1..Len(w)
        BY <1>2, <4>3, Consecutive DEF EndsWith
      <4>5. QED
        BY <4>3, <4>4 DEF EndsWith
    <3>3. w \in Seq(Nat)
      BY <3>2 DEF EndsWith
    <3> HIDE DEF w
    <3>4. timeline'[handle] = w /\ timeline' \in [Sessions -> Seq(Nat)]
      BY <2>1, <3>1, <3>3
    <3>5. \A s \in Sessions : s # handle => timeline'[s] = timeline[s]
      BY <2>1, <3>1
    <3>6. LineTypes'
      BY <1>2, <2>1, <2>2, <3>2, <3>4, <3>5 DEF LineTypes
    <3>7. \A s \in Sessions : s > started' => timeline'[s] = <<>>
      <4>1. \A s \in Sessions : s > started => s # handle
        BY <3>1 DEF Sessions
      <4>2. QED
        BY <1>2, <2>1, <3>5, <4>1
    <3>8. QED
      BY <1>2, <3>2, <3>4, <3>6, <3>7
  <2>5. QED
    BY <2>3, <2>4
<1>6. /\ CountTypes' /\ DbTypes' /\ CaptureTypes'
      /\ \A q \in Sessions : Until(meta[q], meta'[q]) /\ meta'[q].bytes = meta[q].bytes
  <2>1. CASE handle = 0
    <3>1. UNCHANGED <<meta, captures, timer, db, started>>
      BY <2>1 DEF Push, runVars
    <3>2. CountTypes'
      <4>1. /\ allowed.events \in Nat \ {0} /\ allowed' \in Allowance
            /\ allowed'.events = allowed.events - 1 /\ allowed'.starts = allowed.starts
        BY AllowedLess DEF Push, DvrInv
      <4>2. \A q \in Sessions : meta[q].n \in Nat /\ meta[q].n + allowed.events <= MaxEvents
        BY <1>1 DEF Parts, CountTypes, Metas
      <4>3. \A q \in Sessions : meta[q].n + allowed'.events <= MaxEvents
        BY <4>1, <4>2, DvrAssumption
      <4>4. QED
        BY <1>1, <3>1, <4>1, <4>3 DEF Parts, CountTypes
    <3>3. QED
      BY <3>1, <3>2, PartsStay, MetasSame
  <2>2. CASE handle # 0
    <3>1. handle \in Sessions
      BY <2>2, HandleIsSession DEF DvrInv
    <3>2. /\ CountTypes' /\ meta'[handle].n \in 1..MaxEvents
          /\ \A q \in Sessions : Until(meta[q], meta'[q]) /\ meta'[q].bytes = meta[q].bytes
      BY <1>2, <2>2, <3>1, CountedStep DEF Push
    <3>3. DbTypes'
      BY <1>1, <2>2, <3>1 DEF Parts, DbTypes, Push, SchedulePersist
    <3>4. captures' \in {captures, [captures EXCEPT ![handle] = @ \cup {meta'[handle].n}]}
      BY <2>2 DEF Push
    <3>5. CaptureTypes'
      BY <1>1, <3>1, <3>2, <3>4, DvrAssumption DEF Parts, CaptureTypes
    <3>6. QED
      BY <3>2, <3>3, <3>5
  <2>3. QED
    BY <2>1, <2>2
<1>7. StateOK'
  BY <1>3, <1>4, <1>5, <1>6, PartsStay, StateParts DEF Parts, Push
<1>8. ListsAligned'
  BY <1>3, <1>5 DEF ListsAligned
<1>9. TxsOK' /\ ChargesOK' /\ MetasInOrder' /\ KeysUsedOnce'
  BY <1>6, <1>7, StoresStand DEF Push, storeVars
<1>10. QED
  BY <1>7, <1>8, <1>9 DEF DvrInv

-----------------------------------------------------------------------------
(***************************************************************************)
(* The database answers.                                                   *)
(***************************************************************************)
LEMMA DeleteStoredStep ==
  ASSUME DvrInv, NEW s \in Sessions, DeleteStored(s)
  PROVE  DvrInv'
<1> DEFINE further == <<ListShots(s, {})>>
<1>1. Parts /\ UNCHANGED <<ringVars, runVars, db, memVars, captures, timer, storeVars>>
  BY PartsStay DEF DeleteStored
<1>2. further \in Seq(Txs) /\ DOMAIN further = {1} /\ further[1].op = "listShots"
  <2>1. ListShots(s, {}) \in Txs /\ ListShots(s, {}).op = "listShots"
    BY DEF ListShots, Txs
  <2>2. QED
    BY <2>1
<1>3. txs' = txs \o further /\ txs \in Seq(Txs)
  BY <1>1 DEF DeleteStored, Issue, Parts
<1>4. \A k \in DOMAIN further :
           /\ further[k].op \in {"putMeta", "listMetas", "listShots"}
           /\ further[k].op = "putMeta" => further[k].meta = meta'[further[k].s]
  BY <1>2
<1> HIDE DEF further
<1>5. txs' \in Seq(Txs)
  BY <1>2, <1>3
<1>6. CountTypes'
  BY <1>1, AllowedLess, PartsStay DEF DeleteStored, DvrInv, memVars, runVars
<1>7. StateOK'
  BY <1>1, <1>5, <1>6, PartsStay, StateParts DEF Parts, ringVars, memVars
<1>8. ListsAligned'
  BY <1>1, ListsStay DEF DvrInv, ringVars, runVars, memVars
<1>9. TxsOK' /\ ChargesOK' /\ MetasInOrder' /\ KeysUsedOnce'
  BY <1>1, <1>2, <1>3, <1>4, <1>7, MetasSame, StoresIssue DEF storeVars, memVars
<1>10. QED
  BY <1>7, <1>8, <1>9 DEF DvrInv

\* What every answer, and every failure, leaves as it is.
QuietStep ==
  /\ UNCHANGED <<ringVars, runVars, db, memVars, captures, timer>>
  /\ allowed' \in Allowance /\ allowed'.events = allowed.events /\ allowed'.starts = allowed.starts

LEMMA QuietTypes ==
  ASSUME DvrInv, QuietStep, txs' \in Seq(Txs), StoreTypes'
  PROVE  StateOK' /\ ListsAligned'
<1>1. CountTypes'
  BY PartsStay DEF QuietStep, memVars, runVars
<1>2. StateOK'
  BY <1>1, PartsStay, StateParts DEF Parts, QuietStep, ringVars, memVars
<1>3. ListsAligned'
  BY ListsStay DEF DvrInv, QuietStep, ringVars, runVars, memVars
<1>4. QED
  BY <1>2, <1>3

\* A transaction ends that stored nothing, and what goes on stores nothing.
LEMMA AnswerStep ==
  ASSUME DvrInv, QuietStep, NEW i \in DOMAIN txs, NEW further \in Seq(Txs), Ended(i, further),
         pics' \subseteq pics, metas' \in [Sessions -> Metas \cup {NoRow}],
         \A s \in Sessions : metas'[s] \in {metas[s], NoRow},
         \A k \in DOMAIN further :
           /\ further[k].op \in {"listShots", "delete"}
           /\ further[k].op = "delete" => \A p \in further[k].found : p[1] = further[k].s
  PROVE  DvrInv'
<1>1. Parts /\ txs \in Seq(Txs)
  BY PartsStay DEF Parts
<1>2. /\ txs' \in Seq(Txs) /\ Carried(Len(txs) - 1, Before(i))
      /\ \A k \in Added(Len(txs) - 1) :
           k - (Len(txs) - 1) \in DOMAIN further /\ txs'[k] = further[k - (Len(txs) - 1)]
  BY <1>1, OthersCarried
<1>3. StoreTypes'
  BY <1>1 DEF Parts, StoreTypes
<1>4. StateOK' /\ ListsAligned'
  BY <1>2, <1>3, QuietTypes
<1>5. UNCHANGED <<shotSeq, meta>>
  BY DEF QuietStep, memVars
<1>6. \A k \in Added(Len(txs) - 1) :
           /\ txs'[k].op \in {"listShots", "delete"}
           /\ txs'[k].op = "delete" => \A p \in txs'[k].found : p[1] = txs'[k].s
  BY <1>2
<1>7. \A k \in Added(Len(txs) - 1) :
           /\ ~Shot(txs'[k])
           /\ txs'[k].op = "putMeta" => txs'[k].meta = meta'[txs'[k].s]
           /\ txs'[k].op = "delete" => \A p \in txs'[k].found : p[1] = txs'[k].s
  BY <1>6 DEF Shot
<1>8. \A s \in Sessions : Until(meta[s], meta'[s]) /\ meta'[s].bytes = meta[s].bytes
  BY <1>5, MetasSame
<1>9. TxsOK' /\ ChargesOK' /\ MetasInOrder' /\ KeysUsedOnce'
  BY <1>2, <1>4, <1>5, <1>7, <1>8, StoresCarry
<1>10. QED
  BY <1>4, <1>9 DEF DvrInv

LEMMA SweepTypes ==
  ASSUME NEW rest \in SUBSET Sessions
  PROVE  /\ Sweep(rest) \in Seq(Txs)
         /\ \A k \in DOMAIN Sweep(rest) : Sweep(rest)[k].op = "listShots"
<1>1. CASE rest = {}
  BY <1>1 DEF Sweep
<1>2. CASE rest # {}
  <2> DEFINE UpTo == {1..n : n \in rest}
  <2>1. MaxSessions \in Nat /\ \A n \in rest : n \in 1..MaxSessions
    BY DvrAssumption DEF Sessions
  <2>2. \E n \in rest : \A m \in rest : n <= m
    <3> DEFINE All == 1..MaxSessions
    <3>1. UpTo \in SUBSET SUBSET All /\ UpTo # {}
      BY <1>2, <2>1
    <3>2. IsFiniteSet(All)
      BY <2>1, FS_Interval
    <3> HIDE DEF UpTo, All
    <3>3. PICK u \in UpTo : \A t \in UpTo : t \subseteq u => t = u
      BY <3>1, <3>2, SmallestSet
    <3>4. PICK n \in rest : u = 1..n
      BY DEF UpTo
    <3>5. ASSUME NEW m \in rest, ~(n <= m) PROVE FALSE
      <4>1. n \in Nat \ {0} /\ m \in Nat /\ m < n
        BY <2>1, <3>5
      <4>2. 1..m \in UpTo
        BY DEF UpTo
      <4>3. 1..m \subseteq 1..n /\ n \in 1..n /\ n \notin 1..m
        BY <4>1
      <4>4. QED
        BY <3>3, <3>4, <4>2, <4>3
    <3>6. QED
      BY <3>5
  <2>3. Min(rest) \in rest
    BY <2>2 DEF Min
  <2> DEFINE tx == ListShots(Min(rest), rest \ {Min(rest)})
  <2>4. tx \in Txs /\ tx.op = "listShots"
    BY <2>3 DEF ListShots, Txs
  <2>5. Sweep(rest) = <<tx>>
    BY <1>2 DEF Sweep
  <2> HIDE DEF tx
  <2>6. <<tx>> \in Seq(Txs) /\ \A k \in DOMAIN <<tx>> : <<tx>>[k] = tx
    BY <2>4
  <2>7. QED
    BY <2>4, <2>5, <2>6
<1>3. QED
  BY <1>1, <1>2

\* The allowance of an answer.
LEMMA QuietAnswer ==
  ASSUME DvrInv
  PROVE  /\ UNCHANGED <<ringVars, runVars, db, memVars, captures, timer, allowed>> => QuietStep
         /\ UNCHANGED <<ringVars, runVars, db, memVars, captures, timer>> /\ Fault => QuietStep
  BY AllowedLess DEF DvrInv, StateOK, QuietStep, Allowance

LEMMA TxType ==
  ASSUME DvrInv, NEW i \in DOMAIN txs
  PROVE  txs[i] \in Txs
  BY DEF DvrInv, StateOK

LEMMA MetasListedStep ==
  ASSUME DvrInv, NEW i \in DOMAIN txs, MetasListed(i)
  PROVE  DvrInv'
<1>1. PICK expired \in SUBSET {s \in Sessions \ {handle} : metas[s] # NoRow /\ metas[s].ended} :
        Ended(i, Sweep(expired))
  BY DEF MetasListed
<1>2. expired \in SUBSET Sessions
  OBVIOUS
<1>3. QuietStep /\ UNCHANGED storeVars
  BY QuietAnswer DEF MetasListed
<1>4. metas' \in [Sessions -> Metas \cup {NoRow}] /\ metas' = metas /\ pics' = pics
  BY <1>3 DEF DvrInv, StateOK, DvrTypeOK, storeVars
<1> DEFINE further == Sweep(expired)
<1>5. further \in Seq(Txs) /\ \A k \in DOMAIN further : further[k].op = "listShots"
  BY <1>2, SweepTypes
<1>6. Ended(i, further)
  BY <1>1
<1> HIDE DEF further
<1>7. QED
  BY <1>3, <1>4, <1>5, <1>6, AnswerStep

LEMMA ShotsListedStep ==
  ASSUME DvrInv, NEW i \in DOMAIN txs, ShotsListed(i)
  PROVE  DvrInv'
<1>1. txs[i].s \in Sessions /\ txs[i].rest \in SUBSET Sessions
  BY TxType DEF ShotsListed, Txs
<1>2. QuietStep /\ UNCHANGED storeVars
  BY QuietAnswer DEF ShotsListed
<1>3. metas' \in [Sessions -> Metas \cup {NoRow}] /\ metas' = metas /\ pics' = pics /\ pics \subseteq Pics
  BY <1>2 DEF DvrInv, StateOK, DvrTypeOK, storeVars, Pics
<1> DEFINE tx == Delete(txs[i].s, PicsOf(txs[i].s), txs[i].rest)
           further == <<tx>>
<1>4. tx \in Txs /\ tx.op = "delete" /\ \A p \in tx.found : p[1] = tx.s
  BY <1>1, <1>3 DEF Delete, Txs, PicsOf
<1>5. Ended(i, further)
  BY DEF ShotsListed
<1> HIDE DEF tx
<1>6. further \in Seq(Txs) /\ \A k \in DOMAIN further : further[k] = tx
  BY <1>4
<1> HIDE DEF further
<1>7. QED
  BY <1>2, <1>3, <1>4, <1>5, <1>6, AnswerStep

LEMMA DeletedStep ==
  ASSUME DvrInv, NEW i \in DOMAIN txs, Deleted(i)
  PROVE  DvrInv'
<1>1. txs[i].s \in Sessions /\ txs[i].rest \in SUBSET Sessions
  BY TxType DEF Deleted, Txs
<1>2. QuietStep
  BY QuietAnswer DEF Deleted
<1>3. /\ metas' \in [Sessions -> Metas \cup {NoRow}] /\ pics' \subseteq pics
      /\ \A s \in Sessions : metas'[s] \in {metas[s], NoRow}
  BY <1>1 DEF DvrInv, StateOK, DvrTypeOK, Deleted
<1> DEFINE further == Sweep(txs[i].rest)
<1>4. further \in Seq(Txs) /\ \A k \in DOMAIN further : further[k].op = "listShots"
  BY <1>1, SweepTypes
<1>5. Ended(i, further)
  BY DEF Deleted
<1> HIDE DEF further
<1>6. QED
  BY <1>2, <1>3, <1>4, <1>5, AnswerStep

LEMMA ShotDroppedStep ==
  ASSUME DvrInv, NEW i \in DOMAIN txs, ShotDropped(i)
  PROVE  DvrInv'
<1>1. QuietStep
  BY QuietAnswer DEF ShotDropped
<1>2. /\ metas' \in [Sessions -> Metas \cup {NoRow}] /\ pics' \subseteq pics /\ metas' = metas
  BY DEF DvrInv, StateOK, DvrTypeOK, ShotDropped
<1>3. Ended(i, <<>>) /\ <<>> \in Seq(Txs) /\ DOMAIN <<>> = {}
  BY DEF ShotDropped
<1>4. QED
  BY <1>1, <1>2, <1>3, AnswerStep

\* With nothing to go on with, the others stand.
LEMMA NoneAdded ==
  ASSUME DvrInv, NEW i \in DOMAIN txs, Ended(i, <<>>)
  PROVE  /\ txs' \in Seq(Txs) /\ Carried(Len(txs) - 1, Before(i)) /\ Added(Len(txs) - 1) = {}
         /\ \A k \in 1..(Len(txs) - 1) : Before(i)[k] # i
<1>1. <<>> \in Seq(Txs) /\ txs \in Seq(Txs) /\ DOMAIN <<>> = {}
  BY DEF DvrInv, StateOK
<1>2. QED
  BY <1>1, OthersCarried

\* Transactions that write the same store are ready one after the other.
LEMMA WritersInTurn ==
  ASSUME DvrInv, NEW i \in DOMAIN txs, Ready(i), NEW j \in DOMAIN txs, j # i,
         ~Reads(txs[i]), Stores(txs[j]) \cap Stores(txs[i]) # {}
  PROVE  i < j
<1>1. i \in 1..Len(txs) /\ j \in 1..Len(txs) /\ Len(txs) \in Nat
  BY DEF DvrInv, StateOK
<1>2. ~(j \in 1..(i - 1))
  BY DEF Ready
<1>3. QED
  BY <1>1, <1>2

\* A meta that is ready to be stored is not older than the stored one, and the
\* first of those under way.
LEMMA MetaReady ==
  ASSUME DvrInv, NEW i \in DOMAIN txs, txs[i].op = "putMeta", Ready(i)
  PROVE  /\ txs[i].s \in Sessions /\ txs[i].meta \in Metas
         /\ metas[txs[i].s] # NoRow => Until(metas[txs[i].s], txs[i].meta)
         /\ \A j \in DOMAIN txs : j # i /\ txs[j].op = "putMeta" => i < j
<1>1. txs[i].s \in Sessions /\ txs[i].meta \in Metas
  BY TxType, PutMetaType
<1>2. metas[txs[i].s] # NoRow => Until(metas[txs[i].s], txs[i].meta)
  BY DEF DvrInv, MetasInOrder
<1>3. ASSUME NEW j \in DOMAIN txs, j # i, txs[j].op = "putMeta"
      PROVE  i < j
  <2>1. Stores(txs[j]) = {"sessions"} /\ Stores(txs[i]) = {"sessions"} /\ ~Reads(txs[i])
    BY <1>3 DEF Stores, Reads
  <2>2. QED
    BY <1>3, <2>1, WritersInTurn
<1>4. QED
  BY <1>1, <1>2, <1>3

LEMMA MetaPutStep ==
  ASSUME DvrInv, NEW i \in DOMAIN txs, MetaPut(i)
  PROVE  DvrInv'
<1> DEFINE s == txs[i].s
           m == txs[i].meta
           n == Len(txs) - 1
<1>1. /\ s \in Sessions /\ m \in Metas /\ \A j \in DOMAIN txs : j # i /\ txs[j].op = "putMeta" => i < j
  BY MetaReady DEF MetaPut
<1>2. QuietStep /\ UNCHANGED <<pics, meta, shotSeq>>
  BY QuietAnswer DEF MetaPut, memVars
<1>3. /\ txs' \in Seq(Txs) /\ Carried(n, Before(i)) /\ Added(n) = {}
      /\ \A k \in 1..n : Before(i)[k] # i
  BY NoneAdded DEF MetaPut
<1>4. metas \in [Sessions -> Metas \cup {NoRow}] /\ pics \subseteq Sessions \X Nat \X ShotSizes /\ meta \in [Sessions -> Metas]
  BY DEF DvrInv, StateOK, DvrTypeOK
<1>5. metas' \in [Sessions -> Metas \cup {NoRow}] /\ metas'[s] = m /\ \A q \in Sessions : q # s => metas'[q] = metas[q]
  BY <1>1, <1>4 DEF MetaPut
<1>6. StateOK' /\ ListsAligned'
  <2>1. StoreTypes'
    BY <1>2, <1>4, <1>5 DEF StoreTypes
  <2>2. QED
    BY <1>2, <1>3, <2>1, QuietTypes
<1>7. TxsOK'
  BY <1>3, TxsCarry DEF DvrInv
<1>8. KeysUsedOnce'
  <2>1. shotSeq' \in [Sessions -> Nat] /\ \A q \in Sessions : shotSeq[q] <= shotSeq'[q]
    <3>1. shotSeq' \in [Sessions -> Nat] /\ shotSeq' = shotSeq
      BY <1>2 DEF DvrInv, StateOK, DvrTypeOK
    <3>2. QED
      BY <3>1
  <2>2. QED
    BY <1>2, <1>3, <2>1, KeysCarry DEF DvrInv
<1>9. ChargesOK'
  <2>1. \A q \in Sessions : Claimed(q)' \subseteq Claimed(q)
    BY <1>2, <1>3, ClaimedCarry
  <2>2. QED
    BY <1>2, <1>4, <2>1, ChargesCarry DEF DvrInv
<1>10. MetasInOrder'
  <2>1. Until(m, meta[s]) /\ \A q \in Sessions : metas[q] # NoRow => Until(metas[q], meta[q])
    BY DEF DvrInv, MetasInOrder, MetaPut
  <2>2. \A q \in Sessions : metas'[q] # NoRow => Until(metas'[q], meta'[q])
    BY <1>2, <1>5, <2>1
  <2>3. ASSUME NEW k \in DOMAIN txs'
        PROVE  /\ Before(i)[k] \in DOMAIN txs /\ txs'[k] = txs[Before(i)[k]] /\ Before(i)[k] # i
               /\ k \in 1..n
    BY <1>3, CarriedOrAdded
  <2>4. ASSUME NEW k \in DOMAIN txs', txs'[k].op = "putMeta"
        PROVE  /\ Until(txs'[k].meta, meta'[txs'[k].s])
               /\ metas'[txs'[k].s] # NoRow => Until(metas'[txs'[k].s], txs'[k].meta)
    <3> DEFINE j == Before(i)[k]
    <3>1. j \in DOMAIN txs /\ txs'[k] = txs[j] /\ j # i /\ txs[j].op = "putMeta" /\ txs[j].s \in Sessions
      BY <2>3, <2>4, TxType, PutMetaType
    <3> HIDE DEF j
    <3>2. Until(txs[j].meta, meta[txs[j].s])
      BY <3>1 DEF DvrInv, MetasInOrder
    <3>3. metas'[txs[j].s] # NoRow => Until(metas'[txs[j].s], txs[j].meta)
      <4>1. CASE txs[j].s = s
        <5>1. i < j /\ txs[i].op = "putMeta"
          BY <1>1, <3>1 DEF MetaPut
        <5>2. Until(m, txs[j].meta)
          BY <3>1, <4>1, <5>1 DEF DvrInv, MetasInOrder
        <5>3. QED
          BY <1>5, <4>1, <5>2
      <4>2. CASE txs[j].s # s
        BY <1>5, <3>1, <4>2 DEF DvrInv, MetasInOrder
      <4>3. QED
        BY <4>1, <4>2
    <3>4. QED
      BY <1>2, <3>1, <3>2, <3>3
  <2>5. ASSUME NEW k \in DOMAIN txs', NEW l \in DOMAIN txs', k < l,
               txs'[k].op = "putMeta", txs'[l].op = "putMeta", txs'[k].s = txs'[l].s
        PROVE  Until(txs'[k].meta, txs'[l].meta)
    <3>1. Before(i)[k] < Before(i)[l]
      BY <1>3, <2>3, <2>5 DEF Carried
    <3>2. QED
      BY <2>3, <2>5, <3>1 DEF DvrInv, MetasInOrder
  <2>6. QED
    BY <2>2, <2>4, <2>5 DEF MetasInOrder
<1>11. QED
  BY <1>6, <1>7, <1>8, <1>9, <1>10 DEF DvrInv

\* The key of a screenshot to be stored is not in use, so that it replaces none,
\* and its session was charged in time, so that the cut to the budget is idle.
LEMMA ShotReady ==
  ASSUME DvrInv, NEW i \in DOMAIN txs, ShotPut(i)
  PROVE  /\ txs[i].s \in Sessions /\ txs[i].pic \in Pics /\ txs[i].pic[1] = txs[i].s
         /\ pics' = pics \cup {txs[i].pic} /\ meta' = meta
<1>1. Shot(txs[i])
  BY DEF Shot, ShotPut
<1>2. txs[i].s \in Sessions /\ txs[i].pic \in Pics /\ txs[i].pic[1] = txs[i].s
  BY <1>1, TxType, ShotType DEF DvrInv, TxsOK
<1>3. \A p \in pics : ~SamePlace(p, txs[i].pic)
  BY <1>1 DEF DvrInv, KeysUsedOnce
<1>4. pics' = pics \cup {txs[i].pic}
  BY <1>3 DEF ShotPut
<1>5. meta \in [Sessions -> Metas] /\ meta[txs[i].s].bytes <= Budget /\ meta[txs[i].s].bytes \in Nat /\ Budget \in Nat
  BY <1>2, DvrAssumption DEF DvrInv, StateOK, DvrTypeOK, ChargesOK, Metas
<1>6. ~(meta[txs[i].s].bytes > Budget)
  BY <1>5
<1>7. meta' = [meta EXCEPT ![txs[i].s].bytes = meta[txs[i].s].bytes]
  BY <1>6 DEF ShotPut
<1>8. meta' = meta
  BY <1>2, <1>5, <1>7 DEF Metas
<1>9. QED
  BY <1>2, <1>4, <1>8

LEMMA ShotPutStep ==
  ASSUME DvrInv, NEW i \in DOMAIN txs, ShotPut(i)
  PROVE  DvrInv'
<1> DEFINE s == txs[i].s
           pic == txs[i].pic
           n == Len(txs) - 1
<1>1. s \in Sessions /\ pic \in Pics /\ pic[1] = s /\ pics' = pics \cup {pic} /\ meta' = meta
  BY ShotReady
<1>2. txs[i].op = "putShot" /\ Shot(txs[i])
  BY DEF ShotPut, Shot
<1>3. QuietStep /\ UNCHANGED <<metas, shotSeq>>
  BY <1>1, QuietAnswer DEF ShotPut, memVars
<1>4. /\ txs' \in Seq(Txs) /\ Carried(n, Before(i)) /\ Added(n) = {}
      /\ \A k \in 1..n : Before(i)[k] # i
  BY NoneAdded DEF ShotPut
<1>5. /\ metas \in [Sessions -> Metas \cup {NoRow}] /\ pics \subseteq Pics
      /\ meta \in [Sessions -> Metas] /\ shotSeq \in [Sessions -> Nat]
  BY DEF DvrInv, StateOK, DvrTypeOK, Pics
<1>6. StateOK' /\ ListsAligned'
  <2>1. StoreTypes'
    BY <1>1, <1>3, <1>5 DEF StoreTypes, Pics
  <2>2. QED
    BY <1>3, <1>4, <2>1, QuietTypes
<1>7. TxsOK'
  BY <1>4, TxsCarry DEF DvrInv
<1>8. MetasInOrder'
  <2>1. \A q \in Sessions : Until(meta[q], meta'[q])
    BY <1>1, MetasSame
  <2>2. meta' \in [Sessions -> Metas] /\ metas' \in [Sessions -> Metas \cup {NoRow}] /\ \A q \in Sessions : metas'[q] \in {metas[q], NoRow}
    BY <1>1, <1>3, <1>5
  <2>3. QED
    BY <1>4, <2>1, <2>2, MetasCarry DEF DvrInv
<1>9. ASSUME NEW k \in DOMAIN txs'
      PROVE  Before(i)[k] \in DOMAIN txs /\ txs'[k] = txs[Before(i)[k]] /\ Before(i)[k] # i /\ k \in 1..n
  BY <1>4, CarriedOrAdded
<1>10. KeysUsedOnce'
  <2>1. \A p \in pics' : p[2] <= shotSeq'[p[1]]
    <3>1. pic[2] <= shotSeq[pic[1]]
      BY <1>1, <1>2 DEF DvrInv, KeysUsedOnce
    <3>2. QED
      BY <1>1, <1>3, <3>1 DEF DvrInv, KeysUsedOnce
  <2>2. ASSUME NEW k \in DOMAIN txs', Shot(txs'[k])
        PROVE  /\ txs'[k].pic[2] <= shotSeq'[txs'[k].s]
               /\ \A p \in pics' : ~SamePlace(p, txs'[k].pic)
    <3> DEFINE j == Before(i)[k]
    <3>1. j \in DOMAIN txs /\ txs'[k] = txs[j] /\ j # i /\ Shot(txs[j])
      BY <1>9, <2>2
    <3> HIDE DEF j
    <3>2. txs[j].pic[2] <= shotSeq[txs[j].s] /\ (\A p \in pics : ~SamePlace(p, txs[j].pic)) /\ ~SamePlace(pic, txs[j].pic)
      BY <1>2, <3>1 DEF DvrInv, KeysUsedOnce
    <3>3. QED
      BY <1>1, <1>3, <3>1, <3>2
  <2>3. ASSUME NEW k \in DOMAIN txs', Shot(txs'[k]), NEW l \in DOMAIN txs', k # l, Shot(txs'[l])
        PROVE  ~SamePlace(txs'[l].pic, txs'[k].pic)
    <3>1. Before(i)[k] # Before(i)[l]
      BY <1>9, <2>3 DEF Before
    <3>2. QED
      BY <1>9, <2>3, <3>1 DEF DvrInv, KeysUsedOnce
  <2>4. QED
    BY <2>1, <2>2, <2>3 DEF KeysUsedOnce, Shot, SamePlace
<1>11. ChargesOK'
  <2>1. IsFiniteSet(pics')
    BY <1>1, FS_AddElement DEF DvrInv, ChargesOK
  <2>2. ASSUME NEW q \in Sessions, NEW p \in Claimed(q)' PROVE p \in Claimed(q)
    <3>1. CASE p \in PicsOf(q)'
      <4>1. p[1] = q /\ (p \in pics \/ p = pic)
        BY <1>1, <3>1 DEF PicsOf
      <4>2. QED
        BY <1>1, <1>2, <4>1 DEF Claimed, PicsOf
    <3>2. CASE \E k \in DOMAIN txs' : txs'[k].op = "putShot" /\ txs'[k].s = q /\ p = txs'[k].pic
      <4>1. PICK k \in DOMAIN txs' : txs'[k].op = "putShot" /\ txs'[k].s = q /\ p = txs'[k].pic
        BY <3>2
      <4>2. Before(i)[k] \in DOMAIN txs /\ txs'[k] = txs[Before(i)[k]]
        BY <1>9
      <4>3. QED
        BY <4>1, <4>2 DEF Claimed
    <3>3. QED
      BY <2>2, <3>1, <3>2 DEF Claimed
  <2>3. QED
    BY <1>1, <1>5, <2>1, <2>2, ChargesCarry DEF DvrInv
<1>12. QED
  BY <1>6, <1>7, <1>8, <1>10, <1>11 DEF DvrInv

\* A screenshot that found no room is dropped: its key passes to the drop.
LEMMA ShotRefusedStep ==
  ASSUME DvrInv, QuietStep, UNCHANGED storeVars, NEW i \in DOMAIN txs, txs[i].op = "putShot",
         Ended(i, <<DropShot(txs[i].s, txs[i].pic)>>)
  PROVE  DvrInv'
<1> DEFINE s == txs[i].s
           pic == txs[i].pic
           tx == DropShot(s, pic)
           n == Len(txs) - 1
<1>1. Shot(txs[i]) /\ s \in Sessions /\ pic \in Pics /\ pic[1] = s /\ pic[2] <= shotSeq[s]
  <2>1. Shot(txs[i])
    BY DEF Shot
  <2>2. QED
    BY <2>1, TxType, ShotType DEF DvrInv, TxsOK, KeysUsedOnce
<1>2. tx \in Txs /\ tx.op = "dropShot" /\ tx.s = s /\ tx.pic = pic
  BY <1>1 DEF DropShot, Txs
<1>3. UNCHANGED <<meta, shotSeq, metas, pics>>
  BY DEF QuietStep, memVars, storeVars
<1>4. Ended(i, <<tx>>)
  OBVIOUS
<1> HIDE DEF tx
<1>5. <<tx>> \in Seq(Txs) /\ \A k \in DOMAIN <<tx>> : k = 1 /\ <<tx>>[k] = tx
  BY <1>2
<1>6. txs \in Seq(Txs)
  BY DEF DvrInv, StateOK
<1>7. /\ txs' \in Seq(Txs) /\ Carried(n, Before(i)) /\ \A k \in 1..n : Before(i)[k] # i
      /\ \A k \in Added(n) : k - n = 1 /\ txs'[k] = tx
  BY <1>4, <1>5, <1>6, OthersCarried, ZenonT(60)
<1>8. /\ metas \in [Sessions -> Metas \cup {NoRow}] /\ meta \in [Sessions -> Metas]
      /\ shotSeq \in [Sessions -> Nat]
  BY DEF DvrInv, StateOK, DvrTypeOK
<1>9. StateOK' /\ ListsAligned'
  <2>1. StoreTypes'
    BY PartsStay
  <2>2. QED
    BY <1>7, <2>1, QuietTypes
<1>10. TxsOK'
  <2>1. \A k \in Added(n) :
           /\ Shot(txs'[k]) => txs'[k].pic[1] = txs'[k].s
           /\ txs'[k].op = "delete" => \A p \in txs'[k].found : p[1] = txs'[k].s
    BY <1>1, <1>2, <1>7
  <2>2. QED
    BY <1>7, <2>1, TxsCarry DEF DvrInv
<1>11. MetasInOrder'
  <2>1. \A q \in Sessions : Until(meta[q], meta'[q])
    BY <1>3, MetasSame
  <2>2. \A k \in Added(n) : txs'[k].op = "putMeta" => txs'[k].meta = meta'[txs'[k].s]
    BY <1>2, <1>7
  <2>3. meta' \in [Sessions -> Metas] /\ metas' \in [Sessions -> Metas \cup {NoRow}] /\ \A q \in Sessions : metas'[q] \in {metas[q], NoRow}
    BY <1>3, <1>8
  <2>4. QED
    BY <1>7, <2>1, <2>2, <2>3, MetasCarry DEF DvrInv
<1>12. ChargesOK'
  <2>1. \A k \in Added(n) : txs'[k].op # "putShot"
    BY <1>2, <1>7
  <2>2. \A q \in Sessions : Claimed(q)' \subseteq Claimed(q)
    BY <1>3, <1>7, <2>1, ClaimedCarry
  <2>3. QED
    BY <1>3, <1>8, <2>2, ChargesCarry DEF DvrInv
<1>13. ASSUME NEW k \in DOMAIN txs', Shot(txs'[k])
       PROVE  \E j \in DOMAIN txs :
                /\ Shot(txs[j]) /\ txs'[k].pic = txs[j].pic /\ txs'[k].s = txs[j].s
                /\ j = IF k \in 1..n THEN Before(i)[k] ELSE i
                /\ k \in 1..n \/ k = n + 1
  <2>1. CASE k \in 1..n /\ Before(i)[k] \in DOMAIN txs /\ txs'[k] = txs[Before(i)[k]]
    BY <1>13, <2>1
  <2>2. CASE k \in Added(n)
    <3>1. k - n = 1 /\ txs'[k] = tx /\ k \in Nat /\ n \in Nat
      BY <1>7, <2>2, <1>6 DEF Added, Carried
    <3>2. k = n + 1 /\ ~(k \in 1..n)
      BY <3>1
    <3>3. QED
      BY <1>1, <1>2, <3>1, <3>2
  <2>3. QED
    BY <1>7, <2>1, <2>2, CarriedOrAdded
<1>14. KeysUsedOnce'
  <2>1. \A p \in pics' : p[2] <= shotSeq'[p[1]]
    BY <1>3 DEF DvrInv, KeysUsedOnce
  <2>2. ASSUME NEW k \in DOMAIN txs', Shot(txs'[k])
        PROVE  /\ txs'[k].pic[2] <= shotSeq'[txs'[k].s]
               /\ \A p \in pics' : ~SamePlace(p, txs'[k].pic)
    <3>1. PICK j \in DOMAIN txs : Shot(txs[j]) /\ txs'[k].pic = txs[j].pic /\ txs'[k].s = txs[j].s
      BY <1>13, <2>2
    <3>2. QED
      BY <1>3, <3>1 DEF DvrInv, KeysUsedOnce
  <2>3. ASSUME NEW k \in DOMAIN txs', Shot(txs'[k]), NEW l \in DOMAIN txs', k # l, Shot(txs'[l])
        PROVE  ~SamePlace(txs'[l].pic, txs'[k].pic)
    <3>1. PICK j \in DOMAIN txs : /\ Shot(txs[j]) /\ txs'[k].pic = txs[j].pic
                                  /\ j = IF k \in 1..n THEN Before(i)[k] ELSE i
                                  /\ k \in 1..n \/ k = n + 1
      BY <1>13, <2>3
    <3>2. PICK m \in DOMAIN txs : /\ Shot(txs[m]) /\ txs'[l].pic = txs[m].pic
                                  /\ m = IF l \in 1..n THEN Before(i)[l] ELSE i
                                  /\ l \in 1..n \/ l = n + 1
      BY <1>13, <2>3
    <3>3. j # m
      <4>1. CASE k \in 1..n /\ l \in 1..n
        <5>1. j = Before(i)[k] /\ m = Before(i)[l] /\ (k < l \/ l < k)
          BY <2>3, <3>1, <3>2, <4>1
        <5>2. j < m \/ m < j
          BY <1>7, <4>1, <5>1 DEF Carried
        <5>3. j \in 1..Len(txs) /\ m \in 1..Len(txs) /\ Len(txs) \in Nat
          BY <1>6, <3>1, <3>2
        <5>4. QED
          BY <5>2, <5>3
      <4>2. CASE k \in 1..n /\ ~(l \in 1..n)
        BY <1>7, <3>1, <3>2, <4>2
      <4>3. CASE ~(k \in 1..n) /\ l \in 1..n
        BY <1>7, <3>1, <3>2, <4>3
      <4>4. CASE ~(k \in 1..n) /\ ~(l \in 1..n)
        BY <2>3, <3>1, <3>2, <4>4
      <4>5. QED
        BY <4>1, <4>2, <4>3, <4>4
    <3>4. QED
      BY <3>1, <3>2, <3>3 DEF DvrInv, KeysUsedOnce
  <2>4. QED
    BY <2>1, <2>2, <2>3 DEF KeysUsedOnce, Shot, SamePlace
<1>15. QED
  BY <1>9, <1>10, <1>11, <1>12, <1>14 DEF DvrInv

LEMMA TxFailsStep ==
  ASSUME DvrInv, NEW i \in DOMAIN txs, TxFails(i)
  PROVE  DvrInv'
<1>1. QuietStep /\ UNCHANGED storeVars
  BY QuietAnswer DEF TxFails
<1>2. /\ metas' \in [Sessions -> Metas \cup {NoRow}] /\ metas' = metas
      /\ pics' \subseteq pics /\ \A s \in Sessions : metas'[s] \in {metas[s], NoRow}
  BY <1>1 DEF DvrInv, StateOK, DvrTypeOK, storeVars
<1>3. CASE Ended(i, <<>>)
  <2>1. <<>> \in Seq(Txs) /\ DOMAIN <<>> = {}
    OBVIOUS
  <2>2. QED
    BY <1>1, <1>2, <1>3, <2>1, AnswerStep
<1>4. CASE Ended(i, AfterFailure(txs[i]))
  <2>1. CASE txs[i].op = "putShot" /\ meta[txs[i].s].bytes + txs[i].pic[3] > Budget
    <3>1. AfterFailure(txs[i]) = <<DropShot(txs[i].s, txs[i].pic)>>
      BY <2>1 DEF AfterFailure
    <3>2. QED
      BY <1>1, <1>4, <2>1, <3>1, ShotRefusedStep
  <2>2. CASE txs[i].op = "putShot" /\ ~(meta[txs[i].s].bytes + txs[i].pic[3] > Budget)
    <3>1. AfterFailure(txs[i]) = <<>>
      BY <2>2 DEF AfterFailure
    <3>2. QED
      BY <1>3, <1>4, <3>1
  <2>3. CASE txs[i].op = "listShots"
    <3> DEFINE tx == Delete(txs[i].s, {}, txs[i].rest)
    <3>1. AfterFailure(txs[i]) = <<tx>>
      BY <2>3 DEF AfterFailure
    <3>2. tx \in Txs /\ tx.op = "delete" /\ tx.found = {}
      <4>1. txs[i].s \in Sessions /\ txs[i].rest \in SUBSET Sessions
        BY <2>3, TxType DEF Txs
      <4>2. QED
        BY <4>1 DEF Delete, Txs
    <3> HIDE DEF tx
    <3> DEFINE further == <<tx>>
    <3>3. further \in Seq(Txs) /\ \A k \in DOMAIN further : further[k] = tx
      BY <3>2
    <3>4. Ended(i, further)
      BY <1>4, <3>1
    <3> HIDE DEF further
    <3>5. QED
      BY <1>1, <1>2, <3>2, <3>3, <3>4, AnswerStep
  <2>4. CASE txs[i].op = "delete"
    <3> DEFINE further == Sweep(txs[i].rest)
    <3>1. AfterFailure(txs[i]) = further
      BY <2>4 DEF AfterFailure
    <3>2. txs[i].rest \in SUBSET Sessions
      BY <2>4, TxType DEF Txs
    <3>3. further \in Seq(Txs) /\ \A k \in DOMAIN further : further[k].op = "listShots"
      BY <3>2, SweepTypes
    <3>4. Ended(i, further)
      BY <1>4, <3>1
    <3> HIDE DEF further
    <3>5. QED
      BY <1>1, <1>2, <3>3, <3>4, AnswerStep
  <2>5. CASE txs[i].op \notin {"putShot", "listShots", "delete"}
    <3>1. AfterFailure(txs[i]) = <<>>
      BY <2>5 DEF AfterFailure
    <3>2. QED
      BY <1>3, <1>4, <3>1
  <2>6. QED
    BY <2>1, <2>2, <2>3, <2>4, <2>5
<1>5. QED
  BY <1>3, <1>4 DEF TxFails

-----------------------------------------------------------------------------
(***************************************************************************)
(* A screenshot is taken.                                                  *)
(***************************************************************************)
\* The key is taken and no more: the picture does not fit.
LEMMA CaptureSkipped ==
  ASSUME DvrInv, NEW s \in Sessions, Captured(s), UNCHANGED <<meta, shots, timer, txs>>
  PROVE  DvrInv'
<1>1. PICK atClick : /\ captures' = [captures EXCEPT ![s] = @ \ {atClick}]
                     /\ shotSeq' = [shotSeq EXCEPT ![s] = @ + 1]
                     /\ UNCHANGED <<ringVars, runVars, db, timeline, storeVars, failures, allowed>>
  BY DEF Captured
<1>2. Parts
  BY PartsStay
<1>3. CaptureTypes'
  BY <1>1, <1>2 DEF Parts, CaptureTypes
<1>4. shotSeq' \in [Sessions -> Nat] /\ \A q \in Sessions : shotSeq[q] <= shotSeq'[q]
  BY <1>1, <1>2 DEF Parts, ShotTypes
<1>5. ShotTypes'
  BY <1>2, <1>4 DEF Parts, ShotTypes
<1>6. CountTypes'
  BY <1>1, <1>2 DEF Parts, CountTypes, runVars
<1>7. StateOK'
  BY <1>1, <1>3, <1>5, <1>6, PartsStay, StateParts DEF Parts, ringVars
<1>8. ListsAligned'
  BY <1>1, ListsStay DEF DvrInv, ringVars, runVars
<1>9. /\ txs' \in Seq(Txs) /\ Carried(Len(txs), [k \in 1..Len(txs) |-> k]) /\ Added(Len(txs)) = {}
  <2>1. <<>> \in Seq(Txs) /\ txs \in Seq(Txs) /\ DOMAIN <<>> = {}
    BY <1>2 DEF Parts
  <2>2. txs' = txs \o <<>>
    BY <2>1
  <2>3. QED
    BY <2>1, <2>2, AllCarried
<1>10. /\ meta' \in [Sessions -> Metas] /\ metas' \in [Sessions -> Metas \cup {NoRow}]
       /\ pics' \subseteq pics /\ metas' = metas /\ meta' = meta
  BY <1>1, <1>2 DEF Parts, CountTypes, StoreTypes, storeVars
<1>11. TxsOK'
  BY <1>9, TxsCarry DEF DvrInv
<1>12. KeysUsedOnce'
  BY <1>4, <1>9, <1>10, KeysCarry DEF DvrInv
<1>13. MetasInOrder'
  BY <1>9, <1>10, MetasSame, MetasCarry DEF DvrInv
<1>14. ChargesOK'
  <2>1. \A q \in Sessions : Claimed(q)' \subseteq Claimed(q)
    BY <1>9, <1>10, ClaimedCarry
  <2>2. QED
    BY <1>10, <2>1, ChargesCarry DEF DvrInv
<1>15. QED
  BY <1>7, <1>8, <1>11, <1>12, <1>13, <1>14 DEF DvrInv

LEMMA CaptureKept ==
  ASSUME DvrInv, NEW s \in Sessions, Captured(s), NEW b \in ShotSizes, SessionBudgetOk(s, b),
         shotSeq' = [shotSeq EXCEPT ![s] = @ + 1],
         shots' = [shots EXCEPT ![s] = Newest(Append(@, NextKey(s)), ShotCap)],
         meta' = [meta EXCEPT ![s] = Charged(s, b)],
         SchedulePersist(s),
         Issue(IF db[s] = "open" THEN <<PutShot(s, <<s, NextKey(s), b>>)>> ELSE <<>>)
  PROVE  DvrInv'
<1> DEFINE pic == <<s, NextKey(s), b>>
           tx == PutShot(s, pic)
           further == IF db[s] = "open" THEN <<tx>> ELSE <<>>
           n == Len(txs)
           at == [k \in 1..n |-> k]
<1>1. PICK atClick : /\ captures' = [captures EXCEPT ![s] = @ \ {atClick}]
                     /\ UNCHANGED <<ringVars, runVars, db, timeline, storeVars, failures, allowed>>
  BY DEF Captured
<1>2. Parts
  BY PartsStay
<1>3. CaptureTypes'
  BY <1>1, <1>2 DEF Parts, CaptureTypes
<1>4. /\ shotSeq \in [Sessions -> Nat] /\ shotSeq[s] \in Nat /\ NextKey(s) = shotSeq[s] + 1 /\ NextKey(s) \in Nat
      /\ shotSeq' \in [Sessions -> Nat] /\ shotSeq'[s] = NextKey(s)
      /\ \A q \in Sessions : shotSeq[q] <= shotSeq'[q]
  BY <1>2 DEF Parts, ShotTypes, NextKey
<1>5. ShotTypes'
  <2> DEFINE l == Newest(Append(shots[s], NextKey(s)), ShotCap)
  <2>1. /\ shots \in [Sessions -> Seq(Nat)] /\ shots[s] \in Seq(Nat)
        /\ \A q \in Sessions : Len(shots[q]) <= ShotCap
    BY <1>2 DEF Parts, ShotTypes
  <2>2. Append(shots[s], NextKey(s)) \in Seq(Nat) /\ ShotCap \in Nat
    BY <1>4, <2>1, DvrAssumption
  <2>3. l \in Seq(Nat) /\ Len(l) <= ShotCap
    BY <2>2, NewestKeeps
  <2> HIDE DEF l
  <2>4. shots' = [shots EXCEPT ![s] = l]
    BY DEF l
  <2>5. QED
    BY <1>4, <2>1, <2>3, <2>4 DEF ShotTypes
<1>6. /\ meta \in [Sessions -> Metas] /\ meta[s].bytes \in Nat /\ b \in Nat /\ meta[s].bytes + b <= Budget
      /\ Budget \in Nat
  BY <1>2, DvrAssumption DEF Parts, CountTypes, Metas, SessionBudgetOk
<1>7. /\ meta' \in [Sessions -> Metas] /\ meta'[s].bytes = meta[s].bytes + b
      /\ \A q \in Sessions : q # s => meta'[q] = meta[q]
      /\ \A q \in Sessions : meta'[q].n = meta[q].n
      /\ \A q \in Sessions : Until(meta[q], meta'[q])
  <2>1. meta'[s] = [meta[s] EXCEPT !.bytes = @ + b] /\ \A q \in Sessions : q # s => meta'[q] = meta[q]
    BY <1>6 DEF Charged
  <2>2. meta'[s] \in Metas /\ meta'[s].bytes = meta[s].bytes + b /\ meta'[s].n = meta[s].n /\ Until(meta[s], meta'[s])
    BY <1>6, <2>1, SMTT(60) DEF Metas, Until
  <2>3. meta' \in [Sessions -> Metas]
    BY <1>6, <2>1, <2>2
  <2>4. \A q \in Sessions : meta[q] \in Metas /\ Until(meta[q], meta[q])
    BY <1>6, UntilSelf
  <2>5. QED
    BY <2>1, <2>2, <2>3, <2>4
<1>8. CountTypes'
  BY <1>1, <1>2, <1>7 DEF Parts, CountTypes, runVars
<1>9. DbTypes'
  BY <1>1, <1>2 DEF Parts, DbTypes, SchedulePersist
<1>10. pic \in Pics /\ pic[1] = s /\ pic[2] = NextKey(s) /\ pic[3] = b
  BY <1>4 DEF Pics
<1> HIDE DEF pic
<1>11. tx \in Txs /\ tx.op = "putShot" /\ tx.s = s /\ tx.pic = pic
  BY <1>10 DEF PutShot, Txs
<1>12. txs' = txs \o further
  BY DEF Issue, pic
<1> HIDE DEF tx
<1>13. further \in Seq(Txs) /\ \A k \in DOMAIN further : k = 1 /\ further[k] = tx
  <2>1. <<tx>> \in Seq(Txs) /\ \A k \in DOMAIN <<tx>> : k = 1 /\ <<tx>>[k] = tx
    BY <1>11
  <2>2. <<>> \in Seq(Txs) /\ DOMAIN <<>> = {}
    OBVIOUS
  <2>3. QED
    BY <2>1, <2>2
<1> HIDE DEF further
<1>14. txs \in Seq(Txs) /\ n \in Nat
  BY <1>2 DEF Parts
<1>15. /\ txs' \in Seq(Txs) /\ Carried(n, at)
       /\ \A k \in Added(n) : k - n = 1 /\ txs'[k] = tx
  BY <1>12, <1>13, <1>14, AllCarried
<1>16. StateOK'
  BY <1>1, <1>3, <1>5, <1>8, <1>9, <1>15, PartsStay, StateParts DEF Parts, ringVars
<1>17. ListsAligned'
  BY <1>1, ListsStay DEF DvrInv, ringVars, runVars
<1>18. TxsOK'
  <2>1. \A k \in Added(n) :
           /\ Shot(txs'[k]) => txs'[k].pic[1] = txs'[k].s
           /\ txs'[k].op = "delete" => \A p \in txs'[k].found : p[1] = txs'[k].s
    BY <1>10, <1>11, <1>15
  <2>2. QED
    BY <1>15, <2>1, TxsCarry DEF DvrInv
<1>19. pics' = pics /\ metas' = metas /\ metas' \in [Sessions -> Metas \cup {NoRow}] /\ pics \subseteq Pics
  BY <1>1, <1>2 DEF Parts, StoreTypes, storeVars, Pics
<1>20. MetasInOrder'
  <2>1. \A k \in Added(n) : txs'[k].op = "putMeta" => txs'[k].meta = meta'[txs'[k].s]
    BY <1>11, <1>15
  <2>2. QED
    BY <1>7, <1>15, <1>19, <2>1, MetasCarry DEF DvrInv
<1>21. ASSUME NEW k \in DOMAIN txs'
       PROVE  \/ k \in 1..n /\ k \in DOMAIN txs /\ txs'[k] = txs[k]
              \/ k = n + 1 /\ txs'[k] = tx
  <2>1. CASE k \in 1..n /\ at[k] \in DOMAIN txs /\ txs'[k] = txs[at[k]]
    BY <2>1
  <2>2. CASE k \in Added(n)
    <3>1. k \in Nat
      BY <1>15, <2>2 DEF Added
    <3>2. QED
      BY <1>14, <1>15, <2>2, <3>1
  <2> HIDE DEF at
  <2>3. QED
    BY <1>15, <2>1, <2>2, CarriedOrAdded
<1>22. \A p \in pics : ~SamePlace(p, pic)
  <2>1. SUFFICES ASSUME NEW p \in pics, p[1] = s PROVE p[2] # NextKey(s)
    BY <1>10 DEF SamePlace
  <2>2. p[2] <= shotSeq[s] /\ p[2] \in Nat
    BY <1>19, <2>1 DEF DvrInv, KeysUsedOnce, Pics
  <2>3. QED
    BY <1>4, <2>2
<1>23. \A j \in DOMAIN txs : Shot(txs[j]) => ~SamePlace(txs[j].pic, pic)
  <2>1. SUFFICES ASSUME NEW j \in DOMAIN txs, Shot(txs[j]), txs[j].pic[1] = s PROVE txs[j].pic[2] # NextKey(s)
    BY <1>10 DEF SamePlace
  <2>2. txs[j].pic[2] <= shotSeq[s] /\ txs[j].pic[2] \in Nat
    <3>1. txs[j].s = s /\ txs[j].pic \in Pics
      BY <2>1, TxType, ShotType DEF DvrInv, TxsOK
    <3>2. QED
      BY <2>1, <3>1 DEF DvrInv, KeysUsedOnce, Pics
  <2>3. QED
    BY <1>4, <2>2
<1>24. KeysUsedOnce'
  <2>1. \A p \in pics' : p[2] <= shotSeq'[p[1]]
    <3>1. SUFFICES ASSUME NEW p \in pics PROVE p[2] <= shotSeq'[p[1]]
      BY <1>19
    <3>2. p[2] <= shotSeq[p[1]] /\ p[1] \in Sessions /\ p[2] \in Nat
      BY <1>19 DEF DvrInv, KeysUsedOnce, Pics
    <3>3. shotSeq[p[1]] \in Nat /\ shotSeq'[p[1]] \in Nat /\ shotSeq[p[1]] <= shotSeq'[p[1]]
      BY <1>4, <3>2
    <3>4. QED
      BY <3>2, <3>3
  <2>2. ASSUME NEW k \in DOMAIN txs', Shot(txs'[k])
        PROVE  /\ txs'[k].pic[2] <= shotSeq'[txs'[k].s]
               /\ \A p \in pics' : ~SamePlace(p, txs'[k].pic)
    <3>1. CASE k \in DOMAIN txs /\ txs'[k] = txs[k]
      <4>1. /\ txs[k].s \in Sessions /\ txs[k].pic[2] \in Nat /\ txs[k].pic[2] <= shotSeq[txs[k].s]
            /\ \A p \in pics : ~SamePlace(p, txs[k].pic)
        BY <2>2, <3>1, TxType, ShotType DEF DvrInv, KeysUsedOnce, Pics
      <4>2. shotSeq[txs[k].s] \in Nat /\ shotSeq'[txs[k].s] \in Nat /\ shotSeq[txs[k].s] <= shotSeq'[txs[k].s]
        BY <1>4, <4>1
      <4>3. QED
        BY <1>19, <3>1, <4>1, <4>2
    <3>2. CASE txs'[k] = tx
      BY <1>4, <1>10, <1>11, <1>19, <1>22, <3>2
    <3>3. QED
      BY <1>21, <3>1, <3>2
  <2>3. ASSUME NEW k \in DOMAIN txs', Shot(txs'[k]), NEW l \in DOMAIN txs', k # l, Shot(txs'[l])
        PROVE  ~SamePlace(txs'[l].pic, txs'[k].pic)
    <3>1. CASE k \in DOMAIN txs /\ txs'[k] = txs[k] /\ l \in DOMAIN txs /\ txs'[l] = txs[l]
      BY <2>3, <3>1 DEF DvrInv, KeysUsedOnce
    <3>2. CASE txs'[k] = tx /\ l \in DOMAIN txs /\ txs'[l] = txs[l]
      BY <1>11, <1>23, <2>3, <3>2
    <3>3. CASE k \in DOMAIN txs /\ txs'[k] = txs[k] /\ txs'[l] = tx
      BY <1>11, <1>23, <2>3, <3>3 DEF SamePlace
    <3>4. CASE k = n + 1 /\ l = n + 1
      BY <2>3, <3>4
    <3>5. QED
      BY <1>21, <3>1, <3>2, <3>3, <3>4
  <2>4. QED
    BY <2>1, <2>2, <2>3 DEF KeysUsedOnce, Shot, SamePlace
<1>25. ASSUME NEW q \in Sessions
       PROVE  Claimed(q)' \subseteq IF q = s THEN Claimed(q) \cup {pic} ELSE Claimed(q)
  <2>1. SUFFICES ASSUME NEW p \in Claimed(q)' PROVE p \in Claimed(q) \/ (q = s /\ p = pic)
    OBVIOUS
  <2>2. CASE p \in PicsOf(q)'
    BY <1>19, <2>2 DEF PicsOf, Claimed
  <2>3. CASE \E k \in DOMAIN txs' : txs'[k].op = "putShot" /\ txs'[k].s = q /\ p = txs'[k].pic
    <3>1. PICK k \in DOMAIN txs' : txs'[k].op = "putShot" /\ txs'[k].s = q /\ p = txs'[k].pic
      BY <2>3
    <3>2. CASE k \in DOMAIN txs /\ txs'[k] = txs[k]
      BY <3>1, <3>2 DEF Claimed
    <3>3. CASE txs'[k] = tx
      BY <1>11, <3>1, <3>3
    <3>4. QED
      BY <1>21, <3>2, <3>3
  <2>4. QED
    BY <2>1, <2>2, <2>3 DEF Claimed
<1>26. ChargesOK'
  <2>1. IsFiniteSet(pics')
    BY <1>19 DEF DvrInv, ChargesOK
  <2>2. ASSUME NEW q \in Sessions
        PROVE  Bytes(Claimed(q))' <= meta'[q].bytes /\ meta'[q].bytes <= Budget
    <3> DEFINE C == Claimed(q)
               X == IF q = s THEN C \cup {pic} ELSE C
               D == Claimed(q)'
    <3>1. IsFiniteSet(C) /\ C \subseteq Pics
      BY <1>14, <1>19, ClaimedFinite DEF DvrInv, ChargesOK
    <3>2. Bytes(C) <= meta[q].bytes /\ meta[q].bytes <= Budget /\ meta[q].bytes \in Nat /\ Bytes(C) \in Nat
      <4>1. Bytes(C) <= meta[q].bytes /\ meta[q].bytes <= Budget
        BY DEF DvrInv, ChargesOK
      <4>2. meta[q].bytes \in Nat
        BY <1>6 DEF Metas
      <4>3. QED
        BY <3>1, <4>1, <4>2, BytesType, PicSize
    <3>3. D \subseteq X
      BY <1>25
    <3>4. Bytes(Claimed(q))' = Bytes(D)
      BY Zenon DEF Bytes, MapThenSumSet, MapThenFoldSet
    <3> HIDE DEF C, D
    <3>5. IsFiniteSet(X) /\ X \subseteq Pics
      BY <1>10, <3>1, FS_AddElement
    <3>6. IsFiniteSet(D) /\ D \subseteq Pics
      BY <3>3, <3>5, FS_Subset
    <3>7. Bytes(D) <= Bytes(X) /\ Bytes(D) \in Nat /\ Bytes(X) \in Nat
      BY <3>3, <3>5, <3>6, BytesOfMore, BytesType, PicSize
    <3>8. CASE q = s
      <4>1. pic \in X /\ X \ {pic} \subseteq C
        BY <3>8
      <4>2. Bytes(X) = b + Bytes(X \ {pic})
        BY <1>10, <3>5, <4>1, BytesWithout, PicSize
      <4>3. IsFiniteSet(X \ {pic}) /\ Bytes(X \ {pic}) <= Bytes(C) /\ Bytes(X \ {pic}) \in Nat
        BY <3>1, <4>1, FS_Subset, BytesOfMore, BytesType, PicSize
      <4>4. Bytes(X) <= meta'[q].bytes /\ meta'[q].bytes <= Budget
        BY <1>6, <1>7, <3>2, <3>7, <3>8, <4>2, <4>3
      <4>5. meta'[q].bytes \in Nat
        BY <1>6, <1>7, <3>8
      <4> HIDE DEF X
      <4>6. QED
        BY <3>4, <3>7, <4>4, <4>5
    <3>9. CASE q # s
      <4>1. X = C /\ meta'[q] = meta[q]
        BY <1>7, <3>9
      <4> HIDE DEF X
      <4>2. Bytes(D) <= Bytes(C) /\ Bytes(D) \in Nat
        BY <3>7, <4>1
      <4>3. QED
        BY <3>2, <3>4, <4>1, <4>2
    <3>10. QED
      BY <3>8, <3>9
  <2>3. QED
    BY <2>1, <2>2 DEF ChargesOK
<1>27. QED
  BY <1>16, <1>17, <1>18, <1>20, <1>24, <1>26 DEF DvrInv

LEMMA CapturedStep ==
  ASSUME DvrInv, NEW s \in Sessions, Captured(s)
  PROVE  DvrInv'
<1>1. PICK atClick \in captures[s], b \in ShotSizes :
        /\ shotSeq' = [shotSeq EXCEPT ![s] = @ + 1]
        /\ IF ~SessionBudgetOk(s, b)
           THEN UNCHANGED <<meta, shots, timer, txs>>
           ELSE /\ shots' = [shots EXCEPT ![s] = Newest(Append(@, NextKey(s)), ShotCap)]
                /\ meta' = [meta EXCEPT ![s] = Charged(s, b)]
                /\ SchedulePersist(s)
                /\ Issue(IF db[s] = "open" THEN <<PutShot(s, <<s, NextKey(s), b>>)>> ELSE <<>>)
  BY DEF Captured
<1>2. CASE ~SessionBudgetOk(s, b)
  BY <1>1, <1>2, CaptureSkipped
<1>3. CASE SessionBudgetOk(s, b)
  BY <1>1, <1>3, CaptureKept
<1>4. QED
  BY <1>2, <1>3

-----------------------------------------------------------------------------
(***************************************************************************)
(* The invariant, and what follows from it.                                *)
(***************************************************************************)
LEMMA DvrStarts ==
  ASSUME DvrInit
  PROVE  DvrInv
<1>1. /\ <<>> \in Seq(Txs) /\ <<>> \in Seq(Nat) /\ (\A n : <<>> \in Seq(1..n))
      /\ Len(<<>>) = 0 /\ DOMAIN <<>> = {}
  OBVIOUS
<1>2. NewMeta \in Metas /\ NewMeta.n = 0 /\ NewMeta.bytes = 0
  BY DEF NewMeta, Metas
<1>3. allowed \in Allowance /\ allowed.starts \in Nat /\ allowed.events \in 0..MaxEvents
  BY DvrAssumption DEF DvrInit, Allowance
<1>4. RingTypes /\ LineTypes /\ ShotTypes /\ CaptureTypes
  BY <1>1, DvrAssumption DEF DvrInit, RingTypes, LineTypes, ShotTypes, CaptureTypes
<1>5. RunTypes /\ DbTypes /\ StoreTypes
  BY DvrAssumption DEF DvrInit, RunTypes, DbTypes, StoreTypes
<1>6. CountTypes
  BY <1>2, <1>3, DvrAssumption DEF DvrInit, CountTypes
<1>7. StateOK
  BY <1>1, <1>4, <1>5, <1>6, StateParts DEF Parts, DvrInit
<1>8. TxsOK /\ MetasInOrder /\ KeysUsedOnce /\ ListsAligned
  BY <1>1 DEF DvrInit, TxsOK, MetasInOrder, KeysUsedOnce, ListsAligned
<1>9. ChargesOK
  <2>1. IsFiniteSet(pics) /\ IsFiniteSet({})
    BY FS_EmptySet DEF DvrInit
  <2>2. Bytes({}) = 0
    BY <2>1, BytesStep
  <2>3. \A s \in Sessions : Claimed(s) = {} /\ meta[s].bytes = 0
    BY <1>1, <1>2 DEF DvrInit, Claimed, PicsOf
  <2>4. \A s \in Sessions : Bytes(Claimed(s)) = 0
    BY <2>2, <2>3
  <2>5. QED
    BY <2>1, <2>3, <2>4, DvrAssumption DEF ChargesOK
<1>10. QED
  BY <1>7, <1>8, <1>9 DEF DvrInv

LEMMA DvrSteps ==
  ASSUME DvrInv, [DvrNext]_dvrVars
  PROVE  DvrInv'
<1>1. CASE Install
  BY <1>1, InstallStep
<1>2. CASE OperatorActs
  BY <1>2, UninstallStep, HiddenStep, PageHideStep, PageGoneStep, SetRecordingStep, ClearRingStep DEF OperatorActs
<1>3. CASE Batch
  BY <1>3, BatchStep
<1>4. CASE \E click \in BOOLEAN : Push(click)
  BY <1>4, PushStep
<1>5. CASE \E s \in Sessions :
             Opened(s) \/ CaptureFails(s) \/ Captured(s) \/ PersistTimer(s) \/ DeleteStored(s)
  BY <1>5, OpenedStep, CaptureFailsStep, CapturedStep, PersistTimerStep, DeleteStoredStep
<1>6. CASE \E i \in DOMAIN txs : DbAnswers(i) \/ TxFails(i)
  BY <1>6, MetaPutStep, ShotPutStep, ShotDroppedStep, MetasListedStep, ShotsListedStep, DeletedStep, TxFailsStep
     DEF DbAnswers
<1>7. CASE UNCHANGED dvrVars
  <2>1. UNCHANGED <<ringVars, runVars, db, memVars, captures, timer, txs, storeVars, allowed>>
    BY <1>7 DEF dvrVars
  <2>2. allowed' \in Allowance /\ allowed' = allowed
    BY <2>1 DEF DvrInv, StateOK, Allowance
  <2>3. CountTypes'
    BY <2>1, <2>2, PartsStay DEF memVars, runVars
  <2>4. StateOK'
    BY <2>1, <2>3, PartsStay, StateParts DEF Parts, ringVars, memVars
  <2>5. ListsAligned'
    BY <2>1, ListsStay DEF DvrInv, ringVars, runVars, memVars
  <2>6. TxsOK' /\ ChargesOK' /\ MetasInOrder' /\ KeysUsedOnce'
    BY <2>1, <2>4, MetasSame, StoresStand DEF storeVars, memVars
  <2>7. QED
    BY <2>4, <2>5, <2>6 DEF DvrInv
<1>8. QED
  BY <1>1, <1>2, <1>3, <1>4, <1>5, <1>6, <1>7 DEF DvrNext

\* DvrInv is an invariant of the recorder.
THEOREM DvrInvariance == DvrSpec => []DvrInv
<1>1. DvrInit => DvrInv
  BY DvrStarts
<1>2. DvrInv /\ [DvrNext]_dvrVars => DvrInv'
  BY DvrSteps
<1>3. QED
  BY <1>1, <1>2, PTL DEF DvrSpec

LEMMA TimelineHolds ==
  ASSUME DvrInv
  PROVE  TimelineHoldsRing
<1>1. SUFFICES ASSUME handle # 0, NEW e \in ToSet(ring), e > since
               PROVE  e \in ToSet(timeline[handle])
  BY DEF TimelineHoldsRing
<1>2. /\ seq \in Nat /\ ring \in Seq(1..seq) /\ Len(ring) <= RingCap /\ handle \in Sessions /\ since \in 0..seq
  BY <1>1, HandleIsSession DEF DvrInv, StateOK, DvrTypeOK
<1> DEFINE t == timeline[handle]
<1>3. /\ t \in Seq(1..seq) /\ \A k \in DOMAIN t : t[k] = seq - Len(t) + k
      /\ Len(t) \in {TimelineCap, seq - since}
  BY <1>1, <1>2 DEF DvrInv, StateOK, DvrTypeOK, ListsAligned
<1> HIDE DEF t
<1>4. PICK k \in DOMAIN ring : e = ring[k]
  BY DEF ToSet
<1>5. k \in 1..Len(ring) /\ Len(ring) \in Nat /\ e = seq - Len(ring) + k
  BY <1>2, <1>4 DEF DvrInv, ListsAligned
<1>6. e \in Nat /\ e <= seq /\ seq - e < Len(t) /\ Len(t) \in Nat
  <2>1. e \in 1..seq /\ Len(t) \in Nat /\ RingCap \in Nat /\ TimelineCap \in Nat /\ RingCap <= TimelineCap
    BY <1>2, <1>3, <1>4, DvrAssumption
  <2>2. seq - e < Len(ring) /\ Len(ring) <= RingCap /\ since \in Nat
    BY <1>2, <1>5, <2>1
  <2>3. seq - e < Len(t)
    <3>1. CASE Len(t) = TimelineCap
      BY <1>2, <1>5, <2>1, <2>2, <3>1
    <3>2. CASE Len(t) = seq - since
      BY <1>1, <1>2, <2>1, <2>2, <3>2
    <3>3. QED
      BY <1>3, <3>1, <3>2
  <2>4. QED
    BY <1>2, <2>1, <2>3
<1>7. e - seq + Len(t) \in 1..Len(t) /\ DOMAIN t = 1..Len(t)
  BY <1>2, <1>3, <1>6
<1>8. t[e - seq + Len(t)] = e
  <2>1. t[e - seq + Len(t)] = seq - Len(t) + (e - seq + Len(t))
    BY <1>3, <1>7
  <2>2. QED
    BY <1>2, <1>6, <2>1
<1>9. QED
  BY <1>7, <1>8 DEF ToSet, t

LEMMA BudgetHolds ==
  ASSUME DvrInv
  PROVE  BudgetKept
<1>1. SUFFICES ASSUME NEW s \in Sessions
               PROVE  Bytes(PicsOf(s)) <= meta[s].bytes /\ meta[s].bytes <= Budget
  BY DEF BudgetKept
<1>2. IsFiniteSet(Claimed(s)) /\ Claimed(s) \subseteq Pics
  BY ClaimedFinite DEF DvrInv, StateOK, DvrTypeOK, ChargesOK, Pics
<1>3. PicsOf(s) \subseteq Claimed(s)
  BY DEF Claimed
<1>4. IsFiniteSet(PicsOf(s)) /\ PicsOf(s) \subseteq Pics
  BY <1>2, <1>3, FS_Subset
<1>5. /\ Bytes(PicsOf(s)) <= Bytes(Claimed(s))
      /\ Bytes(PicsOf(s)) \in Nat /\ Bytes(Claimed(s)) \in Nat
  BY <1>2, <1>3, <1>4, BytesOfMore, BytesType, PicSize
<1>6. Bytes(Claimed(s)) <= meta[s].bytes /\ meta[s].bytes <= Budget /\ meta[s].bytes \in Nat
  BY DEF DvrInv, ChargesOK, StateOK, DvrTypeOK, Metas
<1>7. QED
  BY <1>5, <1>6

\* The recorder's bounds hold, whatever its caps and the budget: types and caps,
\* what is stored against what is charged and the budget, and that the timeline
\* of the session lacks nothing of what the ring holds of it.
THEOREM BoundsHold == DvrSpec => []WithinBounds
<1>1. DvrInv => WithinBounds
  BY TimelineHolds, BudgetHolds DEF DvrInv, StateOK, WithinBounds
<1>2. QED
  BY <1>1, DvrInvariance, PTL

\* No step takes a stored meta back.
LEMMA MetaStepForward ==
  ASSUME DvrInv, [DvrNext]_dvrVars, NEW s \in Sessions, metas[s] # NoRow, metas'[s] # NoRow
  PROVE  /\ metas'[s].n >= metas[s].n
         /\ metas'[s].bytes >= metas[s].bytes
         /\ metas[s].ended => metas'[s].ended
<1>1. metas \in [Sessions -> Metas \cup {NoRow}] /\ metas[s] \in Metas
  BY DEF DvrInv, StateOK, DvrTypeOK
<1>2. CASE metas'[s] = metas[s]
  BY <1>1, <1>2 DEF Metas
<1>3. CASE \E i \in DOMAIN txs : MetaPut(i)
  <2>1. PICK i \in DOMAIN txs : MetaPut(i)
    BY <1>3
  <2>2. /\ txs[i].s \in Sessions /\ txs[i].meta \in Metas
        /\ metas[txs[i].s] # NoRow => Until(metas[txs[i].s], txs[i].meta)
    BY <2>1, MetaReady DEF MetaPut
  <2>3. metas' = [metas EXCEPT ![txs[i].s] = txs[i].meta]
    BY <2>1 DEF MetaPut
  <2>4. CASE txs[i].s = s
    <3>1. metas'[s] = txs[i].meta /\ Until(metas[s], txs[i].meta) /\ txs[i].meta \in Metas
      BY <1>1, <2>2, <2>3, <2>4
    <3>2. QED
      BY <1>1, <3>1 DEF Until, Metas
  <2>5. CASE txs[i].s # s
    BY <1>1, <1>2, <2>3, <2>5
  <2>6. QED
    BY <2>4, <2>5
<1>4. CASE \E i \in DOMAIN txs : Deleted(i)
  BY <1>1, <1>2, <1>4 DEF Deleted
<1>5. CASE metas' = metas
  BY <1>2, <1>5
<1>6. metas' = metas \/ \E i \in DOMAIN txs : MetaPut(i) \/ Deleted(i)
  BY DEF DvrNext, dvrVars, storeVars, OperatorActs, DbAnswers, Install, Uninstall, Hidden, PageHide, PageGone,
         SetRecording, ClearRing, Batch, Push, Opened, CaptureFails, Captured, PersistTimer, DeleteStored,
         ShotPut, ShotDropped, MetasListed, ShotsListed, TxFails
<1>7. QED
  BY <1>3, <1>4, <1>5, <1>6

\* No step takes a stored screenshot but with its session.
LEMMA ShotStays ==
  ASSUME DvrInv, [DvrNext]_dvrVars, NEW p \in pics
  PROVE  p \in pics' \/ metas'[p[1]] = NoRow
<1>1. CASE \E i \in DOMAIN txs : ShotPut(i)
  BY <1>1, ShotReady
<1>2. CASE \E i \in DOMAIN txs : ShotDropped(i)
  <2>1. PICK i \in DOMAIN txs : ShotDropped(i)
    BY <1>2
  <2>2. Shot(txs[i])
    BY <2>1 DEF Shot, ShotDropped
  <2>3. ~SamePlace(p, txs[i].pic)
    BY <2>2 DEF DvrInv, KeysUsedOnce
  <2>4. QED
    BY <2>1, <2>3 DEF ShotDropped
<1>3. CASE \E i \in DOMAIN txs : Deleted(i)
  <2>1. PICK i \in DOMAIN txs : Deleted(i)
    BY <1>3
  <2>2. txs[i].s \in Sessions /\ \A q \in txs[i].found : q[1] = txs[i].s
    BY <2>1, TxType DEF Deleted, Txs, DvrInv, TxsOK
  <2>3. metas \in [Sessions -> Metas \cup {NoRow}]
    BY DEF DvrInv, StateOK, DvrTypeOK
  <2>4. QED
    BY <2>1, <2>2, <2>3 DEF Deleted
<1>4. CASE pics' = pics
  BY <1>4
<1>5. pics' = pics \/ \E i \in DOMAIN txs : ShotPut(i) \/ ShotDropped(i) \/ Deleted(i)
  BY DEF DvrNext, dvrVars, storeVars, OperatorActs, DbAnswers, Install, Uninstall, Hidden, PageHide, PageGone,
         SetRecording, ClearRing, Batch, Push, Opened, CaptureFails, Captured, PersistTimer, DeleteStored,
         MetaPut, MetasListed, ShotsListed, TxFails
<1>6. QED
  BY <1>1, <1>2, <1>3, <1>4, <1>5

\* What the database holds of a session stays until the session is deleted: a
\* stored meta never goes back, whichever of the five places that persist it
\* started the write, and no screenshot is overwritten or dropped.
THEOREM StoresHold == DvrSpec => StoredStays
<1> DEFINE Forward == \A s \in Sessions :
                        metas[s] # NoRow /\ metas'[s] # NoRow =>
                          /\ metas'[s].n >= metas[s].n
                          /\ metas'[s].bytes >= metas[s].bytes
                          /\ metas[s].ended => metas'[s].ended
           Stays == \A p \in pics : p \in pics' \/ metas'[p[1]] = NoRow
<1>1. DvrInv /\ [DvrNext]_dvrVars => [Forward]_metas /\ [Stays]_pics
  BY MetaStepForward, ShotStays
<1>2. DvrSpec => [][Forward]_metas /\ [][Stays]_pics
  BY <1>1, DvrInvariance, PTL DEF DvrSpec
<1>3. QED
  BY <1>2 DEF StoredStays, MetaForward, ShotsKept
=============================================================================
