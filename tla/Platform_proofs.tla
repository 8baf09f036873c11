---------------------------- MODULE Platform_proofs ---------------------------
(***************************************************************************)
(* Proofs about what each platform's code makes of its volumes.  Volumes:   *)
(* for any machines and any number of calls no mount point is asked by two  *)
(* threads, and a list that ends has every mount on it that answered.       *)
(* Walk: of any volume kept as its platform keeps them (WorldsAssumption),   *)
(* a walk takes nothing twice, nothing that is not its own, and all that is *)
(* unless it says there was trouble.                                        *)
(***************************************************************************)
EXTENDS Volumes, Walk, FiniteSetTheorems, SequenceTheorems, TLAPS

-----------------------------------------------------------------------------
(* Numbers.  Induction is by the set of those it holds for.                 *)
LEMMA Least ==
    ASSUME NEW T, T \subseteq Nat, T # {}
    PROVE  \E i \in T : \A j \in T : i <= j
  <1>1. PICK i \in T : \A j \in T : ~ (<<j, i>> \in OpToRel(<, Nat))
    BY NatLessThanWellFounded, WFMin, Zenon
  <1>2. ASSUME NEW j \in T, j < i PROVE FALSE
    <2>1. <<j, i>> \in OpToRel(<, Nat)
      BY <1>2 DEF OpToRel
    <2>2. QED BY <1>1, <2>1
  <1>3. QED BY <1>2

(* Induction, up to n.                                                      *)
LEMMA Induct ==
    ASSUME NEW n \in Nat, NEW T, 0 \in T, \A i \in 1 .. n : i - 1 \in T => i \in T
    PROVE  0 .. n \subseteq T
  <1> DEFINE Bad == {i \in Nat : i <= n /\ i \notin T}
  <1>1. SUFFICES ASSUME Bad # {} PROVE FALSE
    OBVIOUS
  <1>2. PICK i \in Bad : \A j \in Bad : i <= j
    BY <1>1, Least
  <1>3. i \in 1 .. n
    BY <1>2
  <1>4. i - 1 \in Nat /\ i - 1 < i
    BY <1>3
  <1>5. i - 1 \in T
    BY <1>2, <1>3, <1>4
  <1>6. QED BY <1>2, <1>3, <1>5

(* What the values computed in n steps are, by the set every step stays in. *)
LEMMA StaysInAll ==
    ASSUME NEW S, NEW n \in Nat, NEW h, h[0] \in S, \A i \in 1 .. n : h[i - 1] \in S => h[i] \in S
    PROVE  \A i \in 0 .. n : h[i] \in S
  <1> DEFINE T == {i \in 0 .. n : h[i] \in S}
  <1>1. 0 \in T /\ \A i \in 1 .. n : i - 1 \in T => i \in T
    OBVIOUS
  <1> HIDE DEF T
  <1>2. 0 .. n \subseteq T
    BY <1>1, Induct
  <1>3. QED BY <1>2 DEF T

(* There is such a value.                                                   *)
Stepped(h, S, b, n, step) ==
    /\ h \in [0 .. n -> S]
    /\ h[0] = b
    /\ \A i \in 1 .. n : h[i] = step[h[i - 1]][i]

LEMMA Steps ==
    ASSUME NEW S, NEW b \in S, NEW n \in Nat, NEW step \in [S -> [1 .. n -> S]]
    PROVE  \E h : Stepped(h, S, b, n, step)
  <1> DEFINE T == {m \in 0 .. n : \E h : Stepped(h, S, b, m, step)}
  <1>1. 0 \in T
    <2> DEFINE k == [i \in 0 .. 0 |-> b]
    <2>1. k \in [0 .. 0 -> S] /\ k[0] = b
      OBVIOUS
    <2>2. \A i \in 1 .. 0 : k[i] = step[k[i - 1]][i]
      OBVIOUS
    <2> HIDE DEF k
    <2>3. Stepped(k, S, b, 0, step)
      BY <2>1, <2>2 DEF Stepped
    <2>4. QED BY <2>3
  <1>2. ASSUME NEW m \in 1 .. n, m - 1 \in T PROVE m \in T
    <2>0. PICK h : Stepped(h, S, b, m - 1, step)
      BY <1>2
    <2>1. h \in [0 .. m - 1 -> S] /\ h[0] = b /\ \A i \in 1 .. m - 1 : h[i] = step[h[i - 1]][i]
      BY <2>0 DEF Stepped
    <2> DEFINE k == [i \in 0 .. m |-> IF i = m THEN step[h[m - 1]][m] ELSE h[i]]
    <2>2. \A i \in 0 .. m : i # m => i \in 0 .. m - 1
      OBVIOUS
    <2>3. m - 1 \in 0 .. m - 1
      OBVIOUS
    <2>4. h[m - 1] \in S
      BY <2>1, <2>3
    <2>5. step[h[m - 1]][m] \in S
      BY <2>4
    <2>6. k \in [0 .. m -> S]
      BY <2>1, <2>2, <2>5
    <2>7. k[0] = b
      BY <2>1
    <2>8. ASSUME NEW i \in 1 .. m PROVE k[i] = step[k[i - 1]][i]
      <3>1. CASE i = m
        <4>1. k[m] = step[h[m - 1]][m] /\ k[m - 1] = h[m - 1]
          OBVIOUS
        <4>2. QED BY <3>1, <4>1
      <3>2. CASE i # m
        <4>1. i \in 1 .. m - 1 /\ k[i] = h[i] /\ k[i - 1] = h[i - 1]
          BY <3>2
        <4>2. QED BY <2>1, <4>1
      <3>3. QED BY <3>1, <3>2
    <2> HIDE DEF k
    <2>9. Stepped(k, S, b, m, step)
      BY <2>6, <2>7, <2>8 DEF Stepped
    <2>10. QED BY <2>9
  <1>3. 0 .. n \subseteq T
    <2> HIDE DEF T
    <2>1. QED BY <1>1, <1>2, Induct
  <1>4. n \in T
    BY <1>3
  <1>5. QED BY <1>4

-----------------------------------------------------------------------------
(* A list by its fields; nothing is asked of its mounts.                    *)
Shaped(x) ==
    /\ x = [pc |-> x.pc, table |-> x.table, rx |-> x.rx, next |-> x.next,
            expired |-> x.expired, room |-> x.room, shown |-> x.shown]
    /\ x.rx \in Seq({"open", "dropped", "some", "nothing"})
    /\ x.next \in Nat \ {0}
    /\ x.expired \in BOOLEAN

(* What was asked for a line, and what the page is to be shown of it: a     *)
(* line gone by without an answer is one that time ran out for.             *)
LineOK(x, i) ==
    LET m == x.table[i]
    IN  /\ x.rx[i] \in {"open", "dropped", Usage(m)}
        /\ m.fs \in LocalFilesystems => x.rx[i] = Usage(m)
        /\ i \in x.shown => Usage(m) = "some"
        /\ i < x.next =>
             /\ x.rx[i] = "open" => x.expired
             /\ Usage(m) = "some" => \/ i \in x.shown
                                     \/ m.fs \notin LocalFilesystems
                                        /\ (x.expired \/ x.rx[i] = "dropped")

Unasked == {"none", "called", "counted", "filled"}

ListOK(x) ==
    /\ Shaped(x)
    /\ x.pc \in Unasked => x.rx = <<>> /\ x.next = 1 /\ x.shown = {}
    /\ x.pc = "asking" => x.next = 1 /\ x.shown = {}
    /\ x.pc = "done" => x.next > Len(x.rx) \/ x.rx = <<>>
    /\ \A i \in 1 .. Len(x.rx) : LineOK(x, i)

ListsOK ==
    /\ lists = [l \in Request |-> lists[l]]
    /\ \A l \in Request : ListOK(lists[l])

(* A probe belongs to a line that has no answer yet, and a line to one.     *)
ThreadsOK ==
    /\ \A th \in threads :
         /\ th = [list |-> th.list, line |-> th.line, stage |-> th.stage]
         /\ th.list \in Request
         /\ th.line \in 1 .. Len(lists[th.list].rx)
         /\ lists[th.list].rx[th.line] = "open"
         /\ th.stage \in {"asking", "sending"}
    /\ \A t1, t2 \in threads : t1.list = t2.list /\ t1.line = t2.line => t1 = t2

VolumesInv == ListsOK /\ ThreadsOK /\ ProbesOnce

-----------------------------------------------------------------------------
LEMMA UsageIs == ASSUME NEW m PROVE Usage(m) \in {"some", "nothing"}
  BY DEF Usage

(* What a list is once it is filled, a field after another.                 *)
LEMMA Filled ==
    ASSUME NEW p, NEW t, NEW r, NEW n, NEW e, NEW o, NEW s, NEW x, NEW u, NEW w, NEW v, NEW y,
           x = [pc |-> p, table |-> t, rx |-> r, next |-> n, expired |-> e, room |-> o,
                shown |-> s],
           \/ y = [x EXCEPT !.pc = u]
           \/ y = [x EXCEPT !.pc = u, !.table = w]
           \/ y = [x EXCEPT !.pc = u, !.room = w]
           \/ y = [x EXCEPT !.pc = u, !.shown = v]
           \/ y = [x EXCEPT !.pc = u, !.table = w, !.shown = v]
    PROVE  /\ y = [pc |-> u, table |-> y.table, rx |-> r, next |-> n, expired |-> e,
                   room |-> y.room, shown |-> y.shown]
           /\ y = [x EXCEPT !.pc = u] \/ y = [x EXCEPT !.pc = u, !.table = w]
              \/ y = [x EXCEPT !.pc = u, !.room = w] => y.shown = s
  <1>1. PICK z : z = [x EXCEPT !.pc = u]
    OBVIOUS
  <1>2. z = [pc |-> u, table |-> t, rx |-> r, next |-> n, expired |-> e, room |-> o, shown |-> s]
    BY <1>1
  <1>3. CASE y = [x EXCEPT !.pc = u]
    <2>1. y = z
      BY <1>1, <1>3
    <2>2. QED BY <1>2, <2>1
  <1>4. CASE y = [x EXCEPT !.pc = u, !.table = w]
    <2>1. y = [z EXCEPT !.table = w]
      BY <1>1, <1>4
    <2>2. QED BY <1>2, <2>1
  <1>5. CASE y = [x EXCEPT !.pc = u, !.room = w]
    <2>1. y = [z EXCEPT !.room = w]
      BY <1>1, <1>5
    <2>2. QED BY <1>2, <2>1
  <1>6. CASE y = [x EXCEPT !.pc = u, !.shown = v]
    <2>1. y = [z EXCEPT !.shown = v]
      BY <1>1, <1>6
    <2>2. QED BY <1>2, <2>1
  <1>7. CASE y = [x EXCEPT !.pc = u, !.table = w, !.shown = v]
    <2>1. PICK f : f = [z EXCEPT !.table = w]
      OBVIOUS
    <2>2. f = [pc |-> u, table |-> w, rx |-> r, next |-> n, expired |-> e, room |-> o, shown |-> s]
      BY <1>2, <2>1
    <2>3. y = [f EXCEPT !.shown = v]
      BY <1>1, <1>7, <2>1
    <2>4. QED BY <2>2, <2>3
  <1>8. QED BY <1>3, <1>4, <1>5, <1>6, <1>7

LEMMA ExpiryIs ==
    ASSUME NEW x, Shaped(x), NEW up
    PROVE  [x EXCEPT !.expired = up] =
             [pc |-> x.pc, table |-> x.table, rx |-> x.rx, next |-> x.next,
              expired |-> up, room |-> x.room, shown |-> x.shown]
  <1>1. PICK p, t, r, n, e, o, s :
           x = [pc |-> p, table |-> t, rx |-> r, next |-> n, expired |-> e, room |-> o,
                shown |-> s]
    BY DEF Shaped
  <1>2. QED BY <1>1

(* The fields of a list that isn't asking anything yet, or has just ended.  *)
LEMMA UnaskedOK ==
    ASSUME NEW x, Shaped(x), x.rx = <<>>,
           x.pc = "done" \/ (x.pc \in Unasked \cup {"asking"} /\ x.next = 1 /\ x.shown = {})
    PROVE  ListOK(x)
  BY DEF ListOK, Unasked

LEMMA EndedOK ==
    ASSUME NEW x, ListOK(x), x.next > Len(x.rx) \/ x.rx = <<>>
    PROVE  ListOK([x EXCEPT !.pc = "done"])
  <1> DEFINE y == [x EXCEPT !.pc = "done"]
  <1>0. x = [pc |-> x.pc, table |-> x.table, rx |-> x.rx, next |-> x.next,
             expired |-> x.expired, room |-> x.room, shown |-> x.shown]
    BY DEF ListOK, Shaped
  <1>1. y = [pc |-> "done", table |-> x.table, rx |-> x.rx, next |-> x.next,
             expired |-> x.expired, room |-> x.room, shown |-> x.shown]
    BY <1>0
  <1> SUFFICES ListOK(y)
    OBVIOUS
  <1> HIDE DEF y
  <1>2. QED BY <1>1 DEF ListOK, Shaped, LineOK, Unasked

(* The next mount is asked: v is its answer, or what stands for it.         *)
LEMMA AskedOK ==
    ASSUME NEW x, ListOK(x), x.pc = "asking",
           NEW v \in {"open", "dropped", Usage(x.table[Len(x.rx) + 1])},
           x.table[Len(x.rx) + 1].fs \in LocalFilesystems => v = Usage(x.table[Len(x.rx) + 1])
    PROVE  /\ ListOK([x EXCEPT !.rx = Append(@, v)])
           /\ \A i \in 1 .. Len(x.rx) : Append(x.rx, v)[i] = x.rx[i]
           /\ Len(Append(x.rx, v)) = Len(x.rx) + 1
           /\ Append(x.rx, v)[Len(x.rx) + 1] = v
           /\ Len(x.rx) \in Nat
  <1> DEFINE y == [x EXCEPT !.rx = Append(@, v)]
             A == {"open", "dropped", "some", "nothing"}
  <1>1. x.rx \in Seq(A) /\ v \in A
    BY UsageIs DEF ListOK, Shaped
  <1>2. /\ Append(x.rx, v) \in Seq(A) /\ Len(x.rx) \in Nat
        /\ Len(Append(x.rx, v)) = Len(x.rx) + 1
        /\ Append(x.rx, v)[Len(x.rx) + 1] = v
        /\ \A i \in 1 .. Len(x.rx) : Append(x.rx, v)[i] = x.rx[i]
    BY <1>1
  <1>0. x = [pc |-> x.pc, table |-> x.table, rx |-> x.rx, next |-> x.next,
             expired |-> x.expired, room |-> x.room, shown |-> x.shown]
    BY DEF ListOK, Shaped
  <1>3. y = [pc |-> x.pc, table |-> x.table, rx |-> Append(x.rx, v), next |-> x.next,
             expired |-> x.expired, room |-> x.room, shown |-> x.shown]
    BY <1>0
  <1> SUFFICES ListOK(y)
    BY <1>2
  <1> HIDE DEF y
  <1>4. Shaped(y)
    BY <1>2, <1>3 DEF ListOK, Shaped
  <1>5. ASSUME NEW i \in 1 .. Len(y.rx) PROVE LineOK(y, i)
    <2>1. x.next = 1 /\ x.shown = {}
      BY DEF ListOK
    <2>2. CASE i \in 1 .. Len(x.rx)
      <3>1. LineOK(x, i)
        BY <2>2 DEF ListOK
      <3>2. QED BY <3>1, <2>2, <1>2, <1>3 DEF LineOK
    <2>3. CASE i = Len(x.rx) + 1
      BY <1>2, <1>3, <2>1, <2>3 DEF LineOK
    <2>4. QED BY <1>2, <1>3, <2>2, <2>3
  <1>6. QED BY <1>3, <1>4, <1>5 DEF ListOK, Unasked

(* PROBE_TIMEOUT is up.                                                     *)
LEMMA ExpiredOK ==
    ASSUME NEW x, ListOK(x), NEW up, up = TRUE
    PROVE  ListOK([x EXCEPT !.expired = up])
  <1> DEFINE y == [x EXCEPT !.expired = up]
  <1>1. x = [pc |-> x.pc, table |-> x.table, rx |-> x.rx, next |-> x.next,
             expired |-> x.expired, room |-> x.room, shown |-> x.shown]
    BY DEF ListOK, Shaped
  <1>2. y = [pc |-> x.pc, table |-> x.table, rx |-> x.rx, next |-> x.next,
             expired |-> up, room |-> x.room, shown |-> x.shown]
    BY ExpiryIs, Zenon DEF ListOK
  <1> SUFFICES ListOK(y)
    OBVIOUS
  <1> HIDE DEF y
  <1>3. Shaped(y)
    <2>1. up \in BOOLEAN
      BY Zenon
    <2>2. QED BY <1>2, <2>1 DEF ListOK, Shaped
  <1>4. ASSUME NEW i \in 1 .. Len(y.rx) PROVE LineOK(y, i)
    <2>1. LineOK(x, i)
      BY <1>2 DEF ListOK
    <2>2. QED BY <2>1, <1>2 DEF LineOK
  <1>5. QED BY <1>2, <1>3, <1>4 DEF ListOK

(* The answer to the next line is taken, or none in time.                   *)
LEMMA ReceivedOK ==
    ASSUME NEW x, ListOK(x), x.pc = "receiving", x.next \in 1 .. Len(x.rx),
           x.rx[x.next] = "open" => x.expired
    PROVE  ListOK([x EXCEPT !.next = @ + 1,
                            !.shown = IF x.rx[x.next] = "some" THEN @ \cup {x.next} ELSE @])
  <1> DEFINE taken == IF x.rx[x.next] = "some" THEN x.shown \cup {x.next} ELSE x.shown
             y == [x EXCEPT !.next = @ + 1, !.shown = taken]
  <1> HIDE DEF taken
  <1>0. x = [pc |-> x.pc, table |-> x.table, rx |-> x.rx, next |-> x.next,
             expired |-> x.expired, room |-> x.room, shown |-> x.shown]
    BY DEF ListOK, Shaped
  <1>1. y = [pc |-> x.pc, table |-> x.table, rx |-> x.rx, next |-> x.next + 1,
             expired |-> x.expired, room |-> x.room, shown |-> taken]
    <2>1. PICK p, t, r, n, e, o, s :
             x = [pc |-> p, table |-> t, rx |-> r, next |-> n, expired |-> e, room |-> o,
                  shown |-> s]
      BY <1>0
    <2>2. /\ x.pc = p /\ x.table = t /\ x.rx = r /\ x.next = n
          /\ x.expired = e /\ x.room = o /\ x.shown = s
      BY <2>1
    <2>3. y = [pc |-> p, table |-> t, rx |-> r, next |-> n + 1, expired |-> e, room |-> o,
                 shown |-> taken]
      <3> DEFINE z == [x EXCEPT !.next = @ + 1]
      <3>1. /\ z = [pc |-> p, table |-> t, rx |-> r, next |-> n + 1, expired |-> e, room |-> o,
                    shown |-> s]
            /\ y = [z EXCEPT !.shown = taken]
        BY <2>1
      <3> HIDE DEF z
      <3>2. QED BY <3>1
    <2>4. QED BY <2>2, <2>3, Zenon
  <1> SUFFICES ListOK(y)
    BY DEF taken
  <1> HIDE DEF y
  <1>2. Shaped(y) /\ x.next \in Nat /\ Len(x.rx) \in Nat
    BY <1>1 DEF ListOK, Shaped
  <1>3. ASSUME NEW i \in 1 .. Len(y.rx) PROVE LineOK(y, i)
    <2>1. LineOK(x, i) /\ LineOK(x, x.next)
      BY <1>1 DEF ListOK
    <2>2. CASE i = x.next
      BY <2>1, <2>2, <1>1, <1>2 DEF LineOK, taken
    <2>3. CASE i # x.next
      BY <2>1, <2>3, <1>1, <1>2 DEF LineOK, taken
    <2>4. QED BY <2>2, <2>3
  <1>4. QED BY <1>1, <1>2, <1>3 DEF ListOK

(* A thread sends what its mount said.                                      *)
LEMMA AnsweredOK ==
    ASSUME NEW x, ListOK(x), NEW k \in 1 .. Len(x.rx), x.rx[k] = "open"
    PROVE  ListOK([x EXCEPT !.rx[k] = Usage(x.table[k])])
  <1> DEFINE y == [x EXCEPT !.rx[k] = Usage(x.table[k])]
  <1>0. x = [pc |-> x.pc, table |-> x.table, rx |-> x.rx, next |-> x.next,
             expired |-> x.expired, room |-> x.room, shown |-> x.shown]
    BY DEF ListOK, Shaped
  <1>1. y = [pc |-> x.pc, table |-> x.table, rx |-> [x.rx EXCEPT ![k] = Usage(x.table[k])], next |-> x.next,
             expired |-> x.expired, room |-> x.room, shown |-> x.shown]
    BY SMTT(30), <1>0
  <1> SUFFICES ListOK(y)
    OBVIOUS
  <1> HIDE DEF y
  <1>2. /\ y.rx \in Seq({"open", "dropped", "some", "nothing"})
        /\ Len(y.rx) = Len(x.rx) /\ Len(x.rx) \in Nat
        /\ y.rx[k] = Usage(x.table[k])
        /\ \A i \in 1 .. Len(x.rx) : i # k => y.rx[i] = x.rx[i]
    BY <1>1, UsageIs DEF ListOK, Shaped
  <1>3. Shaped(y)
    BY <1>1, <1>2 DEF ListOK, Shaped
  <1>4. ASSUME NEW i \in 1 .. Len(y.rx) PROVE LineOK(y, i)
    <2>1. LineOK(x, i)
      BY <1>2 DEF ListOK
    <2>2. CASE i = k
      BY <2>1, <2>2, <1>1, <1>2, UsageIs DEF LineOK
    <2>3. CASE i # k
      BY <2>1, <2>3, <1>1, <1>2 DEF LineOK
    <2>4. QED BY <2>2, <2>3
  <1>5. y.pc = "done" => y.next > Len(y.rx) \/ y.rx = <<>>
    BY <1>1, <1>2 DEF ListOK
  <1>6. y.pc \notin Unasked
    BY <1>1, <1>2 DEF ListOK
  <1>7. QED BY <1>1, <1>3, <1>4, <1>5, <1>6 DEF ListOK

-----------------------------------------------------------------------------
(* What each step does to one list, and what it leaves of the others.       *)

LEMMA VolumesInvInit == VolumesInit => VolumesInv
  <1> SUFFICES ASSUME VolumesInit PROVE VolumesInv
    OBVIOUS
  <1>1. ListOK(NoList)
    BY DEF ListOK, Shaped, NoList
  <1>2. ListsOK
    BY <1>1 DEF VolumesInit, ListsOK
  <1>3. ThreadsOK /\ ProbesOnce
    BY DEF VolumesInit, ThreadsOK, ProbesOnce, Asking
  <1>4. QED BY <1>2, <1>3 DEF VolumesInv

(* A step that leaves the threads alone, and what they are to answer.       *)
LEMMA ListMoves ==
    ASSUME VolumesInv, NEW l \in Request, NEW y, ListOK(y),
           lists' = [lists EXCEPT ![l] = y], UNCHANGED <<probing, threads>>,
           lists[l].rx # <<>> => y.table = lists[l].table /\ y.rx = lists[l].rx
    PROVE  VolumesInv'
  <1>1. ListsOK'
    BY DEF VolumesInv, ListsOK
  <1>2. ASSUME NEW th \in threads
        PROVE  /\ lists'[th.list].rx = lists[th.list].rx
               /\ lists'[th.list].table = lists[th.list].table
    BY <1>2 DEF VolumesInv, ListsOK, ThreadsOK
  <1>3. ThreadsOK'
    BY <1>2 DEF VolumesInv, ThreadsOK
  <1>4. ProbesOnce'
    BY <1>2 DEF VolumesInv, ProbesOnce, Asking, Asked
  <1>5. QED BY <1>1, <1>3, <1>4 DEF VolumesInv

LEMMA ThreadsUntouched ==
    ASSUME VolumesInv, UNCHANGED <<lists, probing, threads>> PROVE VolumesInv'
  <1>1. ListsOK'
    BY DEF VolumesInv, ListsOK
  <1>2. ThreadsOK'
    BY DEF VolumesInv, ThreadsOK
  <1>3. ProbesOnce'
    BY DEF VolumesInv, ProbesOnce, Asking, Asked
  <1>4. QED BY <1>1, <1>2, <1>3 DEF VolumesInv

(* A line is asked; if on a thread, on a new one.                           *)
LEMMA InvAsk == ASSUME VolumesInv, NEW l \in Request, Ask(l) PROVE VolumesInv'
  <1>1. PICK x, line, m : x = lists[l] /\ line = Len(x.rx) + 1 /\ m = x.table[line]
    OBVIOUS
  <1>2. ListOK(x) /\ x.pc = "asking"
    BY <1>1 DEF VolumesInv, ListsOK, Ask
  <1>3. CASE line > Len(x.table)
    <2>1. lists' = [lists EXCEPT ![l] = [x EXCEPT !.pc = "receiving"]] /\ UNCHANGED <<probing, threads>>
      BY <1>1, <1>3 DEF Ask, Now
    <2>2. ListOK([x EXCEPT !.pc = "receiving"])
      BY <1>2 DEF ListOK, Shaped, LineOK, Unasked
    <2>3. QED BY <1>1, <1>2, <2>1, <2>2, ListMoves DEF ListOK, Shaped
  <1>4. ASSUME ~(line > Len(x.table)),
               NEW v \in {"open", "dropped", Usage(m)}, m.fs \in LocalFilesystems => v = Usage(m),
               lists' = [lists EXCEPT ![l] = [x EXCEPT !.rx = Append(@, v)]],
               \/ UNCHANGED <<probing, threads>>
               \/ /\ v = "open" /\ m.point \notin probing
                  /\ probing' = probing \cup {m.point}
                  /\ threads' = threads \cup {[list |-> l, line |-> line, stage |-> "asking"]}
        PROVE  VolumesInv'
    <2> DEFINE y == [x EXCEPT !.rx = Append(@, v)]
    <2>1. /\ ListOK(y) /\ y.table = x.table /\ y.rx = Append(x.rx, v)
          /\ Len(y.rx) = Len(x.rx) + 1 /\ Len(x.rx) \in Nat
          /\ y.rx[line] = v /\ \A i \in 1 .. Len(x.rx) : y.rx[i] = x.rx[i]
      <3>1. /\ v \in {"open", "dropped", Usage(x.table[Len(x.rx) + 1])}
            /\ x.table[Len(x.rx) + 1].fs \in LocalFilesystems
                 => v = Usage(x.table[Len(x.rx) + 1])
        BY <1>1, <1>4
      <3>2. /\ ListOK(y)
            /\ \A i \in 1 .. Len(x.rx) : Append(x.rx, v)[i] = x.rx[i]
            /\ Len(Append(x.rx, v)) = Len(x.rx) + 1 /\ Len(x.rx) \in Nat
            /\ Append(x.rx, v)[Len(x.rx) + 1] = v
        BY <1>2, <3>1, AskedOK
      <3>3. y.table = x.table /\ y.rx = Append(x.rx, v)
        BY <1>2 DEF ListOK, Shaped
      <3>4. QED BY <1>1, <3>2, <3>3
    <2> HIDE DEF y
    <2>2. ListsOK'
      BY <1>4, <2>1 DEF VolumesInv, ListsOK, y
    <2>3. \A k \in Request : lists'[k] = IF k = l THEN y ELSE lists[k]
      BY <1>4 DEF VolumesInv, ListsOK, y
    <2>4. ASSUME NEW th \in threads
          PROVE  /\ th.line \in 1 .. Len(lists[th.list].rx)
                 /\ th.line \in 1 .. Len(lists'[th.list].rx)
                 /\ lists'[th.list].rx[th.line] = lists[th.list].rx[th.line]
                 /\ lists'[th.list].table = lists[th.list].table
                 /\ th.list \in Request
                 /\ th.list = l => th.line # line
                 /\ Asked(th)' = Asked(th)
      <3>1. /\ th.line \in 1 .. Len(lists[th.list].rx)
            /\ th.line \in 1 .. Len(lists'[th.list].rx)
            /\ lists'[th.list].rx[th.line] = lists[th.list].rx[th.line]
            /\ lists'[th.list].table = lists[th.list].table
            /\ th.list \in Request
            /\ th.list = l => th.line # line
        BY SMTT(30), <1>1, <2>1, <2>3, <2>4 DEF VolumesInv, ThreadsOK
      <3>2. QED BY <3>1 DEF Asked
    <2>5. CASE UNCHANGED <<probing, threads>>
      <3>1. ThreadsOK'
        BY <2>4, <2>5 DEF VolumesInv, ThreadsOK
      <3>2. ProbesOnce'
        BY <2>4, <2>5 DEF VolumesInv, ProbesOnce, Asking
      <3>3. QED BY <2>2, <3>1, <3>2 DEF VolumesInv
    <2>6. CASE /\ v = "open" /\ m.point \notin probing
               /\ probing' = probing \cup {m.point}
               /\ threads' = threads \cup {[list |-> l, line |-> line, stage |-> "asking"]}
      <3>0. PICK new : new = [list |-> l, line |-> line, stage |-> "asking"]
        OBVIOUS
      <3>1. /\ new.list = l /\ new.line = line /\ new.stage = "asking"
            /\ new = [list |-> new.list, line |-> new.line, stage |-> new.stage]
            /\ threads' = threads \cup {new}
        BY <2>6, <3>0
      <3>2. /\ lists'[new.list].rx[new.line] = "open"
            /\ new.line \in 1 .. Len(lists'[new.list].rx)
            /\ lists'[new.list].table[new.line] = m
        BY <1>1, <2>1, <2>3, <2>6, <3>1
      <3>3. ThreadsOK'
        BY <2>4, <2>6, <3>1, <3>2 DEF VolumesInv, ThreadsOK
      <3>4. Asking' = Asking \cup {new}
        BY <2>6, <3>1 DEF Asking
      <3>5. /\ Asked(new)' = m
            /\ \A th \in Asking : Asked(th)' = Asked(th)
        BY <2>4, <3>2 DEF Asked, Asking
      <3>6. ProbesOnce'
        BY <2>6, <3>4, <3>5 DEF VolumesInv, ProbesOnce
      <3>7. QED BY <2>2, <3>3, <3>6 DEF VolumesInv
    <2>7. QED BY <1>4, <2>5, <2>6
  <1>5. CASE ~(line > Len(x.table))
    <2>1. CASE m.fs \in LocalFilesystems
      BY <1>1, <1>4, <1>5, <2>1 DEF Ask
    <2>2. CASE m.fs \notin LocalFilesystems /\ m.point \in probing
      BY <1>1, <1>4, <1>5, <2>2 DEF Ask, AskOther
    <2>3. CASE m.fs \notin LocalFilesystems /\ m.point \notin probing
      BY <1>1, <1>4, <1>5, <2>3 DEF Ask, AskOther
    <2>4. QED BY <2>1, <2>2, <2>3
  <1>6. QED BY <1>3, <1>5

(* The list's other steps.                                                  *)
LEMMA InvListStep == ASSUME VolumesInv, NEW l \in Request, ListStep(l) \/ ShowPicker(l)
                     PROVE VolumesInv'
  <1>1. PICK x : x = lists[l]
    OBVIOUS
  <1>2. ListOK(x)
    BY <1>1 DEF VolumesInv, ListsOK
  <1>3. CASE Expire(l)
    <2>1. ListOK([x EXCEPT !.expired = TRUE])
      BY <1>2, ExpiredOK, Zenon
    <2>2. /\ [x EXCEPT !.expired = TRUE].rx = x.rx /\ [x EXCEPT !.expired = TRUE].table = x.table
          /\ lists' = [lists EXCEPT ![l] = [x EXCEPT !.expired = TRUE]]
          /\ UNCHANGED <<probing, threads>>
      BY <1>1, <1>2, <1>3 DEF Expire, ListOK, Shaped
    <2>3. QED BY <1>1, <2>1, <2>2, ListMoves
  <1>4. CASE Receive(l)
    <2> DEFINE y == [x EXCEPT !.next = @ + 1,
                              !.shown = IF x.rx[x.next] = "some" THEN @ \cup {x.next} ELSE @]
               z == [x EXCEPT !.pc = "done"]
    <2>1. UNCHANGED <<probing, threads>> /\ x.pc = "receiving" /\ Len(x.rx) \in Nat /\ x.next \in Nat
      BY <1>1, <1>2, <1>4 DEF Receive, ListOK, Shaped
    <2>2. CASE x.next > Len(x.rx)
      <3>1. ListOK(z) /\ z.rx = x.rx /\ z.table = x.table
        BY <1>2, <2>2, EndedOK DEF ListOK, Shaped
      <3>2. lists' = [lists EXCEPT ![l] = z]
        BY <1>1, <1>4, <2>2 DEF Receive, Now
      <3>3. QED BY <1>1, <2>1, <3>1, <3>2, ListMoves
    <2>3. CASE ~(x.next > Len(x.rx))
      <3>1. /\ x.rx[x.next] = "open" => x.expired
            /\ lists' = [lists EXCEPT ![l] = y]
        BY <1>1, <1>4, <2>3 DEF Receive, ReceiveNext
      <3>2. x.next \in 1 .. Len(x.rx)
        BY <1>2, <2>1, <2>3 DEF ListOK, Shaped
      <3>3. ListOK(y)
        BY <1>2, <2>1, <3>1, <3>2, ReceivedOK
      <3>4. y.rx = x.rx /\ y.table = x.table
        BY <1>2 DEF ListOK, Shaped
      <3>5. QED BY <1>1, <2>1, <3>1, <3>3, <3>4, ListMoves
    <2>4. QED BY <2>2, <2>3
  <1>5. ASSUME NEW u, NEW w, NEW v, NEW y,
               \/ /\ u \in Unasked \cup {"asking", "done"}
                  /\ \/ y = [x EXCEPT !.pc = u]
                     \/ y = [x EXCEPT !.pc = u, !.table = w]
                     \/ y = [x EXCEPT !.pc = u, !.room = w]
               \/ /\ u = "done"
                  /\ \/ y = [x EXCEPT !.pc = u, !.shown = v]
                     \/ y = [x EXCEPT !.pc = u, !.table = w, !.shown = v],
               lists' = [lists EXCEPT ![l] = y], UNCHANGED <<probing, threads>>,
               x.pc \in Unasked
        PROVE  VolumesInv'
    <2>1. x.rx = <<>> /\ x.next = 1 /\ x.shown = {}
      BY <1>2, <1>5 DEF ListOK
    <2>2. PICK p, t, r, n, e, o, s :
             x = [pc |-> p, table |-> t, rx |-> r, next |-> n, expired |-> e, room |-> o,
                  shown |-> s]
      BY <1>2 DEF ListOK, Shaped
    <2>3. /\ y = [pc |-> u, table |-> y.table, rx |-> r, next |-> n, expired |-> e,
                  room |-> y.room, shown |-> y.shown]
          /\ u = "done" \/ (y.shown = s /\ u \in Unasked \cup {"asking", "done"})
      <3>1. \/ y = [x EXCEPT !.pc = u]
            \/ y = [x EXCEPT !.pc = u, !.table = w]
            \/ y = [x EXCEPT !.pc = u, !.room = w]
            \/ y = [x EXCEPT !.pc = u, !.shown = v]
            \/ y = [x EXCEPT !.pc = u, !.table = w, !.shown = v]
        BY <1>5
      <3>2. /\ y = [pc |-> u, table |-> y.table, rx |-> r, next |-> n, expired |-> e,
                    room |-> y.room, shown |-> y.shown]
            /\ y = [x EXCEPT !.pc = u] \/ y = [x EXCEPT !.pc = u, !.table = w]
               \/ y = [x EXCEPT !.pc = u, !.room = w] => y.shown = s
        BY <2>2, <3>1, Filled, ZenonT(40)
      <3>3. QED BY <1>5, <3>2, Zenon
    <2>4. x.rx = r /\ x.next = n /\ x.expired = e /\ x.shown = s
      BY <2>2
    <2>5. y.pc = u /\ y.rx = r /\ y.next = n /\ y.expired = e
      BY <2>3
    <2>6. Shaped(y)
      BY <1>2, <2>3, <2>4, <2>5 DEF ListOK, Shaped
    <2>7. ListOK(y)
      BY <2>1, <2>3, <2>4, <2>5, <2>6, UnaskedOK
    <2>8. QED BY <1>1, <1>5, <2>1, <2>7, ListMoves
  <1> USE DEF Unasked
  <1>6. CASE ReadMounts(l)
    <2>1. x.pc = "called" /\ UNCHANGED <<probing, threads>>
      BY <1>1, <1>6 DEF ReadMounts
    <2>2. CASE lists' = Now(l, "done")
      BY <1>1, <1>5, <2>1, <2>2 DEF Now
    <2>3. CASE lists' = [lists EXCEPT ![l].pc = "asking", ![l].table = SelectSeq(Mounts, IsVolume)]
      <3>1. PICK w, y : w = SelectSeq(Mounts, IsVolume) /\ y = [x EXCEPT !.pc = "asking", !.table = w]
        OBVIOUS
      <3>2. lists' = [lists EXCEPT ![l] = y]
        BY <1>1, <2>3, <3>1 DEF VolumesInv, ListsOK
      <3>3. QED BY <1>5, <2>1, <3>1, <3>2
    <2>4. QED BY <1>6, <2>2, <2>3 DEF ReadMounts
  <1>7. CASE CountMounts(l)
    <2>1. PICK w, y : w = mounted + Spare /\ y = [x EXCEPT !.pc = "counted", !.room = w]
      OBVIOUS
    <2>2. /\ x.pc = "called" /\ UNCHANGED <<probing, threads>>
          /\ lists' = [lists EXCEPT ![l] = y]
      BY <1>1, <1>7, <2>1 DEF CountMounts, VolumesInv, ListsOK
    <2>3. QED BY <1>5, <2>1, <2>2
  <1>8. CASE FillMounts(l)
    <2>1. x.pc = "counted" /\ UNCHANGED <<probing, threads>>
      BY <1>1, <1>8 DEF FillMounts
    <2>2. CASE mounted < x.room
      <3>1. PICK w, y : w = Mounts /\ y = [x EXCEPT !.pc = "filled", !.table = w]
        OBVIOUS
      <3>2. lists' = [lists EXCEPT ![l] = y]
        BY <1>1, <1>8, <2>2, <3>1 DEF FillMounts, VolumesInv, ListsOK
      <3>3. QED BY <1>5, <2>1, <3>1, <3>2
    <2>3. CASE ~(mounted < x.room)
      BY <1>1, <1>5, <1>8, <2>1, <2>3 DEF FillMounts, Now
    <2>4. QED BY <2>2, <2>3
  <1>9. CASE ReadEntriesOfVolumes(l)
    <2>1. PICK v, y : v = Offered(x.table) /\ y = [x EXCEPT !.pc = "done", !.shown = v]
      OBVIOUS
    <2>2. /\ x.pc = "filled" /\ UNCHANGED <<probing, threads>>
          /\ lists' = [lists EXCEPT ![l] = y]
      BY <1>1, <1>9, <2>1 DEF ReadEntriesOfVolumes, VolumesInv, ListsOK
    <2>3. QED BY <1>5, <2>1, <2>2
  <1>10. CASE AskDrives(l)
    <2>1. PICK w, v, y :
             /\ w = Mounts
             /\ v = {i \in 1 .. mounted : /\ Mounts[i].fs \in {"fixed", "removable"}
                                          /\ Mounts[i].answers = "ok"}
             /\ y = [x EXCEPT !.pc = "done", !.table = w, !.shown = v]
      OBVIOUS
    <2>2. /\ x.pc = "called" /\ UNCHANGED <<probing, threads>>
          /\ lists' = [lists EXCEPT ![l] = y]
      BY <1>1, <1>10, <2>1 DEF AskDrives, VolumesInv, ListsOK
    <2>3. QED BY <1>5, <2>1, <2>2
  <1>11. CASE ShowPicker(l)
    BY <1>1, <1>5, <1>11 DEF ShowPicker, Now
  <1>12. CASE Ask(l)
    BY <1>12, InvAsk
  <1>13. QED
    BY <1>3, <1>4, <1>6, <1>7, <1>8, <1>9, <1>10, <1>11, <1>12 DEF ListStep

(* A probe's thread: others may ask its mount again before it sends.        *)
LEMMA InvThreadStep == ASSUME VolumesInv, NEW th \in threads, ProbeReturns(th) \/ ProbeSends(th)
                       PROVE VolumesInv'
  <1>1. PICK l, k, st : th = [list |-> l, line |-> k, stage |-> st]
    BY DEF VolumesInv, ThreadsOK
  <1>2. /\ th.list = l /\ th.line = k /\ l \in Request /\ k \in 1 .. Len(lists[l].rx)
        /\ lists[l].rx[k] = "open"
    BY <1>1 DEF VolumesInv, ThreadsOK
  <1>3. CASE ProbeReturns(th)
    <2>1. PICK new : new = [th EXCEPT !.stage = "sending"]
      OBVIOUS
    <2>2. new = [list |-> l, line |-> k, stage |-> "sending"]
      BY <1>1, <2>1
    <2>3. /\ new.list = l /\ new.line = k /\ new.stage = "sending"
          /\ new = [list |-> new.list, line |-> new.line, stage |-> new.stage]
      BY <2>2
    <2>4. /\ threads' = (threads \ {th}) \cup {new} /\ UNCHANGED lists /\ th \in Asking
          /\ probing' = probing \ {Asked(th).point}
      BY <1>3, <2>1 DEF ProbeReturns
    <2>5. ListsOK'
      BY <2>4 DEF VolumesInv, ListsOK
    <2>6. ThreadsOK'
      BY <1>2, <2>3, <2>4 DEF VolumesInv, ThreadsOK
    <2>7. Asking' = Asking \ {th}
      BY <2>3, <2>4 DEF Asking
    <2>8. \A t2 \in Asking : Asked(t2)' = Asked(t2)
      BY <2>4 DEF Asked
    <2>9. ProbesOnce'
      BY <2>4, <2>7, <2>8 DEF VolumesInv, ProbesOnce
    <2>10. QED BY <2>5, <2>6, <2>9 DEF VolumesInv
  <1>4. CASE ProbeSends(th)
    <2>1. PICK x : x = lists[l]
      OBVIOUS
    <2>2. PICK y : y = [x EXCEPT !.rx[k] = Usage(x.table[k])]
      OBVIOUS
    <2>3. ListOK(x)
      BY <1>2, <2>1 DEF VolumesInv, ListsOK
    <2>4. /\ threads' = threads \ {th} /\ UNCHANGED probing /\ th \notin Asking
          /\ lists' = [lists EXCEPT ![l] = y]
      BY <1>2, <1>4, <2>1, <2>2 DEF ProbeSends, Asked
    <2>5. ListOK(y)
      BY <1>2, <2>1, <2>2, <2>3, AnsweredOK
    <2>6. /\ y.table = x.table /\ Len(y.rx) = Len(x.rx)
          /\ \A i \in 1 .. Len(x.rx) : i # k => y.rx[i] = x.rx[i]
      BY <2>2, <2>3 DEF ListOK, Shaped
    <2>7. ListsOK'
      BY <2>4, <2>5 DEF VolumesInv, ListsOK
    <2>8. \A j \in Request : lists'[j] = IF j = l THEN y ELSE lists[j]
      BY <2>4 DEF VolumesInv, ListsOK
    <2>9. ASSUME NEW t2 \in threads, t2 # th
          PROVE  /\ t2.list \in Request
                 /\ t2.line \in 1 .. Len(lists'[t2.list].rx)
                 /\ lists'[t2.list].rx[t2.line] = "open"
                 /\ lists'[t2.list].table = lists[t2.list].table
      BY <1>2, <2>1, <2>6, <2>8, <2>9 DEF VolumesInv, ThreadsOK
    <2>10. ThreadsOK'
      BY <2>4, <2>9 DEF VolumesInv, ThreadsOK
    <2>11. Asking' = Asking
      BY <2>4 DEF Asking
    <2>12. \A t2 \in Asking : Asked(t2)' = Asked(t2)
      BY <2>4, <2>9 DEF Asked, Asking
    <2>13. ProbesOnce'
      BY <2>4, <2>11, <2>12 DEF VolumesInv, ProbesOnce
    <2>14. QED BY <2>7, <2>10, <2>13 DEF VolumesInv
  <1>5. QED BY <1>3, <1>4

THEOREM VolumesInvStep == VolumesInv /\ [VolumesNext]_volumesVars => VolumesInv'
  <1> SUFFICES ASSUME VolumesInv, [VolumesNext]_volumesVars PROVE VolumesInv'
    OBVIOUS
  <1>1. CASE UNCHANGED volumesVars
    BY <1>1, ThreadsUntouched DEF volumesVars
  <1>2. CASE MountOne
    BY <1>2, ThreadsUntouched DEF MountOne
  <1>3. ASSUME NEW l \in Request, ApplyVolumes(l) PROVE VolumesInv'
    BY <1>3, ThreadsUntouched DEF ApplyVolumes
  <1>4. QED BY <1>1, <1>2, <1>3, InvListStep, InvThreadStep DEF VolumesNext

-----------------------------------------------------------------------------
(* However often the picker is shown and whatever mounts never answer, one  *)
(* thread at most asks a mount point, and PROBING holds those asked.        *)
THEOREM VolumesProbesOnce == VolumesSpec => []ProbesOnce
  <1>1. VolumesInv => ProbesOnce
    BY DEF VolumesInv
  <1>2. QED BY VolumesInvInit, VolumesInvStep, <1>1, PTL DEF VolumesSpec

(* A list that is done has on it each mount that was asked inline and said  *)
(* how full it is, and each that did in time; and none that did not say     *)
(* (list_volumes).                                                          *)
THEOREM VolumesListsWhatAnswers == VolumesSpec => []ListsWhatAnswers
  <1>1. VolumesInv => ListsWhatAnswers
    <2> SUFFICES ASSUME VolumesInv, NEW l \in Request, lists[l].pc = "done",
                        NEW i \in 1 .. Len(lists[l].rx)
                 PROVE  LET m == lists[l].table[i]
                        IN  /\ i \in lists[l].shown => Usage(m) = "some"
                            /\ /\ Usage(m) = "some"
                               /\ m.fs \in LocalFilesystems
                                  \/ (~lists[l].expired /\ lists[l].rx[i] # "dropped")
                               => i \in lists[l].shown
      BY DEF ListsWhatAnswers
    <2>1. PICK x : x = lists[l]
      OBVIOUS
    <2>2. LineOK(x, i) /\ ListOK(x)
      BY <2>1 DEF VolumesInv, ListsOK, ListOK
    <2>3. i < x.next
      BY <2>1, <2>2 DEF ListOK, Shaped
    <2>4. QED BY <2>1, <2>2, <2>3 DEF LineOK
  <1>2. QED BY VolumesInvInit, VolumesInvStep, <1>1, PTL DEF VolumesSpec

-----------------------------------------------------------------------------
(* A walk's world, what is in it, and the files that count.                 *)
Nodes == 1 .. Len(world.nodes)
Counts(n) == Node(n).kind = "file" /\ Node(n).here /\ Node(n).size > 0

LEMMA KeepsWorld == ASSUME world \in Worlds PROVE Keeps(world)
  BY WorldsAssumption

LEMMA WorldTyped ==
    ASSUME world \in Worlds
    PROVE  /\ Len(world.nodes) \in Nat /\ DOMAIN world.nodes = Nodes
           /\ world.root \in Nodes /\ Root.kind = "dir"
           /\ world.platform \in {"linux", "macos", "windows"}
           /\ world.cross \in BOOLEAN /\ world.mountIds \in BOOLEAN /\ world.mnt \in Nat
           /\ \A n \in Nodes : Node(n) \in NodeType(Len(world.nodes))
  <1>1. world \in WorldType(Len(world.nodes)) /\ world.nodes[world.root].kind = "dir"
    BY KeepsWorld DEF Keeps
  <1>2. world.nodes \in Seq(NodeType(Len(world.nodes)))
    BY <1>1 DEF WorldType
  <1>3. /\ Len(world.nodes) \in Nat /\ DOMAIN world.nodes = Nodes
        /\ \A n \in Nodes : world.nodes[n] \in NodeType(Len(world.nodes))
    <2> DEFINE S == NodeType(Len(world.nodes))
    <2> HIDE DEF S
    <2>1. world.nodes \in Seq(S)
      BY <1>2 DEF S
    <2>2. /\ Len(world.nodes) \in Nat /\ DOMAIN world.nodes = Nodes
          /\ \A n \in Nodes : world.nodes[n] \in S
      BY <2>1, LenProperties, ElementOfSeq DEF Nodes
    <2>3. QED BY <2>2 DEF S
  <1>4. QED BY <1>1, <1>3 DEF WorldType, Nodes, Root, Node

LEMMA NodeTyped ==
    ASSUME world \in Worlds, NEW n \in Nodes
    PROVE  /\ Node(n).kind \in {"dir", "file", "other"} /\ Node(n).opens \in {"ok", "sealed", "fails"}
           /\ Node(n).dev \in Nat /\ Node(n).ino \in Nat /\ Node(n).size \in Nat /\ Node(n).links \in Nat
           /\ Node(n).here \in BOOLEAN /\ Node(n).pseudo \in BOOLEAN /\ Node(n).unique \in BOOLEAN
           /\ Node(n).list \in Seq(EntryType(Len(world.nodes)))
           /\ Len(Node(n).list) \in Nat
           /\ \A i \in 1 .. Len(Node(n).list) : Node(n).list[i] \in EntryType(Len(world.nodes))
  <1>1. Node(n) \in NodeType(Len(world.nodes))
    BY WorldTyped
  <1> DEFINE E == EntryType(Len(world.nodes))
  <1>2. Node(n).list \in Seq(E)
    BY <1>1 DEF NodeType
  <1>3. Len(Node(n).list) \in Nat /\ \A i \in 1 .. Len(Node(n).list) : Node(n).list[i] \in E
    <2> HIDE DEF E
    <2>1. QED BY <1>2, LenProperties, ElementOfSeq
  <1>4. QED BY <1>1, <1>2, <1>3 DEF NodeType

LEMMA WaysIs ==
    ASSUME NEW x
    PROVE  x \in Ways(world) <=>
             \E n \in Nodes : \E i \in 1 .. Len(Node(n).list) : x = [of |-> n, at |-> i, e |-> Node(n).list[i]]
  BY DEF Ways, Nodes, Node

LEMMA WayTyped ==
    ASSUME world \in Worlds, NEW x \in Ways(world)
    PROVE  /\ x.of \in Nodes /\ x.at \in 1 .. Len(Node(x.of).list) /\ x.e = Node(x.of).list[x.at]
           /\ x.e \in EntryType(Len(world.nodes))
           /\ x.e.name \in STRING /\ x.e.self \in Nodes /\ x.e.leads \in Nodes /\ x.e.mnt \in Nat
           /\ x.e.trigger \in BOOLEAN /\ x.e.firmlink \in BOOLEAN
           /\ x.e.flagged \in BOOLEAN /\ x.e.typed \in BOOLEAN
           /\ x.e.looks \in {"ok", "sealed", "fails"}
           /\ x.e.tag \in {"none", "surrogate", "cloud", "dfs"}
  <1>1. /\ x.of \in Nodes /\ x.at \in 1 .. Len(Node(x.of).list) /\ x.e = Node(x.of).list[x.at]
    BY WaysIs
  <1>2. x.e \in EntryType(Len(world.nodes))
    BY <1>1, NodeTyped
  <1>3. QED BY <1>1, <1>2 DEF EntryType, Nodes

-----------------------------------------------------------------------------
(* macOS: an attribute is read where it was put.                            *)
LEMMA Placed ==
    ASSUME NEW order, NEW n \in Nat, Len(order) = n, NEW R,
           \A i, j \in 1 .. n : order[i] = order[j] => i = j,
           \A a \in R : \E i \in 1 .. n : order[i] = a,
           NEW a \in R
    PROVE  /\ PlaceOf(a, order, R) \in 1 .. Cardinality(R)
           /\ \A b \in R : PlaceOf(b, order, R) = PlaceOf(a, order, R) => b = a
  <1> DEFINE Of(p) == {i \in 1 .. p : order[i] \in R}
             All == Of(n)
  <1>1. \A b \in R : \E p \in 1 .. n : order[p] = b /\ PlaceOf(b, order, R) = Cardinality(Of(p))
    <2> TAKE b \in R
    <2>1. PICK p \in 1 .. n : order[p] = b
      OBVIOUS
    <2>2. (CHOOSE i \in 1 .. Len(order) : order[i] = b) = p
      BY <2>1
    <2>3. QED BY <2>1, <2>2 DEF PlaceOf
  <1>2. IsFiniteSet(All)
    BY FS_Interval, FS_Subset
  <1>3. Cardinality(All) = Cardinality(R)
    <2> DEFINE f == [i \in All |-> order[i]]
    <2>1. f \in Bijection(All, R)
      <3>1. f \in [All -> R] /\ \A i, j \in All : f[i] = f[j] => i = j
        OBVIOUS
      <3>2. \A b \in R : \E i \in All : f[i] = b
        OBVIOUS
      <3> HIDE DEF f, All
      <3>3. QED BY <3>1, <3>2 DEF Bijection, Injection, Surjection, IsInjective
    <2>2. ExistsBijection(All, R)
      BY <2>1 DEF ExistsBijection
    <2> HIDE DEF All
    <2>3. QED BY <1>2, <2>2, FS_Bijection
  <1>4. ASSUME NEW p \in 1 .. n PROVE Of(p) \in SUBSET All /\ IsFiniteSet(Of(p)) /\ Cardinality(Of(p)) \in Nat /\ Cardinality(Of(p)) <= Cardinality(All)
    <2>1. Of(p) \in SUBSET All
      OBVIOUS
    <2> HIDE DEF Of, All
    <2>2. QED BY <1>2, <2>1, FS_Subset, FS_CardinalityType
  <1>5. ASSUME NEW p \in 1 .. n, NEW q \in 1 .. n, p < q, order[q] \in R
        PROVE  Cardinality(Of(p)) # Cardinality(Of(q))
    <2>1. Of(p) \in SUBSET Of(q) /\ q \in Of(q) /\ q \notin Of(p)
      BY <1>5
    <2>2. IsFiniteSet(Of(q))
      BY <1>4
    <2> HIDE DEF Of
    <2>3. QED BY <2>1, <2>2, FS_Subset
  <1>6. PICK p \in 1 .. n : order[p] = a /\ PlaceOf(a, order, R) = Cardinality(Of(p))
    BY <1>1
  <1>7. p \in Of(p)
    BY <1>6
  <1>8. Cardinality(Of(p)) # 0
    BY <1>4, <1>7, FS_EmptySet
  <1>9. PlaceOf(a, order, R) \in 1 .. Cardinality(R)
    <2>1. Cardinality(All) \in Nat
      BY <1>2, FS_CardinalityType
    <2> HIDE DEF Of, All
    <2>2. QED BY <1>3, <1>4, <1>6, <1>8, <2>1
  <1>10. ASSUME NEW b \in R, PlaceOf(b, order, R) = PlaceOf(a, order, R) PROVE b = a
    <2>1. PICK q \in 1 .. n : order[q] = b /\ PlaceOf(b, order, R) = Cardinality(Of(q))
      BY <1>1
    <2> HIDE DEF Of
    <2>2. ~ (p < q) /\ ~ (q < p)
      BY <1>5, <1>6, <1>10, <2>1
    <2>3. p = q
      BY <2>2
    <2>4. QED BY <1>6, <2>1, <2>3
  <1>11. QED BY <1>9, <1>10

LEMMA KernelOrderIs ==
    /\ Len(KernelOrder) = 9 /\ ReadOrder = KernelOrder
    /\ \A i, j \in 1 .. 9 : KernelOrder[i] = KernelOrder[j] => i = j
    /\ \A a \in {"NAME", "DEVID", "OBJTYPE", "MODTIME", "FLAGS", "FILEID", "MOUNTSTATUS", "LINKCOUNT", "DATALENGTH"} :
         \E i \in 1 .. 9 : KernelOrder[i] = a
  <1>1. ReadOrder = KernelOrder /\ Len(KernelOrder) = 9
    BY DEF ReadOrder, KernelOrder
  <1>2. /\ KernelOrder[1] = "NAME" /\ KernelOrder[2] = "DEVID" /\ KernelOrder[3] = "OBJTYPE"
        /\ KernelOrder[4] = "MODTIME" /\ KernelOrder[5] = "FLAGS" /\ KernelOrder[6] = "FILEID"
        /\ KernelOrder[7] = "MOUNTSTATUS" /\ KernelOrder[8] = "LINKCOUNT" /\ KernelOrder[9] = "DATALENGTH"
    BY DEF KernelOrder
  <1>3. \A i \in 1 .. 9 : i = 1 \/ i = 2 \/ i = 3 \/ i = 4 \/ i = 5 \/ i = 6 \/ i = 7 \/ i = 8 \/ i = 9
    OBVIOUS
  <1>4. \A i, j \in 1 .. 9 : KernelOrder[i] = KernelOrder[j] => i = j
    BY <1>2, <1>3
  <1>5. QED BY <1>1, <1>2, <1>4

LEMMA ParsedIs ==
    ASSUME NEW e, NEW a
    PROVE  Parsed(e, a) = IF a \in Returned(e) THEN AttributeOf(e, a) ELSE 0
  <1>1. CASE a \notin Returned(e)
    BY <1>1 DEF Parsed
  <1>2. CASE a \in Returned(e)
    <2> DEFINE R == Returned(e)
               k == PlaceOf(a, KernelOrder, R)
    <2>1. \A b \in R : \E i \in 1 .. 9 : KernelOrder[i] = b
      BY KernelOrderIs DEF Returned
    <2>2. k \in 1 .. Cardinality(R) /\ \A b \in R : PlaceOf(b, KernelOrder, R) = k => b = a
      <3>1. a \in R
        BY <1>2
      <3> HIDE DEF R
      <3>2. 9 \in Nat /\ Len(KernelOrder) = 9 /\ \A i, j \in 1 .. 9 : KernelOrder[i] = KernelOrder[j] => i = j
        BY KernelOrderIs
      <3>3. QED BY <2>1, <3>1, <3>2, Placed
    <2>3. (CHOOSE b \in R : PlaceOf(b, KernelOrder, R) = k) = a
      <3> HIDE DEF R
      <3>1. QED BY <1>2, <2>2 DEF R
    <2>4. Packed(e)[k] = AttributeOf(e, a)
      BY <2>2, <2>3 DEF Packed
    <2>5. QED BY <1>2, <2>4, KernelOrderIs DEF Parsed
  <1>3. QED BY <1>1, <1>2

-----------------------------------------------------------------------------
(* What ids name.  A path is one of Windows's, followed from the root.      *)
Trail(path, t) ==
    /\ t \in [0 .. Len(path) -> Nodes] /\ t[0] = world.root
    /\ \A i \in 1 .. Len(path) :
         \E x \in Ways(world) : x.of = t[i - 1] /\ x.e.name = path[i] /\ x.e.leads = t[i]
Follows(path, n) == path \in Seq(STRING) /\ \E t : Trail(path, t) /\ t[Len(path)] = n

(* The entry of a folder taken under its id.                                *)
Standin(n) == \E x \in Ways(world) : ByListing(world, x.e) /\ x.e.self = n

Names(id, n) ==
    \/ id = IdOf(n) /\ Tells(world, n) /\ ~Standin(n)
    \/ \E x \in Ways(world) : /\ ByListing(world, x.e) /\ Tells(world, x.e.self)
                              /\ id = IdOf(x.e.self) /\ n = x.e.leads
    \/ world.platform = "windows" /\ \E v, path : id = <<"path", v, path>> /\ Follows(path, n)

LEMMA FollowsOne ==
    ASSUME world \in Worlds, world.platform = "windows",
           NEW path, NEW m, NEW n, Follows(path, m), Follows(path, n)
    PROVE  m = n
  <1>1. PICK t : Trail(path, t) /\ t[Len(path)] = m
    BY DEF Follows
  <1>2. PICK u : Trail(path, u) /\ u[Len(path)] = n
    BY DEF Follows
  <1>3. Len(path) \in Nat
    BY LenProperties DEF Follows
  <1> DEFINE T == {i \in 0 .. Len(path) : t[i] = u[i]}
  <1>4. 0 \in T
    BY <1>1, <1>2, <1>3 DEF Trail
  <1>5. ASSUME NEW i \in 1 .. Len(path), i - 1 \in T PROVE i \in T
    <2>1. PICK x \in Ways(world) : x.of = t[i - 1] /\ x.e.name = path[i] /\ x.e.leads = t[i]
      BY <1>1 DEF Trail
    <2>2. PICK y \in Ways(world) : y.of = u[i - 1] /\ y.e.name = path[i] /\ y.e.leads = u[i]
      BY <1>2 DEF Trail
    <2>3. x = y
      BY <1>5, <2>1, <2>2, KeepsWorld DEF Keeps, WindowsKeeps
    <2>4. QED BY <1>3, <2>1, <2>2, <2>3
  <1> HIDE DEF T
  <1>6. 0 .. Len(path) \subseteq T
    BY <1>3, <1>4, <1>5, Induct
  <1>7. Len(path) \in T
    BY <1>3, <1>6
  <1>8. QED BY <1>1, <1>2, <1>7 DEF T

LEMMA FollowsOn ==
    ASSUME world \in Worlds, NEW x \in Ways(world), NEW path, Follows(path, x.of)
    PROVE  Follows(Append(path, x.e.name), x.e.leads)
  <1>1. PICK t : Trail(path, t) /\ t[Len(path)] = x.of
    BY DEF Follows
  <1> DEFINE l == Len(path)
             next == Append(path, x.e.name)
             u == [i \in 0 .. l + 1 |-> IF i = l + 1 THEN x.e.leads ELSE t[i]]
  <1>2. x.e.name \in STRING /\ x.e.leads \in Nodes
    BY WayTyped
  <1>3. /\ next \in Seq(STRING) /\ l \in Nat /\ Len(next) = l + 1
        /\ \A i \in 1 .. l : next[i] = path[i]
        /\ next[l + 1] = x.e.name
    BY <1>2, AppendProperties, LenProperties DEF Follows
  <1>4. u \in [0 .. l + 1 -> Nodes]
    <2>1. \A i \in 0 .. l + 1 : i # l + 1 => i \in 0 .. l
      BY <1>3
    <2>2. QED BY <1>1, <1>2, <2>1 DEF Trail
  <1>5. u[0] = world.root
    BY <1>1, <1>3 DEF Trail
  <1>6. ASSUME NEW i \in 1 .. l + 1
        PROVE  \E y \in Ways(world) : y.of = u[i - 1] /\ y.e.name = next[i] /\ y.e.leads = u[i]
    <2>1. CASE i = l + 1
      <3>1. u[i - 1] = t[l] /\ u[i] = x.e.leads /\ next[i] = x.e.name
        BY <1>3, <2>1
      <3>2. QED BY <1>1, <3>1
    <2>2. CASE i # l + 1
      <3>1. i \in 1 .. l
        BY <1>3, <2>2
      <3>2. u[i - 1] = t[i - 1] /\ u[i] = t[i] /\ next[i] = path[i]
        BY <1>3, <3>1
      <3>3. QED BY <1>1, <3>1, <3>2 DEF Trail
    <2>3. QED BY <2>1, <2>2
  <1>7. u[l + 1] = x.e.leads
    BY <1>3
  <1> HIDE DEF u, next
  <1>8. Trail(next, u)
    BY <1>3, <1>4, <1>5, <1>6 DEF Trail
  <1>9. QED BY <1>3, <1>7, <1>8 DEF Follows, next

LEMMA IdsDiffer ==
    ASSUME world \in Worlds, NEW m \in Nodes, NEW n \in Nodes, IdOf(m) = IdOf(n),
           Tells(world, m), Tells(world, n)
    PROVE  m = n
  <1>1. world.nodes[m].dev = world.nodes[n].dev /\ world.nodes[m].ino = world.nodes[n].ino
    BY DEF IdOf, NodeId, Node
  <1>2. QED BY <1>1, KeepsWorld DEF Keeps, Nodes

(* Nothing leads to one, and it stands for one folder.                      *)
LEMMA StandsIn ==
    ASSUME world \in Worlds
    PROVE  /\ ~Standin(world.root) /\ \A x \in Ways(world) : ~Standin(x.e.leads)
           /\ \A x, y \in Ways(world) :
                ByListing(world, x.e) /\ ByListing(world, y.e) /\ x.e.self = y.e.self => x.e.leads = y.e.leads
  <1>1. \A x \in Ways(world) : ByListing(world, x.e) =>
              /\ x.e.self # world.root
              /\ \A y \in Ways(world) : /\ y.e.leads # x.e.self
                                        /\ ByListing(world, y.e) /\ y.e.self = x.e.self => y.e.leads = x.e.leads
    BY KeepsWorld DEF Keeps
  <1>2. QED BY <1>1 DEF Standin

LEMMA NamesOne ==
    ASSUME world \in Worlds, NEW id, NEW m \in Nodes, NEW n \in Nodes, Names(id, m), Names(id, n)
    PROVE  m = n
  <1> DEFINE Its(k) == id = IdOf(k) /\ Tells(world, k) /\ ~Standin(k)
             Listing(k) == \E x \in Ways(world) : /\ ByListing(world, x.e) /\ Tells(world, x.e.self)
                                                  /\ id = IdOf(x.e.self) /\ k = x.e.leads
             Path(k) == world.platform = "windows" /\ \E v, path : id = <<"path", v, path>> /\ Follows(path, k)
  <1>1. (Its(m) \/ Listing(m) \/ Path(m)) /\ (Its(n) \/ Listing(n) \/ Path(n))
    BY DEF Names
  <1>2. ASSUME NEW j \in Nodes, NEW k \in Nodes, Its(j), Its(k) PROVE j = k
    BY <1>2, IdsDiffer
  <1>3. ASSUME NEW j \in Nodes, NEW k \in Nodes, Its(j), Listing(k) PROVE FALSE
    <2>1. PICK x \in Ways(world) : ByListing(world, x.e) /\ Tells(world, x.e.self) /\ id = IdOf(x.e.self)
      BY <1>3
    <2>2. x.e.self \in Nodes
      BY WayTyped
    <2>3. x.e.self = j
      BY <1>3, <2>1, <2>2, IdsDiffer
    <2>4. QED BY <1>3, <2>1, <2>3 DEF Standin
  <1>4. ASSUME NEW j \in Nodes, NEW k \in Nodes, Its(j) \/ Listing(j), Path(k) PROVE FALSE
    BY <1>4 DEF IdOf, NodeId
  <1>5. ASSUME NEW j \in Nodes, NEW k \in Nodes, Listing(j), Listing(k) PROVE j = k
    <2>1. PICK x \in Ways(world) : /\ ByListing(world, x.e) /\ Tells(world, x.e.self)
                                   /\ id = IdOf(x.e.self) /\ j = x.e.leads
      BY <1>5
    <2>2. PICK y \in Ways(world) : /\ ByListing(world, y.e) /\ Tells(world, y.e.self)
                                   /\ id = IdOf(y.e.self) /\ k = y.e.leads
      BY <1>5
    <2>3. x.e.self \in Nodes /\ y.e.self \in Nodes
      BY WayTyped
    <2>4. x.e.self = y.e.self
      BY <2>1, <2>2, <2>3, IdsDiffer
    <2>5. QED BY <2>1, <2>2, <2>4, StandsIn
  <1>6. ASSUME NEW j \in Nodes, NEW k \in Nodes, Path(j), Path(k) PROVE j = k
    <2>1. PICK v, path : id = <<"path", v, path>> /\ Follows(path, j)
      BY <1>6
    <2>2. PICK v2, path2 : id = <<"path", v2, path2>> /\ Follows(path2, k)
      BY <1>6
    <2>3. path = path2
      BY <2>1, <2>2
    <2>4. QED BY <1>6, <2>1, <2>2, <2>3, FollowsOne
  <1> HIDE DEF Its, Listing, Path
  <1>7. QED BY <1>1, <1>2, <1>3, <1>4, <1>5, <1>6

(* An id is something.                                                      *)
LEMMA NamesSomething == ASSUME NEW id, NEW n, Names(id, n) PROVE id # <<>>
  BY DEF Names, IdOf, NodeId

-----------------------------------------------------------------------------
(* A folder found and not read: it is the walk's own, and told from others. *)
PseudoMount(mnt) == \E m \in world.mounts : m.pseudo /\ m.id = mnt

Told(id, n) == Names(id, n) /\ (id = IdOf(n) \/ Aliased(world, n) \/ ~Tells(world, n))
Own(n) == ~world.mountIds => Node(n).dev = Root.dev \/ world.cross

JobOK(j) ==
    /\ j.node \in Nodes /\ Node(j.node).kind = "dir" /\ Told(j.id, j.node) /\ Own(j.node)
    /\ world.platform = "linux" /\ world.mountIds =>
         j.mnt = world.mnt \/ (world.cross /\ ~PseudoMount(j.mnt))
    /\ world.platform = "windows" => Follows(j.path, j.node) /\ j.unique = Node(j.node).unique

(* What may be made of an entry.  A file mounted on another is taken         *)
(* wherever it is from; nothing else is that isn't the walk's own.          *)
LinkOK(link, n) == link = IF Unlinked(world, n) THEN NoLink ELSE IdOf(n)

LeavesOut(t, x) == t = Nothing /\ (Enters(x.e) => Node(x.e.leads).kind = "other")
Fails(t, x) ==
    \E err : /\ t = Failed(err)
             /\ Enters(x.e) /\ Quiet(err) => Node(x.e.leads).kind = "dir" /\ Node(x.e.leads).opens # "ok"
TakesFile(t, x) ==
    /\ Enters(x.e) \/ x.e.mnt # 0
    /\ Node(x.e.leads).kind # "dir"
    /\ \E size, link : /\ t = File(x.e.leads, size, link)
                       /\ LinkOK(link, x.e.leads) /\ size \in Nat
                       /\ Counts(x.e.leads) => size # 0
TakesDir(t, x, job) ==
    /\ Enters(x.e) /\ Node(x.e.leads).kind = "dir"
    /\ \E j : t = Subfolder(j) /\ j.node = x.e.leads /\ j.parent = job.id /\ JobOK(j)

EntryOK(t, x, job) == LeavesOut(t, x) \/ Fails(t, x) \/ TakesFile(t, x) \/ TakesDir(t, x, job)

LEMMA Linked ==
    ASSUME NEW n, ~Unlinked(world, n) PROVE Tells(world, n)
  BY DEF Unlinked, Tells

(* The id of what an entry leads to, and the one it is listed under.        *)
LEMMA ToldItself ==
    ASSUME world \in Worlds, NEW x \in Ways(world), Tells(world, x.e.leads)
    PROVE  Told(IdOf(x.e.leads), x.e.leads)
  BY StandsIn DEF Told, Names

LEMMA ToldByListing ==
    ASSUME NEW x \in Ways(world), ByListing(world, x.e), Tells(world, x.e.self)
    PROVE  Told(IdOf(x.e.self), x.e.leads)
  BY DEF Told, Names, Aliased

LEMMA LinuxWay ==
    ASSUME world \in Worlds, world.platform = "linux", NEW x \in Ways(world)
    PROVE  /\ x.e.tag = "none" /\ x.e.leads \in Nodes /\ x.e.self \in Nodes /\ Stated(x.e) \in Nodes
           /\ Node(x.e.leads).kind = "dir" <=> Node(x.e.self).kind = "dir"
           /\ x.e.mnt # 0 => x.e.mnt # world.mnt
           /\ world.mountIds /\ x.e.mnt # 0 => (Node(Stated(x.e)).pseudo <=> PseudoMount(x.e.mnt))
           /\ x.e.trigger => Node(x.e.self).kind = "dir"
           /\ x.e.mnt = 0 /\ ~x.e.trigger => x.e.leads = x.e.self
           /\ \A n \in Nodes : Tells(world, n)
  <1>1. x.e.leads \in Nodes /\ x.e.self \in Nodes
    BY WayTyped
  <1>2. Keeps(world) /\ LinuxKeeps(world)
    BY KeepsWorld DEF Keeps
  <1>3. Node(x.e.leads).kind = "dir" <=> Node(x.e.self).kind = "dir"
    BY <1>2 DEF Keeps, Node
  <1>4. /\ x.e.tag = "none" /\ (x.e.mnt # 0 => x.e.mnt # world.mnt)
        /\ world.mountIds /\ x.e.mnt # 0 => (Node(Stated(x.e)).pseudo <=> PseudoMount(x.e.mnt))
        /\ x.e.trigger => Node(x.e.self).kind = "dir"
        /\ x.e.mnt = 0 /\ ~x.e.trigger => x.e.leads = x.e.self
    BY <1>2 DEF LinuxKeeps, Node, Stated, PseudoMount
  <1>5. QED BY <1>1, <1>3, <1>4 DEF Stated, Tells

LEMMA LinuxLeavesOut ==
    ASSUME world \in Worlds, world.platform = "linux", NEW job, JobOK(job),
           NEW x \in Ways(world), x.e.looks = "ok", Node(x.e.self).kind = "dir"
    PROVE  LeftOut(x.e, job) <=> ~Enters(x.e)
  <1> DEFINE e == x.e
             n == Stated(e)
             foreign == Filesystem(n, MountOf(e, job)) # Filesystem(world.root, world.mnt)
             known == Pseudo(n, MountOf(e, job))
  <1>1. /\ LeftOut(e, job) <=> IF world.cross THEN foreign /\ known ELSE foreign \/ e.trigger
        /\ Enters(e) <=> (e.trigger => world.cross) /\ (Foreign(e) => world.cross /\ ~Node(n).pseudo)
    <2>1. e.tag # "surrogate" /\ ~Unseen(e)
      BY LinuxWay DEF Unseen
    <2>2. QED BY <2>1 DEF LeftOut, Enters
  <1>2. /\ world.cross \in BOOLEAN /\ e.trigger \in BOOLEAN /\ n \in Nodes /\ Node(n).pseudo \in BOOLEAN
    BY WorldTyped, WayTyped, LinuxWay, NodeTyped
  <1>3. CASE world.mountIds /\ e.mnt = 0
    <2>1. MountOf(e, job) = job.mnt /\ ~Foreign(e)
      BY <1>3 DEF MountOf, Foreign
    <2>2. (foreign <=> job.mnt # world.mnt) /\ (known <=> PseudoMount(job.mnt))
      BY <1>3, <2>1 DEF Filesystem, Pseudo, PseudoMount
    <2>3. job.mnt = world.mnt \/ (world.cross /\ ~PseudoMount(job.mnt))
      BY <1>3 DEF JobOK
    <2> HIDE DEF foreign, known, n
    <2>4. QED BY <1>1, <1>2, <2>1, <2>2, <2>3
  <1>4. CASE world.mountIds /\ e.mnt # 0
    <2>1. MountOf(e, job) = e.mnt /\ Foreign(e)
      BY <1>4 DEF MountOf, Foreign
    <2>2. e.mnt # world.mnt /\ (Node(n).pseudo <=> PseudoMount(e.mnt))
      BY <1>4, LinuxWay
    <2>3. foreign /\ (known <=> PseudoMount(e.mnt))
      BY <1>4, <2>1, <2>2 DEF Filesystem, Pseudo, PseudoMount
    <2> HIDE DEF foreign, known, n
    <2>4. QED BY <1>1, <1>2, <2>1, <2>2, <2>3
  <1>5. CASE ~world.mountIds
    <2>1. (foreign <=> Node(n).dev # Root.dev) /\ (Foreign(e) <=> Node(n).dev # Root.dev)
      BY <1>5 DEF Filesystem, Root, Foreign
    <2>2. Node(n).dev # Root.dev => (Node(n).pseudo <=> \E m \in world.mounts : m.pseudo /\ m.dev = Node(n).dev)
      BY <1>2, <1>5, KeepsWorld DEF Keeps, LinuxKeeps, Node, Root, Nodes
    <2>3. Node(n).dev # Root.dev => (known <=> Node(n).pseudo)
      BY <1>5, <2>2 DEF Pseudo
    <2> HIDE DEF foreign, known, n
    <2>4. QED BY <1>1, <1>2, <2>1, <2>3
  <1>6. QED BY <1>3, <1>4, <1>5

LEMMA LinuxEntryOK ==
    ASSUME world \in Worlds, world.platform = "linux", NEW job, JobOK(job),
           NEW x \in Ways(world), x.of = job.node
    PROVE  EntryOK(LinuxEntry(job, x.e), x, job)
  <1> DEFINE e == x.e
             n == Node(Stated(e))
             kind == IF e.typed THEN Node(e.self).kind ELSE n.kind
             t == LinuxEntry(job, e)
  <1>1. /\ e.leads \in Nodes /\ e.self \in Nodes /\ Stated(e) \in Nodes
        /\ Node(e.leads).kind = "dir" <=> Node(e.self).kind = "dir"
        /\ e.trigger => Node(e.self).kind = "dir"
        /\ e.mnt = 0 /\ ~e.trigger => e.leads = e.self
        /\ Tells(world, e.leads) /\ Tells(world, e.self)
    BY LinuxWay
  <1>2. n.kind = "dir" <=> Node(e.self).kind = "dir"
    BY <1>1 DEF Stated
  <1>3. kind \in {"dir", "file", "other"} /\ (kind = "dir" <=> Node(e.self).kind = "dir")
    BY <1>1, <1>2, NodeTyped
  <1>4. CASE kind = "other" /\ (e.typed \/ e.looks = "ok")
    <2>1. t = Nothing
      BY <1>4 DEF LinuxEntry
    <2>2. Enters(e) => Node(e.leads).kind = "other"
      <3>1. CASE e.typed
        BY <1>4, <3>1 DEF Enters
      <3>2. CASE ~e.typed
        <4>1. ~e.trigger
          BY <1>1, <1>3, <1>4
        <4>2. QED BY <1>4, <3>2, <4>1 DEF Stated
      <3>3. QED BY <3>1, <3>2
    <2>3. QED BY <2>1, <2>2 DEF EntryOK, LeavesOut
  <1>5. CASE ~(kind = "other" /\ (e.typed \/ e.looks = "ok")) /\ e.looks # "ok"
    <2>1. t = Failed(e.looks)
      BY <1>5 DEF LinuxEntry
    <2>2. QED BY <2>1 DEF EntryOK, Fails, Enters, Unseen, Quiet
  <1>6. CASE e.looks = "ok" /\ kind = "file"
    <2>1. t = File(Stated(e), n.size, IF n.links > 1 THEN IdOf(Stated(e)) ELSE NoLink)
      BY <1>6 DEF LinuxEntry
    <2>2. ~e.trigger /\ Stated(e) = e.leads /\ Node(e.leads).kind # "dir"
      BY <1>1, <1>3, <1>6 DEF Stated
    <2>3. Enters(e) \/ e.mnt # 0
      <3>1. CASE e.mnt = 0
        <4>1. Node(e.self).kind = "file"
          BY <1>1, <1>6, <2>2, <3>1 DEF Stated
        <4>2. e.tag # "surrogate" /\ ~Unseen(e)
          BY <1>6, LinuxWay DEF Unseen
        <4>3. QED BY <2>2, <3>1, <4>1, <4>2 DEF Enters
      <3>2. QED BY <3>1
    <2>4. LinkOK(IF n.links > 1 THEN IdOf(Stated(e)) ELSE NoLink, e.leads)
      <3>1. n.links \in Nat
        BY <1>1, NodeTyped
      <3>2. QED BY <2>2, <3>1 DEF LinkOK, Unlinked, Node
    <2>5. Node(e.leads).size \in Nat
      BY <1>1, NodeTyped
    <2>6. TakesFile(t, x)
      BY <2>1, <2>2, <2>3, <2>4, <2>5 DEF TakesFile, Counts
    <2>7. QED BY <2>6 DEF EntryOK
  <1>7. CASE e.looks = "ok" /\ kind = "dir" /\ LeftOut(e, job)
    <2>1. t = Nothing
      BY <1>7 DEF LinuxEntry
    <2>2. ~Enters(e)
      BY <1>3, <1>7, LinuxLeavesOut
    <2>3. QED BY <2>1, <2>2 DEF EntryOK, LeavesOut
  <1>8. CASE e.looks = "ok" /\ kind = "dir" /\ ~LeftOut(e, job)
    <2> DEFINE j == Job(e.leads, IdOf(Stated(e)), job.id, MountOf(e, job), <<>>, TRUE)
    <2>1. t = Subfolder(j)
      BY <1>8 DEF LinuxEntry
    <2>2. Enters(e) /\ Node(e.self).kind = "dir"
      BY <1>3, <1>8, LinuxLeavesOut
    <2>3. Told(IdOf(Stated(e)), e.leads)
      <3>1. CASE e.trigger /\ e.leads # e.self
        BY <1>1, <3>1, ToldByListing DEF ByListing, Stated
      <3>2. CASE ~(e.trigger /\ e.leads # e.self)
        BY <1>1, <3>2, ToldItself DEF Stated
      <3>3. QED BY <3>1, <3>2
    <2>4. Own(e.leads)
      <3>1. e.trigger => world.cross
        BY <2>2 DEF Enters
      <3>2. ~world.mountIds /\ ~e.trigger => Node(e.leads).dev = Root.dev \/ world.cross
        BY <2>2 DEF Enters, Foreign, Stated
      <3>3. QED BY <3>1, <3>2 DEF Own
    <2>5. world.mountIds => MountOf(e, job) = world.mnt \/ (world.cross /\ ~PseudoMount(MountOf(e, job)))
      <3>1. CASE e.mnt = 0
        BY <3>1 DEF MountOf, JobOK
      <3>2. CASE e.mnt # 0 /\ world.mountIds
        <4>1. world.cross /\ ~n.pseudo
          BY <2>2, <3>2 DEF Enters, Foreign
        <4>2. n.pseudo <=> PseudoMount(e.mnt)
          BY <3>2, LinuxWay
        <4>3. QED BY <3>2, <4>1, <4>2 DEF MountOf
      <3>3. QED BY <3>1, <3>2
    <2>6. JobOK(j) /\ j.node = e.leads /\ j.parent = job.id /\ Node(e.leads).kind = "dir"
      BY <1>1, <2>2, <2>3, <2>4, <2>5 DEF JobOK, Job
    <2> HIDE DEF j
    <2>7. TakesDir(t, x, job)
      BY <2>1, <2>2, <2>6 DEF TakesDir
    <2>8. QED BY <2>7 DEF EntryOK
  <1>9. QED BY <1>3, <1>4, <1>5, <1>6, <1>7, <1>8

LEMMA MacParsed ==
    ASSUME NEW e
    PROVE  LET n == Node(e.self)
               dir == n.kind = "dir"
           IN  /\ Parsed(e, "DEVID") = n.dev /\ Parsed(e, "OBJTYPE") = n.kind /\ Parsed(e, "FILEID") = n.ino
               /\ Parsed(e, "FLAGS") = IF ~e.flagged THEN 0 ELSE IF ~n.here THEN 1 ELSE IF e.firmlink THEN 2 ELSE 0
               /\ Parsed(e, "MOUNTSTATUS") = IF ~dir THEN 0 ELSE IF e.trigger THEN 2 ELSE IF e.mnt = 0 THEN 0 ELSE 1
               /\ Parsed(e, "LINKCOUNT") = IF dir THEN 0 ELSE n.links
               /\ Parsed(e, "DATALENGTH") = IF dir THEN 0 ELSE n.size
  <1>1. Parsed(e, "DEVID") = Node(e.self).dev
    BY ParsedIs DEF Returned, AttributeOf
  <1>2. Parsed(e, "OBJTYPE") = Node(e.self).kind
    BY ParsedIs DEF Returned, AttributeOf
  <1>3. Parsed(e, "FILEID") = Node(e.self).ino
    BY ParsedIs DEF Returned, AttributeOf
  <1>4. Parsed(e, "FLAGS") = IF ~e.flagged THEN 0 ELSE IF ~Node(e.self).here THEN 1 ELSE IF e.firmlink THEN 2 ELSE 0
    <2>1. "FLAGS" \in Returned(e) <=> e.flagged
      BY DEF Returned
    <2>2. QED BY <2>1, ParsedIs DEF AttributeOf, DATALESS, FIRMLINK
  <1>5. Parsed(e, "MOUNTSTATUS") = IF Node(e.self).kind # "dir" THEN 0 ELSE IF e.trigger THEN 2 ELSE IF e.mnt = 0 THEN 0 ELSE 1
    <2>1. "MOUNTSTATUS" \in Returned(e) <=> Node(e.self).kind = "dir"
      BY DEF Returned
    <2>2. QED BY <2>1, ParsedIs DEF AttributeOf, TRIGGER
  <1>6. Parsed(e, "LINKCOUNT") = IF Node(e.self).kind = "dir" THEN 0 ELSE Node(e.self).links
    <2>1. "LINKCOUNT" \in Returned(e) <=> Node(e.self).kind # "dir"
      BY DEF Returned
    <2>2. QED BY <2>1, ParsedIs DEF AttributeOf
  <1>7. Parsed(e, "DATALENGTH") = IF Node(e.self).kind = "dir" THEN 0 ELSE Node(e.self).size
    <2>1. "DATALENGTH" \in Returned(e) <=> Node(e.self).kind # "dir"
      BY DEF Returned
    <2>2. QED BY <2>1, ParsedIs DEF AttributeOf
  <1>8. QED BY <1>1, <1>2, <1>3, <1>4, <1>5, <1>6, <1>7

LEMMA MacWay ==
    ASSUME world \in Worlds, world.platform = "macos", NEW x \in Ways(world)
    PROVE  /\ x.e.tag = "none" /\ x.e.leads \in Nodes /\ x.e.self \in Nodes
           /\ Node(x.e.leads).kind = "dir" <=> Node(x.e.self).kind = "dir"
           /\ Node(x.e.self).kind # "dir" => x.e.leads = x.e.self /\ x.e.mnt = 0 /\ ~x.e.trigger /\ ~x.e.firmlink
           /\ Node(x.e.self).dev = Node(x.of).dev /\ ~world.mountIds
           /\ \A k \in Nodes : ~Node(k).pseudo /\ Tells(world, k)
           /\ x.e.mnt = 0 /\ ~x.e.trigger /\ ~x.e.firmlink => x.e.leads = x.e.self
           /\ x.e.firmlink => /\ x.e.flagged /\ Node(x.e.self).here
                              /\ Node(x.e.leads).dev = Node(x.e.self).dev
  <1>1. x.e.leads \in Nodes /\ x.e.self \in Nodes
    BY WayTyped
  <1>2. Keeps(world) /\ MacKeeps(world) /\ world.platform # "linux"
    BY KeepsWorld DEF Keeps
  <1>3. /\ Node(x.e.leads).kind = "dir" <=> Node(x.e.self).kind = "dir"
        /\ Node(x.e.self).kind # "dir" => x.e.leads = x.e.self /\ x.e.mnt = 0 /\ ~x.e.trigger /\ ~x.e.firmlink
    BY <1>2 DEF Keeps, Node
  <1>4. /\ x.e.tag = "none" /\ Node(x.e.self).dev = Node(x.of).dev /\ ~world.mountIds
        /\ x.e.mnt = 0 /\ ~x.e.trigger /\ ~x.e.firmlink => x.e.leads = x.e.self
        /\ x.e.firmlink => /\ x.e.flagged /\ Node(x.e.self).here
                           /\ Node(x.e.leads).dev = Node(x.e.self).dev
    BY <1>2 DEF MacKeeps, Node
  <1>5. \A k \in Nodes : ~Node(k).pseudo /\ Tells(world, k)
    BY <1>2 DEF MacKeeps, Node, Nodes, Tells
  <1>6. QED BY <1>1, <1>3, <1>4, <1>5

(* A folder's id is its own, or that of a firmlink that couldn't be         *)
(* followed, and nothing's only if the walk leaves it out.                  *)
LEMMA MacDirIdIs ==
    ASSUME world \in Worlds, world.platform = "macos", NEW x \in Ways(world),
           Node(x.e.self).kind = "dir",
           world.cross \/ Node(x.e.self).dev = Root.dev
    PROVE  /\ ~Enters(x.e) => MacDirId(x.e) = <<>>
           /\ Enters(x.e) => \/ MacDirId(x.e) = <<IdOf(x.e.leads)>>
                             \/ MacDirId(x.e) = <<IdOf(x.e.self)>> /\ ByListing(world, x.e)
  <1> DEFINE e == x.e
             leads == Node(e.leads)
  <1>1. /\ e.tag = "none" /\ ~world.mountIds /\ ~Node(Stated(e)).pseudo /\ world.cross \in BOOLEAN
        /\ e.trigger \in BOOLEAN /\ e.firmlink \in BOOLEAN
    BY MacWay, WayTyped, WorldTyped DEF Stated
  <1>2. Enters(e) <=> /\ ~Unseen(e) /\ (e.trigger => world.cross)
                      /\ Node(Stated(e)).dev = Root.dev \/ world.cross
    BY <1>1 DEF Enters, Foreign
  <1>3. Unseen(e) <=> (e.mnt # 0 \/ e.trigger) /\ e.looks # "ok"
    BY DEF Unseen
  <1>4. CASE e.trigger \/ e.mnt # 0
    <2>1. Parsed(e, "MOUNTSTATUS") # 0 /\ (Parsed(e, "MOUNTSTATUS") = TRIGGER <=> e.trigger)
      BY <1>4, MacParsed DEF TRIGGER
    <2>2. MacDirId(e) = IF (~world.cross /\ e.trigger) \/ e.looks # "ok" \/ (~world.cross /\ leads.dev # Root.dev)
                        THEN <<>> ELSE <<IdOf(e.leads)>>
      BY <2>1 DEF MacDirId
    <2>3. ~e.trigger => Node(Stated(e)) = leads
      BY DEF Stated
    <2>4. QED BY <1>1, <1>2, <1>3, <1>4, <2>2, <2>3
  <1>5. CASE ~e.trigger /\ e.mnt = 0
    <2>1. Parsed(e, "MOUNTSTATUS") = 0
      BY <1>5, MacParsed
    <2>2. /\ e.firmlink \/ e.leads = e.self
          /\ e.firmlink => e.flagged /\ Node(e.self).here /\ leads.dev = Node(e.self).dev
      BY <1>5, MacWay
    <2>3. Enters(e)
      <3>1. Node(Stated(e)) = leads /\ leads.dev = Node(e.self).dev
        BY <1>5, <2>2 DEF Stated
      <3>2. QED BY <1>2, <1>3, <1>5, <3>1
    <2>4. CASE Parsed(e, "FLAGS") = FIRMLINK /\ e.looks = "ok"
      <3>1. MacDirId(e) = <<IdOf(e.leads)>>
        BY <2>1, <2>4 DEF MacDirId
      <3>2. QED BY <2>3, <3>1
    <2>5. CASE ~(Parsed(e, "FLAGS") = FIRMLINK /\ e.looks = "ok")
      <3>1. MacDirId(e) = <<NodeId(Parsed(e, "DEVID"), Parsed(e, "FILEID"))>>
        BY <2>1, <2>5 DEF MacDirId
      <3>2. MacDirId(e) = <<IdOf(e.self)>>
        BY <3>1, MacParsed DEF IdOf
      <3>3. e.firmlink => e.looks # "ok"
        BY <2>2, <2>5, MacParsed DEF FIRMLINK
      <3>4. e.leads = e.self \/ ByListing(world, e)
        BY <1>5, <2>2, <3>3 DEF ByListing
      <3>5. QED BY <2>3, <3>2, <3>4
    <2>6. QED BY <2>4, <2>5
  <1>6. QED BY <1>4, <1>5

LEMMA MacEntryOK ==
    ASSUME world \in Worlds, world.platform = "macos", NEW job, JobOK(job),
           NEW x \in Ways(world), x.of = job.node
    PROVE  EntryOK(MacEntry(job, x.e), x, job)
  <1> DEFINE e == x.e
             n == Node(e.self)
             t == MacEntry(job, e)
  <1>1. /\ e.leads \in Nodes /\ e.self \in Nodes /\ (n.kind = "dir" <=> Node(e.leads).kind = "dir")
        /\ n.kind # "dir" => e.leads = e.self /\ e.mnt = 0 /\ ~e.trigger
        /\ n.kind \in {"dir", "file", "other"} /\ Tells(world, e.leads) /\ Tells(world, e.self)
    BY MacWay, NodeTyped
  <1>2. n.dev = Root.dev \/ world.cross
    BY MacWay DEF JobOK, Own
  <1>3. Parsed(e, "DEVID") = n.dev /\ Parsed(e, "OBJTYPE") = n.kind /\ NodeId(Parsed(e, "DEVID"), Parsed(e, "FILEID")) = IdOf(e.self)
    BY MacParsed DEF IdOf
  <1>4. CASE n.kind = "other"
    <2>1. t = Nothing
      BY <1>3, <1>4 DEF MacEntry
    <2>2. QED BY <1>4, <2>1 DEF EntryOK, LeavesOut, Enters
  <1>5. CASE n.kind = "file"
    <2> DEFINE size == IF Parsed(e, "FLAGS") = DATALESS THEN 0 ELSE Parsed(e, "DATALENGTH")
               link == IF Parsed(e, "LINKCOUNT") > 1 THEN IdOf(e.self) ELSE NoLink
    <2>1. t = File(e.self, size, link)
      BY <1>2, <1>3, <1>5 DEF MacEntry
    <2>2. e.leads = e.self /\ e.mnt = 0 /\ ~e.trigger
      BY <1>1, <1>5
    <2>3. Enters(e)
      <3>1. e.tag # "surrogate" /\ ~Unseen(e)
        BY <2>2, MacWay DEF Unseen
      <3>2. QED BY <1>5, <2>2, <3>1 DEF Enters
    <2>4. n.links \in Nat /\ n.size \in Nat /\ n.here \in BOOLEAN
      BY <1>1, NodeTyped
    <2>5. LinkOK(link, e.leads)
      <3>1. Parsed(e, "LINKCOUNT") = n.links
        BY <1>5, MacParsed
      <3>2. QED BY <2>2, <2>4, <3>1 DEF LinkOK, Unlinked, Node
    <2>6. size \in Nat /\ (Counts(e.leads) => size # 0)
      <3>1. Parsed(e, "DATALENGTH") = n.size /\ (n.here => Parsed(e, "FLAGS") # DATALESS)
        BY <1>5, MacParsed DEF DATALESS
      <3>2. QED BY <2>2, <2>4, <3>1 DEF Counts
    <2> HIDE DEF size, link, t
    <2>7. TakesFile(t, x)
      BY <1>5, <2>1, <2>2, <2>3, <2>5, <2>6 DEF TakesFile
    <2>8. QED BY <2>7 DEF EntryOK, t
  <1>6. CASE n.kind = "dir" /\ ~Enters(e)
    <2>1. MacDirId(e) = <<>>
      BY <1>2, <1>6, MacDirIdIs
    <2>2. t = Nothing
      BY <1>3, <1>6, <2>1 DEF MacEntry
    <2>3. QED BY <1>6, <2>2 DEF EntryOK, LeavesOut
  <1>7. CASE n.kind = "dir" /\ Enters(e)
    <2>1. PICK id : MacDirId(e) = <<id>> /\ Told(id, e.leads)
      <3>1. CASE MacDirId(e) = <<IdOf(e.leads)>>
        BY <1>1, <3>1, ToldItself
      <3>2. CASE MacDirId(e) = <<IdOf(e.self)>> /\ ByListing(world, e)
        BY <1>1, <3>2, ToldByListing
      <3>3. QED BY <1>2, <1>7, <3>1, <3>2, MacDirIdIs
    <2> DEFINE j == Job(e.leads, id, job.id, 0, <<>>, TRUE)
    <2>2. MacDirId(e) # <<>> /\ Head(MacDirId(e)) = id
      BY <2>1
    <2>3. t = Subfolder(j)
      BY <1>2, <1>3, <1>7, <2>2 DEF MacEntry
    <2>4. Own(e.leads)
      <3>1. e.trigger => world.cross
        BY <1>7 DEF Enters
      <3>2. ~e.trigger => Node(e.leads).dev = Root.dev \/ world.cross
        BY <1>7, MacWay DEF Enters, Foreign, Stated
      <3>3. QED BY <3>1, <3>2 DEF Own
    <2>5. JobOK(j) /\ j.node = e.leads /\ j.parent = job.id
      BY <1>1, <1>7, <2>1, <2>4 DEF JobOK, Job
    <2> HIDE DEF j
    <2>6. TakesDir(t, x, job)
      BY <1>1, <1>7, <2>3, <2>5 DEF TakesDir
    <2>7. QED BY <2>6 DEF EntryOK
  <1>8. QED BY <1>1, <1>4, <1>5, <1>6, <1>7

LEMMA WindowsWay ==
    ASSUME world \in Worlds, world.platform = "windows", NEW x \in Ways(world)
    PROVE  /\ x.e.leads \in Nodes /\ x.e.self \in Nodes /\ x.of \in Nodes
           /\ Node(x.e.leads).kind = "dir" <=> Node(x.e.self).kind = "dir"
           /\ Node(x.e.self).kind # "dir" => x.e.leads = x.e.self
           /\ Node(x.e.self).dev = Node(x.of).dev /\ ~world.mountIds
           /\ ~x.e.trigger /\ x.e.mnt = 0
           /\ x.e.tag = "none" => x.e.leads = x.e.self
           /\ ByListing(world, x.e) => Node(x.e.leads).dev = Node(x.of).dev
           /\ \A k \in Nodes : ~Node(k).pseudo /\ Node(k).kind # "other"
           /\ \A k, m \in Nodes : Node(k).dev = Node(m).dev => Node(k).unique = Node(m).unique
  <1>1. x.e.leads \in Nodes /\ x.e.self \in Nodes /\ x.of \in Nodes
    BY WayTyped
  <1>2. Keeps(world) /\ WindowsKeeps(world) /\ world.platform # "linux"
    BY KeepsWorld DEF Keeps
  <1>3. /\ Node(x.e.leads).kind = "dir" <=> Node(x.e.self).kind = "dir"
        /\ Node(x.e.self).kind # "dir" => x.e.leads = x.e.self
    BY <1>2 DEF Keeps, Node
  <1>4. /\ Node(x.e.self).dev = Node(x.of).dev /\ ~world.mountIds
        /\ ~x.e.trigger /\ x.e.mnt = 0
        /\ x.e.tag = "none" => x.e.leads = x.e.self
        /\ ByListing(world, x.e) => Node(x.e.leads).dev = Node(x.of).dev
    BY <1>2 DEF WindowsKeeps, Node
  <1>5. \A k \in Nodes : ~Node(k).pseudo /\ Node(k).kind # "other"
    BY <1>2 DEF WindowsKeeps, Node, Nodes
  <1>6. \A k, m \in Nodes : Node(k).dev = Node(m).dev => Node(k).unique = Node(m).unique
    BY <1>2 DEF WindowsKeeps, Node, Nodes
  <1>7. QED BY <1>1, <1>3, <1>4, <1>5, <1>6

(* A folder's id: its own, that of the link it was listed as, or a path.    *)
LEMMA FolderIdIs ==
    ASSUME world.platform = "windows", NEW n, NEW path
    PROVE  FolderId(Node(n).dev, Node(n).ino, Node(n).unique, path) =
             IF Tells(world, n) THEN IdOf(n) ELSE <<"path", Node(n).dev, path>>
  BY DEF FolderId, IdOf, Tells, Node

LEMMA FolderIdTold ==
    ASSUME world \in Worlds, world.platform = "windows", NEW n \in Nodes, ~Standin(n),
           NEW path, Follows(path, n)
    PROVE  Told(FolderId(Node(n).dev, Node(n).ino, Node(n).unique, path), n)
  BY FolderIdIs DEF Told, Names

LEMMA ListedIdTold ==
    ASSUME world \in Worlds, world.platform = "windows", NEW x \in Ways(world), ByListing(world, x.e),
           NEW path, Follows(path, x.e.leads)
    PROVE  Told(FolderId(Node(x.e.self).dev, Node(x.e.self).ino, Node(x.e.self).unique, path), x.e.leads)
  <1>1. CASE Tells(world, x.e.self)
    BY <1>1, FolderIdIs, ToldByListing
  <1>2. CASE ~Tells(world, x.e.self)
    <2>1. Aliased(world, x.e.leads)
      BY DEF Aliased
    <2>2. QED BY <1>2, <2>1, FolderIdIs DEF Told, Names
  <1>3. QED BY <1>1, <1>2

(* What open_child takes: the folder itself if it is known, or not asked,   *)
(* and the listing's word for it if it can't be.                            *)
LEMMA OpenChildIs ==
    ASSUME world \in Worlds, world.platform = "windows", NEW job, JobOK(job),
           NEW x \in Ways(world), x.of = job.node, Node(x.e.self).kind = "dir", x.e.tag # "surrogate"
    PROVE  \/ OpenChild(job, x.e) = Nothing /\ ~Enters(x.e)
           \/ \E id, path : /\ OpenChild(job, x.e) =
                                 Subfolder(Job(x.e.leads, id, job.id, 0, path, Node(x.e.leads).unique))
                            /\ Told(id, x.e.leads) /\ Follows(path, x.e.leads) /\ Own(x.e.leads) /\ Enters(x.e)
  <1> DEFINE e == x.e
             n == Node(e.leads)
             self == Node(e.self)
             path == Append(job.path, e.name)
             asked == ~(e.tag = "none" /\ job.unique)
             listed == [dev |-> Node(job.node).dev, ino |-> self.ino]
             known == ~asked \/ e.looks = "ok"
             found == IF asked /\ known THEN [dev |-> n.dev, ino |-> n.ino] ELSE listed
             unique == IF found.dev = Node(job.node).dev THEN job.unique ELSE n.unique
  <1>1. /\ self.dev = Node(job.node).dev /\ e.leads \in Nodes /\ e.self \in Nodes
        /\ e.tag = "none" => e.leads = e.self
        /\ \A k, m \in Nodes : Node(k).dev = Node(m).dev => Node(k).unique = Node(m).unique
        /\ ~e.trigger /\ ~world.mountIds /\ ~Node(Stated(e)).pseudo
        /\ ByListing(world, e) => n.dev = Node(job.node).dev
        /\ e.looks \in {"ok", "sealed", "fails"} /\ world.cross \in BOOLEAN
    BY WindowsWay, WayTyped, WorldTyped DEF Stated
  <1>2. job.node \in Nodes /\ job.unique = Node(job.node).unique /\ job.unique = self.unique
        /\ Follows(job.path, job.node)
    BY <1>1 DEF JobOK
  <1>3. Follows(path, e.leads)
    BY <1>2, FollowsOn
  <1>4. Stated(e) = e.leads /\ (Enters(e) <=> ~Unseen(e) /\ (n.dev # Root.dev => world.cross))
    BY <1>1, WindowsWay DEF Stated, Enters, Foreign
  <1>5. Unseen(e) <=> ~world.cross /\ e.looks # "ok" /\ (e.tag # "none" \/ ~self.unique)
    BY DEF Unseen
  <1>6. OpenChild(job, e) = IF ~world.cross /\ (~known \/ found.dev # Root.dev) THEN Nothing
                            ELSE Subfolder(Job(e.leads, FolderId(found.dev, found.ino, unique, path),
                                               job.id, 0, path, unique))
    BY DEF OpenChild
  <1>7. CASE known
    <2>1. found.dev = n.dev /\ found.ino = n.ino
      BY <1>1, <1>7
    <2>2. unique = n.unique
      BY <1>1, <1>2, <2>1
    <2>3. ~Unseen(e)
      BY <1>2, <1>5, <1>7
    <2>4. CASE ~world.cross /\ n.dev # Root.dev
      BY <1>4, <1>6, <2>1, <2>4
    <2>5. CASE world.cross \/ n.dev = Root.dev
      <3>1. OpenChild(job, e) = Subfolder(Job(e.leads, FolderId(n.dev, n.ino, n.unique, path),
                                              job.id, 0, path, n.unique))
        BY <1>6, <1>7, <2>1, <2>2, <2>5
      <3>2. Told(FolderId(n.dev, n.ino, n.unique, path), e.leads)
        BY <1>1, <1>3, FolderIdTold, StandsIn
      <3>3. Enters(e) /\ Own(e.leads)
        BY <1>4, <2>3, <2>5 DEF Own
      <3>4. QED BY <1>3, <3>1, <3>2, <3>3
    <2>6. QED BY <1>1, <2>4, <2>5
  <1>8. CASE ~known /\ ~world.cross
    <2>1. OpenChild(job, e) = Nothing
      BY <1>6, <1>8
    <2>2. Unseen(e)
      BY <1>2, <1>5, <1>8
    <2>3. QED BY <1>4, <2>1, <2>2
  <1>9. CASE ~known /\ world.cross
    <2>1. found = listed /\ found.dev = self.dev /\ found.ino = self.ino /\ unique = self.unique
      BY <1>1, <1>2, <1>9
    <2>2. n.unique = self.unique /\ Told(FolderId(self.dev, self.ino, self.unique, path), e.leads)
      <3>1. CASE e.leads = e.self
        BY <1>1, <1>3, <3>1, FolderIdTold, StandsIn
      <3>2. CASE e.leads # e.self
        <4>1. ByListing(world, e)
          BY <1>9, <3>2 DEF ByListing, Node
        <4>2. QED BY <1>1, <1>3, <4>1, ListedIdTold
      <3>3. QED BY <3>1, <3>2
    <2>3. OpenChild(job, e) = Subfolder(Job(e.leads, FolderId(self.dev, self.ino, self.unique, path),
                                            job.id, 0, path, n.unique))
      BY <1>6, <1>9, <2>1, <2>2
    <2>4. Enters(e) /\ Own(e.leads)
      BY <1>4, <1>5, <1>9 DEF Own
    <2>5. QED BY <1>3, <2>2, <2>3, <2>4
  <1>10. QED BY <1>1, <1>7, <1>8, <1>9

LEMMA WindowsEntryOK ==
    ASSUME world \in Worlds, world.platform = "windows", NEW job, JobOK(job),
           NEW x \in Ways(world), x.of = job.node
    PROVE  EntryOK(WindowsEntry(job, x.e), x, job)
  <1> DEFINE e == x.e
             n == Node(e.leads)
             t == WindowsEntry(job, e)
  <1>1. /\ Node(e.self).dev = Node(job.node).dev /\ e.leads \in Nodes /\ e.self \in Nodes
        /\ n.kind = "dir" <=> Node(e.self).kind = "dir"
        /\ Node(e.self).kind # "dir" => e.leads = e.self
        /\ ~e.trigger /\ e.mnt = 0 /\ Node(e.self).kind # "other"
        /\ \A k, m \in Nodes : Node(k).dev = Node(m).dev => Node(k).unique = Node(m).unique
    BY WindowsWay
  <1>2. job.node \in Nodes /\ job.unique = Node(job.node).unique
    BY DEF JobOK
  <1>3. Node(e.self).kind \in {"dir", "file", "other"} /\ n.size \in Nat /\ n.here \in BOOLEAN
    BY <1>1, NodeTyped
  <1>4. CASE e.tag = "surrogate"
    BY <1>4 DEF WindowsEntry, EntryOK, LeavesOut, Enters
  <1>5. CASE e.tag # "surrogate" /\ Node(e.self).kind = "dir" /\ n.opens # "ok"
    BY <1>1, <1>5 DEF WindowsEntry, EntryOK, Fails
  <1>6. CASE e.tag # "surrogate" /\ Node(e.self).kind = "dir" /\ n.opens = "ok"
    <2>1. t = OpenChild(job, e)
      BY <1>6 DEF WindowsEntry
    <2>2. CASE t = Nothing /\ ~Enters(e)
      BY <2>2 DEF EntryOK, LeavesOut
    <2>3. ASSUME NEW id, NEW path,
                 t = Subfolder(Job(e.leads, id, job.id, 0, path, n.unique)),
                 Told(id, e.leads), Follows(path, e.leads), Own(e.leads), Enters(e)
          PROVE  EntryOK(t, x, job)
      <3> DEFINE j == Job(e.leads, id, job.id, 0, path, n.unique)
      <3>1. JobOK(j) /\ j.node = e.leads /\ j.parent = job.id
        BY <1>1, <1>6, <2>3 DEF JobOK, Job
      <3> HIDE DEF j, t
      <3>2. TakesDir(t, x, job)
        BY <1>1, <1>6, <2>3, <3>1 DEF TakesDir, j
      <3>3. QED BY <3>2 DEF EntryOK
    <2>4. QED BY <1>6, <2>1, <2>2, <2>3, OpenChildIs
  <1>7. CASE e.tag # "surrogate" /\ Node(e.self).kind = "file"
    <2> DEFINE size == IF n.here THEN n.size ELSE 0
               link == IF job.unique /\ n.ino # NoFileId THEN NodeId(n.dev, n.ino) ELSE NoLink
    <2>1. e.leads = e.self /\ t = File(e.leads, size, link)
      BY <1>1, <1>7 DEF WindowsEntry
    <2>2. n.dev = Node(job.node).dev /\ job.unique = n.unique
      BY <1>1, <1>2, <2>1
    <2>3. LinkOK(link, e.leads)
      <3>1. Unlinked(world, e.leads) <=> ~(n.unique /\ n.ino # NoFileId)
        BY DEF Unlinked, Tells, Node
      <3>2. QED BY <2>2, <3>1 DEF LinkOK, IdOf
    <2>4. Enters(e)
      BY <1>1, <1>7 DEF Enters, Unseen
    <2>5. size \in Nat /\ (Counts(e.leads) => size # 0)
      BY <1>3 DEF Counts
    <2>6. n.kind # "dir"
      BY <1>1, <1>7
    <2> HIDE DEF size, link, t
    <2>7. TakesFile(t, x)
      BY <2>1, <2>3, <2>4, <2>5, <2>6 DEF TakesFile
    <2>8. QED BY <2>7 DEF EntryOK, t
  <1>8. QED BY <1>1, <1>3, <1>4, <1>5, <1>6, <1>7

LEMMA AnyEntryOK ==
    ASSUME world \in Worlds, NEW job, JobOK(job), NEW x \in Ways(world), x.of = job.node
    PROVE  EntryOK(Entry(job, x.e), x, job)
  <1>1. world.platform \in {"linux", "macos", "windows"}
    BY WorldTyped
  <1>2. CASE world.platform = "linux"
    BY <1>2, LinuxEntryOK DEF Entry
  <1>3. CASE world.platform = "macos"
    BY <1>3, MacEntryOK DEF Entry
  <1>4. CASE world.platform = "windows"
    BY <1>4, WindowsEntryOK DEF Entry
  <1>5. QED BY <1>1, <1>2, <1>3, <1>4

-----------------------------------------------------------------------------
(* A folder's entries are taken one after the other.                        *)
Listed(job) == Node(job.node).list
Begun == [dirs |-> dirsSeen, links |-> filesSeen, jobs |-> {}, files |-> {}, troubled |-> troubled]
Reads(job, n, f) ==
    f = [k \in 0 .. n |-> IF k = 0 THEN Begun
                          ELSE Sink(f[k - 1], Entry(job, Listed(job)[k]), Listed(job)[k].name)]

LEMMA ReadEntriesIs ==
    ASSUME NEW job
    PROVE  ReadEntries(job) = (CHOOSE f : Reads(job, Len(Listed(job)), f))[Len(Listed(job))]
  BY DEF ReadEntries, Reads, Begun, Listed

LEMMA ReadExists ==
    ASSUME NEW job, NEW l \in Nat
    PROVE  \E f : Reads(job, l, f)
  <1> DEFINE T == {n \in 0 .. l : \E f : Reads(job, n, f)}
             step(acc, k) == Sink(acc, Entry(job, Listed(job)[k]), Listed(job)[k].name)
  <1>1. 0 \in T
    <2> DEFINE g == [k \in 0 .. 0 |-> Begun]
    <2>1. g = [k \in 0 .. 0 |-> IF k = 0 THEN Begun ELSE step(g[k - 1], k)]
      OBVIOUS
    <2> HIDE DEF g
    <2>2. Reads(job, 0, g)
      BY <2>1 DEF Reads
    <2>3. QED BY <2>2
  <1>2. ASSUME NEW n \in 1 .. l, n - 1 \in T PROVE n \in T
    <2>1. PICK f : Reads(job, n - 1, f)
      BY <1>2
    <2>2. f = [k \in 0 .. n - 1 |-> IF k = 0 THEN Begun ELSE step(f[k - 1], k)]
      BY <2>1 DEF Reads
    <2> HIDE DEF step
    <2> DEFINE g == [k \in 0 .. n |-> IF k = 0 THEN Begun ELSE step(f[k - 1], k)]
    <2>3. ASSUME NEW k \in 0 .. n - 1 PROVE g[k] = f[k]
      <3>1. k \in 0 .. n
        OBVIOUS
      <3>2. QED BY <2>2, <3>1
    <2>4. g = [k \in 0 .. n |-> IF k = 0 THEN Begun ELSE step(g[k - 1], k)]
      <3>1. ASSUME NEW k \in 0 .. n
            PROVE  (IF k = 0 THEN Begun ELSE step(f[k - 1], k))
                     = IF k = 0 THEN Begun ELSE step(g[k - 1], k)
        <4>1. CASE k = 0
          BY <4>1
        <4>2. CASE k # 0
          <5>1. k - 1 \in 0 .. n - 1
            BY <4>2
          <5>2. g[k - 1] = f[k - 1]
            BY <5>1, <2>3
          <5>3. QED BY <4>2, <5>2
        <4>3. QED BY <4>1, <4>2
      <3>2. QED BY <3>1, Zenon
    <2> HIDE DEF g
    <2>5. Reads(job, n, g)
      BY <2>4 DEF Reads, step
    <2>6. QED BY <2>5
  <1>3. 0 .. l \subseteq T
    <2> HIDE DEF T
    <2>1. QED BY <1>1, <1>2, Induct
  <1>4. l \in T
    BY <1>3
  <1>5. QED BY <1>4

(* What has been taken when k entries of a folder have.                     *)
CountedIn(files, n) ==
    (\E f \in files : f.node = n) \/ (\E d \in sent : \E f \in d.files : f.node = n)
Done(dirs, files, n) ==
    /\ Node(n).kind = "dir" => (\E id \in dirs : Names(id, n)) \/ Node(n).opens # "ok"
    /\ Counts(n) => CountedIn(files, n)

DirsTaken(job, k, acc) ==
    /\ \A j \in acc.jobs : /\ j.id \notin dirsSeen
                           /\ \E i \in 1 .. k : Entry(job, Listed(job)[i]) = Subfolder(j)
    /\ \A j, l \in acc.jobs : j.id = l.id => j = l
    /\ acc.dirs = dirsSeen \cup {j.id : j \in acc.jobs}

FilesTaken(job, k, acc) ==
    /\ filesSeen \subseteq acc.links /\ NoLink \notin acc.links
    /\ \A f \in acc.files :
         /\ \E i \in 1 .. k : \E size, link :
              Entry(job, Listed(job)[i]) = File(f.node, size, link)
         /\ Unlinked(world, f.node) \/ (IdOf(f.node) \in acc.links /\ IdOf(f.node) \notin filesSeen)
    /\ \A f, g \in acc.files : f.node = g.node => f = g \/ (Unlinked(world, f.node) /\ ~OneWay(world, f.node))
    /\ \A n \in Nodes : IdOf(n) \in acc.links /\ Tells(world, n) /\ Counts(n) => CountedIn(acc.files, n)

ReadOK(job, k, acc) ==
    /\ acc = [dirs |-> acc.dirs, links |-> acc.links, jobs |-> acc.jobs, files |-> acc.files,
              troubled |-> acc.troubled]
    /\ acc.troubled \in BOOLEAN /\ (troubled => acc.troubled)
    /\ DirsTaken(job, k, acc) /\ FilesTaken(job, k, acc)
    /\ ~acc.troubled => \A i \in 1 .. k : Enters(Listed(job)[i]) => Done(acc.dirs, acc.files, Listed(job)[i].leads)

(* The way to the i-th entry.                                               *)
WayAt(job, i) == [of |-> job.node, at |-> i, e |-> Listed(job)[i]]

LEMMA WayAtIs ==
    ASSUME world \in Worlds, NEW job, JobOK(job), NEW i \in 1 .. Len(Listed(job))
    PROVE  /\ WayAt(job, i) \in Ways(world) /\ WayAt(job, i).of = job.node /\ WayAt(job, i).at = i
           /\ WayAt(job, i).e = Listed(job)[i] /\ Listed(job)[i].leads \in Nodes
           /\ EntryOK(Entry(job, Listed(job)[i]), WayAt(job, i), job)
  <1>1. WayAt(job, i) \in Ways(world)
    BY WaysIs DEF WayAt, Listed, JobOK
  <1>2. WayAt(job, i).of = job.node /\ WayAt(job, i).at = i /\ WayAt(job, i).e = Listed(job)[i]
    BY DEF WayAt
  <1>3. QED BY <1>1, <1>2, WayTyped, AnyEntryOK

(* What the entry is that a file, or a folder, is taken for.                *)
LEMMA FileTaken ==
    ASSUME NEW job, NEW x, NEW m, NEW size, NEW link, EntryOK(File(m, size, link), x, job)
    PROVE  /\ m = x.e.leads /\ Node(m).kind # "dir" /\ size \in Nat
           /\ Enters(x.e) \/ x.e.mnt # 0
  <1>1. TakesFile(File(m, size, link), x)
    BY DEF EntryOK, LeavesOut, Fails, TakesDir, File, Nothing, Failed, Subfolder
  <1>2. QED BY <1>1 DEF TakesFile, File

LEMMA DirTaken ==
    ASSUME NEW job, NEW x, NEW j, EntryOK(Subfolder(j), x, job)
    PROVE  j.node = x.e.leads /\ Enters(x.e) /\ JobOK(j) /\ j.parent = job.id
  <1>1. TakesDir(Subfolder(j), x, job)
    BY DEF EntryOK, LeavesOut, Fails, TakesFile, File, Nothing, Failed, Subfolder
  <1>2. QED BY <1>1 DEF TakesDir, Subfolder

LEMMA OneEntry ==
    ASSUME world \in Worlds, NEW job, JobOK(job), NEW i \in 1 .. Len(Listed(job)),
           OneWay(world, Listed(job)[i].leads)
    PROVE  /\ Listed(job)[i].leads # world.root
           /\ \A k \in 1 .. Len(Listed(job)) : Listed(job)[k].leads = Listed(job)[i].leads => k = i
           /\ \A x \in Ways(world) : x.e.leads = Listed(job)[i].leads => x.of = job.node
  <1>1. \A k \in 1 .. Len(Listed(job)) : /\ WayAt(job, k) \in Ways(world) /\ WayAt(job, k).at = k
                                         /\ WayAt(job, k).e = Listed(job)[k] /\ WayAt(job, k).of = job.node
    BY WayAtIs
  <1>2. \A x, y \in Ways(world) : x.e.leads = Listed(job)[i].leads /\ y.e.leads = Listed(job)[i].leads =>
            x = y /\ Listed(job)[i].leads # world.root
    BY DEF OneWay
  <1>3. QED BY <1>1, <1>2

LEMMA ReadsOne ==
    ASSUME world \in Worlds, NEW job, JobOK(job), NEW k \in 1 .. Len(Listed(job)), Len(Listed(job)) \in Nat,
           NEW acc, ReadOK(job, k - 1, acc)
    PROVE  ReadOK(job, k, Sink(acc, Entry(job, Listed(job)[k]), Listed(job)[k].name))
  <1> DEFINE e == Listed(job)[k]
             n == e.leads
             t == Entry(job, e)
             x == WayAt(job, k)
             next == Sink(acc, t, e.name)
  <1>1. x.e = e /\ n \in Nodes /\ EntryOK(t, x, job)
    BY WayAtIs
  <1>2. \A i \in 1 .. k - 1 : i \in 1 .. k /\ i # k
    OBVIOUS
  <1>3. \A i \in 1 .. k : i \in 1 .. k - 1 \/ i = k
    OBVIOUS
  <1>4. k \in 1 .. k
    OBVIOUS
  <1>5. CASE LeavesOut(t, x)
    <2>1. t = Nothing /\ (Enters(e) => Node(n).kind = "other")
      BY <1>1, <1>5 DEF LeavesOut
    <2>2. next = acc
      BY <2>1 DEF Sink, Nothing
    <2>3. Enters(e) => Done(acc.dirs, acc.files, n)
      BY <2>1 DEF Done, Counts
    <2> HIDE DEF next, t, n, e
    <2>4. ReadOK(job, k, acc)
      BY <1>2, <1>3, <2>3 DEF ReadOK, DirsTaken, FilesTaken, n, e
    <2>5. QED BY <2>2, <2>4 DEF next, t, e
  <1>6. CASE Fails(t, x)
    <2>1. PICK err : /\ t = Failed(err)
                     /\ Enters(e) /\ Quiet(err) => Node(n).kind = "dir" /\ Node(n).opens # "ok"
      BY <1>1, <1>6 DEF Fails
    <2>2. next = [acc EXCEPT !.troubled = @ \/ ~Quiet(err)]
      BY <2>1 DEF Sink, Failed
    <2>3. /\ next.dirs = acc.dirs /\ next.links = acc.links /\ next.jobs = acc.jobs
          /\ next.files = acc.files /\ next.troubled = (acc.troubled \/ ~Quiet(err))
          /\ next = [dirs |-> next.dirs, links |-> next.links, jobs |-> next.jobs, files |-> next.files,
                     troubled |-> next.troubled]
      <3>1. acc = [dirs |-> acc.dirs, links |-> acc.links, jobs |-> acc.jobs, files |-> acc.files,
                   troubled |-> acc.troubled]
        BY DEF ReadOK
      <3> HIDE DEF next
      <3>2. QED BY <2>2, <3>1
    <2>4. Enters(e) /\ ~next.troubled => Done(acc.dirs, acc.files, n)
      BY <2>1, <2>3 DEF Done, Counts
    <2>5. next.troubled \in BOOLEAN /\ (troubled => next.troubled) /\ (~next.troubled => ~acc.troubled)
      BY <2>3 DEF ReadOK, Quiet
    <2> HIDE DEF next, t, n, e
    <2>6. DirsTaken(job, k, next)
      <3>1. DirsTaken(job, k - 1, acc)
        BY DEF ReadOK
      <3>2. QED BY <1>2, <2>3, <3>1 DEF DirsTaken
    <2>7. FilesTaken(job, k, next)
      <3>1. FilesTaken(job, k - 1, acc)
        BY DEF ReadOK
      <3>2. QED BY <1>2, <2>3, <3>1 DEF FilesTaken
    <2>8. ReadOK(job, k, next)
      <3>1. ~next.troubled => \A i \in 1 .. k : Enters(Listed(job)[i]) =>
                                Done(next.dirs, next.files, Listed(job)[i].leads)
        BY <1>3, <2>3, <2>4, <2>5 DEF ReadOK, n, e
      <3>2. QED BY <2>3, <2>5, <2>6, <2>7, <3>1 DEF ReadOK
    <2>9. QED BY <2>8 DEF next, t, e
  <1>7. CASE TakesFile(t, x)
    <2>1. PICK size, link :
             /\ t = File(n, size, link) /\ LinkOK(link, n) /\ Node(n).kind # "dir"
             /\ Counts(n) => size # 0
      BY <1>1, <1>7 DEF TakesFile
    <2> DEFINE skipped == link \in acc.links \/ size = 0
               f == [name |-> e.name, size |-> size, node |-> n]
    <2>2. next = [acc EXCEPT !.links = IF link = NoLink THEN @ ELSE @ \cup {link},
                             !.files = IF skipped THEN @ ELSE @ \cup {f}]
      BY <2>1 DEF Sink, File
    <2>3. /\ next.dirs = acc.dirs /\ next.jobs = acc.jobs /\ next.troubled = acc.troubled
          /\ next.links = (IF link = NoLink THEN acc.links ELSE acc.links \cup {link})
          /\ next.files = (IF skipped THEN acc.files ELSE acc.files \cup {f})
          /\ next = [dirs |-> next.dirs, links |-> next.links, jobs |-> next.jobs, files |-> next.files,
                     troubled |-> next.troubled]
      <3>1. acc = [dirs |-> acc.dirs, links |-> acc.links, jobs |-> acc.jobs, files |-> acc.files,
                   troubled |-> acc.troubled]
        BY DEF ReadOK
      <3> HIDE DEF next, skipped, f
      <3>2. QED BY <2>2, <3>1
    <2>4. f.node = n
      OBVIOUS
    <2>5. NoLink # IdOf(n)
      BY DEF NoLink, IdOf, NodeId
    <2>6. acc.links \subseteq next.links /\ acc.files \subseteq next.files
      BY <2>3
    <2>7. FilesTaken(job, k - 1, acc)
      BY DEF ReadOK
    <2>8. ASSUME NEW g \in acc.files, g.node = n, OneWay(world, n) PROVE FALSE
      <3>1. PICK i \in 1 .. k - 1 : \E s, l : Entry(job, Listed(job)[i]) = File(g.node, s, l)
        BY <2>7 DEF FilesTaken
      <3>2. i \in 1 .. Len(Listed(job)) /\ i # k
        OBVIOUS
      <3>3. EntryOK(Entry(job, Listed(job)[i]), WayAt(job, i), job) /\ WayAt(job, i).e = Listed(job)[i]
        BY <3>2, WayAtIs
      <3>4. Listed(job)[i].leads = n
        <4>1. PICK s, l : Entry(job, Listed(job)[i]) = File(g.node, s, l)
          BY <3>1
        <4>2. EntryOK(File(g.node, s, l), WayAt(job, i), job)
          BY <3>3, <4>1
        <4>3. WayAt(job, i).e.leads = g.node
          BY <4>2, FileTaken
        <4>4. QED BY <2>8, <3>3, <4>3
      <3>5. QED BY <2>8, <3>2, <3>4, OneEntry
    <2>9. FilesTaken(job, k, next)
      <3>1. filesSeen \subseteq next.links /\ NoLink \notin next.links
        BY <2>3, <2>7 DEF FilesTaken
      <3>2. ASSUME NEW g \in next.files
            PROVE  /\ \E i \in 1 .. k : \E s, l : Entry(job, Listed(job)[i]) = File(g.node, s, l)
                   /\ Unlinked(world, g.node) \/ (IdOf(g.node) \in next.links /\ IdOf(g.node) \notin filesSeen)
        <4>1. CASE g \in acc.files
          <5>1. \E i \in 1 .. k : \E s, l : Entry(job, Listed(job)[i]) = File(g.node, s, l)
            BY <1>2, <2>7, <4>1 DEF FilesTaken
          <5>2. Unlinked(world, g.node) \/ (IdOf(g.node) \in next.links /\ IdOf(g.node) \notin filesSeen)
            BY <2>6, <2>7, <4>1 DEF FilesTaken
          <5>3. QED BY <5>1, <5>2
        <4>2. CASE g \notin acc.files
          <5>1. g = f /\ ~skipped /\ g.node = n
            BY <2>3, <4>2
          <5>2. Unlinked(world, n) \/ (IdOf(n) \in next.links /\ IdOf(n) \notin filesSeen)
            <6>1. Unlinked(world, n) \/ link = IdOf(n)
              BY <2>1 DEF LinkOK
            <6>2. link \notin acc.links /\ filesSeen \subseteq acc.links
              BY <2>7, <5>1 DEF FilesTaken
            <6>3. link # NoLink => link \in next.links
              BY <2>3
            <6> HIDE DEF next
            <6>4. QED BY <2>5, <6>1, <6>2, <6>3
          <5>3. QED BY <1>4, <2>1, <5>1, <5>2
        <4>3. QED BY <4>1, <4>2
      <3>3. ASSUME NEW g \in next.files, NEW h \in next.files, g.node = h.node
            PROVE  g = h \/ (Unlinked(world, g.node) /\ ~OneWay(world, g.node))
        <4>1. CASE skipped
          BY <2>3, <2>7, <3>3, <4>1 DEF FilesTaken
        <4>2. CASE ~skipped
          <5>1. ASSUME NEW a \in acc.files, a.node = n PROVE Unlinked(world, n) /\ ~OneWay(world, n)
            <6>1. ~OneWay(world, n)
              BY <2>8, <5>1
            <6>2. ASSUME ~Unlinked(world, n) PROVE FALSE
              <7>1. link = IdOf(n)
                BY <2>1, <6>2 DEF LinkOK
              <7>2. IdOf(n) \in acc.links
                BY <2>7, <5>1, <6>2 DEF FilesTaken
              <7>3. QED BY <4>2, <7>1, <7>2
            <6>3. QED BY <6>1, <6>2
          <5>2. CASE g \in acc.files /\ h \in acc.files
            BY <2>7, <3>3, <5>2 DEF FilesTaken
          <5>3. (g \in acc.files \/ g = f) /\ (h \in acc.files \/ h = f)
            BY <2>3
          <5>4. QED BY <2>4, <3>3, <5>1, <5>2, <5>3
        <4>3. QED BY <4>1, <4>2
      <3>4. ASSUME NEW m \in Nodes, IdOf(m) \in next.links, Tells(world, m), Counts(m)
            PROVE  CountedIn(next.files, m)
        <4>1. CASE IdOf(m) \in acc.links
          <5>1. CountedIn(acc.files, m)
            BY <2>7, <3>4, <4>1 DEF FilesTaken
          <5>2. QED BY <2>6, <5>1 DEF CountedIn
        <4>2. CASE IdOf(m) \notin acc.links
          <5>1. IdOf(m) = link /\ link # NoLink
            BY <2>3, <3>4, <4>2
          <5>2. link = IdOf(n) /\ Tells(world, n)
            BY <2>1, <5>1, Linked DEF LinkOK
          <5>3. m = n
            BY <1>1, <3>4, <5>1, <5>2, IdsDiffer
          <5>4. ~skipped
            BY <2>1, <3>4, <4>2, <5>1, <5>3
          <5>5. f \in next.files
            BY <2>3, <5>4
          <5>6. QED BY <2>4, <5>3, <5>5 DEF CountedIn
        <4>3. QED BY <4>1, <4>2
      <3> HIDE DEF next
      <3>5. QED BY <3>1, <3>2, <3>3, <3>4 DEF FilesTaken
    <2>10. Done(next.dirs, next.files, n)
      <3>1. CASE Counts(n)
        <4>1. CASE skipped
          <5>1. link \in acc.links
            BY <2>1, <3>1, <4>1
          <5>2. link = IdOf(n) /\ Tells(world, n)
            BY <2>1, <2>7, <5>1, Linked DEF LinkOK, FilesTaken
          <5>3. CountedIn(acc.files, n)
            BY <1>1, <2>7, <3>1, <5>1, <5>2 DEF FilesTaken
          <5>4. QED BY <2>1, <2>6, <5>3 DEF CountedIn, Done
        <4>2. CASE ~skipped
          <5>1. f \in next.files
            BY <2>3, <4>2
          <5>2. QED BY <2>1, <2>4, <5>1 DEF CountedIn, Done
        <4>3. QED BY <4>1, <4>2
      <3>2. QED BY <2>1, <3>1 DEF Done
    <2>11. \A m : Done(acc.dirs, acc.files, m) => Done(next.dirs, next.files, m)
      BY <2>3, <2>6 DEF Done, CountedIn
    <2>12. DirsTaken(job, k, next)
      <3>1. DirsTaken(job, k - 1, acc)
        BY DEF ReadOK
      <3>2. next.dirs = acc.dirs /\ next.jobs = acc.jobs
        BY <2>3
      <3> HIDE DEF next
      <3>3. QED BY <1>2, <3>1, <3>2 DEF DirsTaken
    <2>13. next.troubled = acc.troubled /\ next = [dirs |-> next.dirs, links |-> next.links, jobs |-> next.jobs, files |-> next.files,
                     troubled |-> next.troubled]
      BY <2>3
    <2> HIDE DEF next, t, n, e, f, skipped
    <2>14. ReadOK(job, k, next)
      BY <1>3, <2>9, <2>10, <2>11, <2>12, <2>13 DEF ReadOK, n, e
    <2>15. QED BY <2>14 DEF next, t, e
  <1>8. CASE TakesDir(t, x, job)
    <2>1. PICK j : /\ t = Subfolder(j) /\ j.node = n /\ JobOK(j) /\ Node(n).kind = "dir"
      BY <1>1, <1>8 DEF TakesDir
    <2>2. next = [acc EXCEPT !.dirs = @ \cup {j.id}, !.jobs = IF j.id \in acc.dirs THEN @ ELSE @ \cup {j}]
      BY <2>1 DEF Sink, Subfolder
    <2>3. /\ next.dirs = acc.dirs \cup {j.id}
          /\ next.jobs = (IF j.id \in acc.dirs THEN acc.jobs ELSE acc.jobs \cup {j})
          /\ next.troubled = acc.troubled /\ next.links = acc.links /\ next.files = acc.files
          /\ next = [dirs |-> next.dirs, links |-> next.links, jobs |-> next.jobs, files |-> next.files,
                     troubled |-> next.troubled]
      <3>1. acc = [dirs |-> acc.dirs, links |-> acc.links, jobs |-> acc.jobs, files |-> acc.files,
                   troubled |-> acc.troubled]
        BY DEF ReadOK
      <3> HIDE DEF next
      <3>2. QED BY <2>2, <3>1
    <2>4. DirsTaken(job, k - 1, acc)
      BY DEF ReadOK
    <2>5. DirsTaken(job, k, next)
      <3>1. ASSUME NEW l \in next.jobs
            PROVE  l.id \notin dirsSeen /\ \E i \in 1 .. k : Entry(job, Listed(job)[i]) = Subfolder(l)
        <4>1. CASE l \in acc.jobs
          BY <1>2, <2>4, <4>1 DEF DirsTaken
        <4>2. CASE l \notin acc.jobs
          <5>1. l = j /\ j.id \notin acc.dirs
            BY <2>3, <4>2
          <5>2. QED BY <1>4, <2>1, <2>4, <5>1 DEF DirsTaken
        <4>3. QED BY <4>1, <4>2
      <3>2. \A l, m \in next.jobs : l.id = m.id => l = m
        BY <2>3, <2>4 DEF DirsTaken
      <3>3. next.dirs = dirsSeen \cup {l.id : l \in next.jobs}
        BY <2>3, <2>4 DEF DirsTaken
      <3> HIDE DEF next
      <3>4. QED BY <3>1, <3>2, <3>3 DEF DirsTaken
    <2>6. FilesTaken(job, k, next)
      <3>1. FilesTaken(job, k - 1, acc) /\ next.links = acc.links /\ next.files = acc.files
        BY <2>3 DEF ReadOK
      <3> HIDE DEF next
      <3>2. QED BY <1>2, <3>1 DEF FilesTaken
    <2>7. Done(next.dirs, next.files, n)
      BY <2>1, <2>3 DEF Done, Counts, JobOK, Told
    <2>8. \A m : Done(acc.dirs, acc.files, m) => Done(next.dirs, next.files, m)
      BY <2>3 DEF Done
    <2>9. next.troubled = acc.troubled /\ next = [dirs |-> next.dirs, links |-> next.links, jobs |-> next.jobs, files |-> next.files,
                     troubled |-> next.troubled]
      BY <2>3
    <2> HIDE DEF next, t, n, e
    <2>10. ReadOK(job, k, next)
      BY <1>3, <2>5, <2>6, <2>7, <2>8, <2>9 DEF ReadOK, n, e
    <2>11. QED BY <2>10 DEF next, t, e
  <1>9. QED BY <1>1, <1>5, <1>6, <1>7, <1>8 DEF EntryOK

(* Each link that has been seen is counted.                                 *)
LinksKnown ==
    /\ NoLink \notin filesSeen
    /\ \A n \in Nodes : IdOf(n) \in filesSeen /\ Tells(world, n) /\ Counts(n) => CountedIn({}, n)

LEMMA ReadEntriesOK ==
    ASSUME world \in Worlds, NEW job, JobOK(job), troubled \in BOOLEAN, LinksKnown
    PROVE  ReadOK(job, Len(Listed(job)), ReadEntries(job))
  <1> DEFINE l == Len(Listed(job))
             f == CHOOSE g : Reads(job, l, g)
             T == {k \in 0 .. l : ReadOK(job, k, f[k])}
  <1>1. l \in Nat
    BY NodeTyped DEF Listed, JobOK
  <1>2. Reads(job, l, f)
    <2> HIDE DEF l
    <2>1. \E g : Reads(job, l, g)
      BY <1>1, ReadExists
    <2>2. QED BY <2>1
  <1>3. ReadEntries(job) = f[l]
    BY ReadEntriesIs
  <1> HIDE DEF f
  <1>4. f = [k \in 0 .. l |-> IF k = 0 THEN Begun
                              ELSE Sink(f[k - 1], Entry(job, Listed(job)[k]), Listed(job)[k].name)]
    BY <1>2 DEF Reads
  <1>5. f[0] = Begun /\ \A k \in 1 .. l : f[k] = Sink(f[k - 1], Entry(job, Listed(job)[k]), Listed(job)[k].name)
    <2> DEFINE next(k) == Sink(f[k - 1], Entry(job, Listed(job)[k]), Listed(job)[k].name)
    <2> HIDE DEF next
    <2>1. f = [k \in 0 .. l |-> IF k = 0 THEN Begun ELSE next(k)]
      BY <1>4 DEF next
    <2> HIDE DEF l
    <2>2. f[0] = Begun /\ \A k \in 1 .. l : f[k] = next(k)
      BY <1>1, <2>1
    <2>3. QED BY <2>2 DEF next, l
  <1>6. ReadOK(job, 0, Begun)
    <2>1. DirsTaken(job, 0, Begun)
      BY DEF DirsTaken, Begun
    <2>2. FilesTaken(job, 0, Begun)
      BY DEF FilesTaken, Begun, LinksKnown
    <2>3. QED BY <2>1, <2>2 DEF ReadOK, Begun
  <1>7. 0 \in T
    BY <1>1, <1>5, <1>6
  <1>8. ASSUME NEW k \in 1 .. l, k - 1 \in T PROVE k \in T
    <2>1. ReadOK(job, k - 1, f[k - 1])
      BY <1>8
    <2>2. ReadOK(job, k, Sink(f[k - 1], Entry(job, Listed(job)[k]), Listed(job)[k].name))
      BY <1>1, <2>1, ReadsOne
    <2>3. QED BY <1>5, <2>2
  <1> HIDE DEF T
  <1>9. 0 .. l \subseteq T
    BY <1>1, <1>7, <1>8, Induct
  <1>10. l \in T
    BY <1>1, <1>9
  <1>11. QED BY <1>3, <1>10 DEF T

-----------------------------------------------------------------------------
(* What the walk is of: all that is closed under the ways it may take has.  *)
Closed(C) == \A n \in C : Node(n).opens = "ok" =>
                \A i \in 1 .. Len(Node(n).list) : Enters(Node(n).list[i]) => Node(n).list[i].leads \in C
Reached(n) == \A C \in SUBSET Nodes : world.root \in C /\ Closed(C) => n \in C

LEMMA FromIs ==
    ASSUME world \in Worlds, NEW S, S \subseteq Nodes
    PROVE  /\ S \subseteq From(S) /\ From(S) \subseteq Nodes
           /\ From(S) \subseteq S <=> Closed(S)
           /\ \A C : S \subseteq C /\ Closed(C) => From(S) \subseteq C
  <1>1. ASSUME NEW n \in S
        PROVE  /\ Range(Node(n).list) = {Node(n).list[i] : i \in 1 .. Len(Node(n).list)}
               /\ \A i \in 1 .. Len(Node(n).list) : Node(n).list[i].leads \in Nodes
    <2>1. \A i \in 1 .. Len(Node(n).list) : Node(n).list[i] \in EntryType(Len(world.nodes))
      BY NodeTyped
    <2>2. DOMAIN Node(n).list = 1 .. Len(Node(n).list)
      <3> DEFINE E == EntryType(Len(world.nodes))
      <3>1. Node(n).list \in Seq(E)
        BY NodeTyped
      <3> HIDE DEF E
      <3>2. QED BY <3>1, LenProperties
    <2>3. QED BY <2>1, <2>2 DEF Range, EntryType, Nodes
  <1>2. \A m : m \in From(S) <=>
           m \in S \/ \E n \in S : /\ Node(n).opens = "ok"
                                   /\ \E i \in 1 .. Len(Node(n).list) :
                                        Enters(Node(n).list[i]) /\ m = Node(n).list[i].leads
    <2> DEFINE E(n) == {e.leads : e \in {x \in Range(Node(n).list) : Enters(x)}}
    <2>1. ASSUME NEW n \in S, NEW m
          PROVE  m \in E(n) <=>
                   \E i \in 1 .. Len(Node(n).list) : Enters(Node(n).list[i]) /\ m = Node(n).list[i].leads
      BY <1>1
    <2>2. From(S) = S \cup UNION {E(n) : n \in {m \in S : Node(m).opens = "ok"}}
      BY DEF From
    <2> HIDE DEF E
    <2>3. \A m : m \in From(S) <=> m \in S \/ \E n \in S : Node(n).opens = "ok" /\ m \in E(n)
      BY <2>2
    <2>4. QED BY <2>1, <2>3
  <1>3. S \subseteq From(S)
    BY <1>2
  <1>4. From(S) \subseteq Nodes
    BY <1>1, <1>2
  <1>5. From(S) \subseteq S <=> Closed(S)
    BY <1>2 DEF Closed
  <1>6. ASSUME NEW C, S \subseteq C, Closed(C) PROVE From(S) \subseteq C
    BY <1>2, <1>6 DEF Closed
  <1>7. QED BY <1>3, <1>4, <1>5, <1>6

Grows(n, f) == f = [k \in 0 .. n |-> IF k = 0 THEN {world.root} ELSE From(f[k - 1])]

LEMMA GrowsExists == ASSUME NEW l \in Nat PROVE \E f : Grows(l, f)
  <1> DEFINE T == {n \in 0 .. l : \E f : Grows(n, f)}
  <1>1. 0 \in T
    <2> DEFINE g == [k \in 0 .. 0 |-> {world.root}]
    <2>1. g = [k \in 0 .. 0 |-> IF k = 0 THEN {world.root} ELSE From(g[k - 1])]
      OBVIOUS
    <2> HIDE DEF g
    <2>2. Grows(0, g)
      BY <2>1 DEF Grows
    <2>3. QED BY <2>2
  <1>2. ASSUME NEW n \in 1 .. l, n - 1 \in T PROVE n \in T
    <2>1. PICK f : Grows(n - 1, f)
      BY <1>2
    <2>2. f = [k \in 0 .. n - 1 |-> IF k = 0 THEN {world.root} ELSE From(f[k - 1])]
      BY <2>1 DEF Grows
    <2> DEFINE g == [k \in 0 .. n |-> IF k = 0 THEN {world.root} ELSE From(f[k - 1])]
    <2>3. ASSUME NEW k \in 0 .. n - 1 PROVE g[k] = f[k]
      <3>1. k \in 0 .. n
        OBVIOUS
      <3>2. QED BY <2>2, <3>1
    <2>4. g = [k \in 0 .. n |-> IF k = 0 THEN {world.root} ELSE From(g[k - 1])]
      <3>1. ASSUME NEW k \in 0 .. n
            PROVE  (IF k = 0 THEN {world.root} ELSE From(f[k - 1]))
                     = IF k = 0 THEN {world.root} ELSE From(g[k - 1])
        <4>1. CASE k = 0
          BY <4>1
        <4>2. CASE k # 0
          <5>1. k - 1 \in 0 .. n - 1
            BY <4>2
          <5>2. g[k - 1] = f[k - 1]
            BY <5>1, <2>3
          <5>3. QED BY <4>2, <5>2
        <4>3. QED BY <4>1, <4>2
      <3>2. QED BY <3>1, Zenon
    <2> HIDE DEF g
    <2>5. Grows(n, g)
      BY <2>4 DEF Grows
    <2>6. QED BY <2>5
  <1>3. 0 .. l \subseteq T
    <2> HIDE DEF T
    <2>1. QED BY <1>1, <1>2, Induct
  <1>4. l \in T
    BY <1>3
  <1>5. QED BY <1>4

(* As many steps as there are nodes find all that can be.                   *)
LEMMA HeldIs ==
    ASSUME world \in Worlds
    PROVE  Held \subseteq Nodes /\ \A n \in Nodes : n \in Held <=> Reached(n)
  <1> DEFINE l == Len(world.nodes)
             g == CHOOSE f : Grows(l, f)
  <1>1. l \in Nat /\ world.root \in Nodes
    BY WorldTyped
  <1>2. Grows(l, g)
    <2> HIDE DEF l
    <2>1. QED BY <1>1, GrowsExists
  <1>3. Held = g[l]
    BY DEF Held, Grows
  <1> HIDE DEF g
  <1>4. g[0] = {world.root} /\ \A k \in 1 .. l : g[k] = From(g[k - 1])
    <2> DEFINE next(k) == From(g[k - 1])
    <2> HIDE DEF l, next
    <2>1. g = [k \in 0 .. l |-> IF k = 0 THEN {world.root} ELSE next(k)]
      BY <1>2 DEF Grows, next
    <2>2. g[0] = {world.root} /\ \A k \in 1 .. l : g[k] = next(k)
      BY <1>1, <2>1
    <2>3. QED BY <2>2 DEF next
  <1>5. IsFiniteSet(Nodes) /\ Cardinality(Nodes) = l
    BY <1>1, FS_Interval DEF Nodes
  <1> DEFINE T == {k \in 0 .. l : /\ g[k] \subseteq Nodes
                                  /\ \A C : world.root \in C /\ Closed(C) => g[k] \subseteq C
                                  /\ world.root \in g[k]
                                  /\ From(g[k]) = g[k] \/ Cardinality(g[k]) >= k + 1}
  <1>6. 0 \in T
    <2>1. Cardinality({world.root}) = 1
      BY FS_Singleton
    <2>2. g[0] \subseteq Nodes /\ world.root \in g[0] /\ \A C : world.root \in C => g[0] \subseteq C
      BY <1>1, <1>4
    <2>3. Cardinality(g[0]) >= 0 + 1 /\ 0 \in 0 .. l
      BY <1>1, <1>4, <2>1
    <2>4. QED BY <2>2, <2>3
  <1>7. ASSUME NEW k \in 1 .. l, k - 1 \in T PROVE k \in T
    <2> DEFINE S == g[k - 1]
    <2>1. /\ S \subseteq Nodes /\ world.root \in S
          /\ \A C : world.root \in C /\ Closed(C) => S \subseteq C
          /\ From(S) = S \/ Cardinality(S) >= k
      BY <1>7
    <2>2. g[k] = From(S)
      BY <1>4
    <2> HIDE DEF S
    <2>3. /\ S \subseteq From(S) /\ From(S) \subseteq Nodes
          /\ \A C : S \subseteq C /\ Closed(C) => From(S) \subseteq C
      BY <2>1, FromIs
    <2>4. From(From(S)) = From(S) \/ Cardinality(From(S)) >= k + 1
      <3>1. CASE From(S) = S
        BY <3>1
      <3>2. CASE From(S) # S
        <4>1. IsFiniteSet(From(S))
          BY <1>5, <2>3, FS_Subset
        <4>2. S \in SUBSET From(S)
          BY <2>3
        <4>3. IsFiniteSet(S) /\ Cardinality(S) < Cardinality(From(S))
          <5>1. IsFiniteSet(S) /\ Cardinality(S) <= Cardinality(From(S)) /\ (Cardinality(S) = Cardinality(From(S)) => S = From(S))
            BY <4>1, <4>2, FS_Subset
          <5>2. Cardinality(S) \in Nat /\ Cardinality(From(S)) \in Nat
            BY <4>1, <5>1, FS_CardinalityType
          <5>3. QED BY <3>2, <5>1, <5>2
        <4>4. Cardinality(S) \in Nat /\ Cardinality(From(S)) \in Nat
          BY <4>1, <4>3, FS_CardinalityType
        <4>5. Cardinality(S) >= k
          BY <2>1, <3>2
        <4>6. QED BY <4>3, <4>4, <4>5
      <3>3. QED BY <3>1, <3>2
    <2>5. QED BY <2>1, <2>2, <2>3, <2>4
  <1>8. l \in T
    <2> HIDE DEF T, l
    <2>1. 0 .. l \subseteq T
      BY <1>1, <1>6, <1>7, Induct
    <2>2. QED BY <1>1, <2>1
  <1>9. /\ Held \subseteq Nodes /\ world.root \in Held
        /\ \A C : world.root \in C /\ Closed(C) => Held \subseteq C
        /\ From(Held) = Held \/ Cardinality(Held) >= l + 1
    BY <1>3, <1>8
  <1>10. From(Held) = Held
    <2>1. Cardinality(Held) <= l
      BY <1>5, <1>9, FS_Subset
    <2>2. Cardinality(Held) \in Nat
      BY <1>5, <1>9, FS_Subset, FS_CardinalityType
    <2>3. QED BY <1>1, <1>9, <2>1, <2>2
  <1>11. Closed(Held)
    BY <1>9, <1>10, FromIs
  <1>12. QED BY <1>9, <1>11 DEF Reached

LEMMA ReachedOn ==
    ASSUME world \in Worlds, NEW x \in Ways(world), Node(x.of).opens = "ok", Enters(x.e), Reached(x.of)
    PROVE  Reached(x.e.leads)
  <1>1. x.of \in Nodes /\ x.at \in 1 .. Len(Node(x.of).list) /\ x.e = Node(x.of).list[x.at] /\ x.e.leads \in Nodes
    BY WayTyped
  <1>2. QED BY <1>1 DEF Reached, Closed

-----------------------------------------------------------------------------
(* The world stays as it is while it is walked.                             *)
LEMMA SameWorld ==
    ASSUME world' = world
    PROVE  /\ Nodes' = Nodes /\ \A n : Node(n)' = Node(n) /\ IdOf(n)' = IdOf(n)
           /\ \A id, n : Names(id, n)' <=> Names(id, n)
           /\ \A id, n : Told(id, n)' <=> Told(id, n)
           /\ \A j : JobOK(j)' <=> JobOK(j)
           /\ \A e : Enters(e)' <=> Enters(e)
           /\ \A n : Counts(n)' <=> Counts(n)
           /\ \A n : Reached(n)' <=> Reached(n)
  <1>1. Nodes' = Nodes /\ \A n : Node(n)' = Node(n)
    BY DEF Nodes, Node
  <1>2. \A n : IdOf(n)' = IdOf(n)
    BY <1>1 DEF IdOf
  <1>3. Root' = Root
    BY <1>1 DEF Root
  <1>4. \A path, t : Trail(path, t)' <=> Trail(path, t)
    BY <1>1 DEF Trail
  <1>5. \A path, n : Follows(path, n)' <=> Follows(path, n)
    BY <1>4 DEF Follows
  <1>6. \A n : Standin(n)' <=> Standin(n)
    BY DEF Standin
  <1>7. \A id, n : Names(id, n)' <=> Names(id, n)
    BY <1>2, <1>5, <1>6 DEF Names
  <1>8. \A id, n : Told(id, n)' <=> Told(id, n)
    BY <1>2, <1>7 DEF Told
  <1>9. \A n : Own(n)' <=> Own(n)
    BY <1>1, <1>3 DEF Own
  <1>10. \A m : PseudoMount(m)' <=> PseudoMount(m)
    BY DEF PseudoMount
  <1>11. \A j : JobOK(j)' <=> JobOK(j)
    BY <1>1, <1>5, <1>8, <1>9, <1>10 DEF JobOK
  <1>12. \A e : Foreign(e)' <=> Foreign(e)
    BY <1>1, <1>3 DEF Foreign, Stated
  <1>13. \A e : Enters(e)' <=> Enters(e)
    BY <1>1, <1>12 DEF Enters, Unseen, Stated
  <1>14. \A n : Counts(n)' <=> Counts(n)
    BY <1>1 DEF Counts
  <1>15. \A C : Closed(C)' <=> Closed(C)
    BY <1>1, <1>13 DEF Closed
  <1>16. \A n : Reached(n)' <=> Reached(n)
    BY <1>1, <1>15 DEF Reached
  <1>17. QED BY <1>1, <1>2, <1>7, <1>8, <1>11, <1>13, <1>14, <1>16

(* A folder found in one sent, unless it is the root.                       *)
KnownOK(a) ==
    /\ a.id \in dirsSeen /\ Told(a.id, a.node) /\ Reached(a.node)
    /\ a.parent = <<>> \/ \E d \in sent : d.id = a.parent

(* No two folders found are taken for one, and when two are one.            *)
Again(a, b) ==
    \/ Aliased(world, a.node)
    \/ ~Tells(world, a.node) /\ (OneWay(world, a.node) => a.parent # b.parent)
ApartDirs(a, b) == a.id # b.id /\ (a.node = b.node => Again(a, b))

DirsOK ==
    /\ \A j \in queue : JobOK(j) /\ KnownOK(j)
    /\ \A d \in sent : d.node \in Nodes /\ Node(d.node).opens = "ok" /\ KnownOK(d)
    /\ \A j, l \in queue : j # l => ApartDirs(j, l)
    /\ \A d, c \in sent : d # c => ApartDirs(d, c)
    /\ \A j \in queue : \A d \in sent : ApartDirs(j, d)

(* A folder seen waits, has been sent or can't be opened.                   *)
SeenOK ==
    /\ Start(world).id \in dirsSeen
    /\ \A id \in dirsSeen : \/ \E j \in queue : j.id = id
                            \/ \E d \in sent : d.id = id
                            \/ \E n \in Nodes : Names(id, n) /\ Node(n).opens # "ok"

(* When two files sent are one.                                             *)
MountedOn(n) == \E x \in Ways(world) : x.e.leads = n /\ x.e.mnt # 0

FilesOK ==
    /\ \A d \in sent : \A f \in d.files :
         /\ f.node \in Nodes /\ (Reached(f.node) \/ MountedOn(f.node))
         /\ \E x \in Ways(world) : x.of = d.node /\ x.e.leads = f.node
         /\ Unlinked(world, f.node) \/ IdOf(f.node) \in filesSeen
    /\ \A d, c \in sent : \A f \in d.files : \A g \in c.files : f.node = g.node =>
         \/ d = c /\ f = g
         \/ Unlinked(world, f.node) /\ (OneWay(world, f.node) => d # c /\ d.node = c.node)
    /\ LinksKnown

(* What a folder sent has is taken, unless there was trouble.               *)
TakenOK ==
    ~troubled => \A d \in sent : \A i \in 1 .. Len(Node(d.node).list) :
        Enters(Node(d.node).list[i]) => Done(dirsSeen, {}, Node(d.node).list[i].leads)

WalkInv ==
    /\ world \in Worlds /\ troubled \in BOOLEAN
    /\ DirsOK /\ SeenOK /\ FilesOK /\ TakenOK

LEMMA StartOK ==
    ASSUME world \in Worlds
    PROVE  JobOK(Start(world)) /\ Start(world).node = world.root /\ Start(world).parent = <<>>
  <1> DEFINE r == world.nodes[world.root]
             j == Start(world)
  <1>1. world.root \in Nodes /\ r = Root /\ Root.kind = "dir"
    BY WorldTyped DEF Root, Node
  <1>2. /\ j.node = world.root /\ j.mnt = world.mnt /\ j.path = <<>> /\ j.unique = r.unique
        /\ j.parent = <<>>
        /\ j.id = IF world.platform = "windows" THEN FolderId(r.dev, r.ino, r.unique, <<>>) ELSE NodeId(r.dev, r.ino)
    BY DEF Start, Job
  <1>3. Follows(<<>>, world.root)
    <2> DEFINE t == [i \in 0 .. 0 |-> world.root]
    <2>1. Len(<<>>) = 0 /\ <<>> \in Seq(STRING)
      OBVIOUS
    <2>2. t \in [0 .. 0 -> Nodes] /\ t[0] = world.root
      BY <1>1
    <2> HIDE DEF t
    <2>3. Trail(<<>>, t)
      BY <2>1, <2>2 DEF Trail
    <2>4. QED BY <2>1, <2>2, <2>3 DEF Follows
  <1>4. Told(j.id, world.root)
    <2>1. CASE world.platform = "windows"
      <3>1. Told(FolderId(Node(world.root).dev, Node(world.root).ino, Node(world.root).unique, <<>>), world.root)
        BY <1>1, <1>3, <2>1, FolderIdTold, StandsIn
      <3>2. QED BY <1>2, <2>1, <3>1 DEF Node
    <2>2. CASE world.platform # "windows"
      <3>1. j.id = IdOf(world.root)
        BY <1>2, <2>2 DEF IdOf, Node
      <3>2. QED BY <2>2, <3>1, StandsIn DEF Told, Names, Tells
    <2>3. QED BY <2>1, <2>2
  <1>5. Own(world.root)
    BY DEF Own, Root
  <1>6. QED BY <1>1, <1>2, <1>3, <1>4, <1>5 DEF JobOK, Node

LEMMA WalkInvInit == WalkInit => WalkInv
  <1> SUFFICES ASSUME WalkInit PROVE WalkInv
    OBVIOUS
  <1> DEFINE j == Start(world)
  <1>1. /\ world \in Worlds /\ queue = {j} /\ dirsSeen = {j.id}
        /\ filesSeen = {} /\ sent = {} /\ troubled = FALSE
    BY DEF WalkInit
  <1>2. JobOK(j) /\ j.node = world.root /\ j.parent = <<>>
    BY <1>1, StartOK
  <1>3. KnownOK(j)
    BY <1>1, <1>2 DEF KnownOK, JobOK, Reached
  <1> HIDE DEF j
  <1>4. DirsOK
    BY <1>1, <1>2, <1>3 DEF DirsOK
  <1>5. SeenOK
    BY <1>1 DEF SeenOK, j
  <1>6. FilesOK /\ TakenOK
    BY <1>1 DEF FilesOK, TakenOK, LinksKnown
  <1>7. QED BY <1>1, <1>4, <1>5, <1>6 DEF WalkInv

LEMMA WalkInvSame ==
    ASSUME WalkInv, UNCHANGED walkVars
    PROVE  WalkInv'
  <1>1. /\ world' = world /\ queue' = queue /\ dirsSeen' = dirsSeen /\ filesSeen' = filesSeen
        /\ sent' = sent /\ troubled' = troubled
    BY DEF walkVars
  <1>2. /\ Nodes' = Nodes /\ \A n : Node(n)' = Node(n) /\ IdOf(n)' = IdOf(n)
        /\ \A id, n : Names(id, n)' <=> Names(id, n)
        /\ \A id, n : Told(id, n)' <=> Told(id, n)
        /\ \A j : JobOK(j)' <=> JobOK(j)
        /\ \A e : Enters(e)' <=> Enters(e)
        /\ \A n : Counts(n)' <=> Counts(n)
        /\ \A n : Reached(n)' <=> Reached(n)
    BY <1>1, SameWorld
  <1>3. \A a : KnownOK(a)' <=> KnownOK(a)
    BY <1>1, <1>2 DEF KnownOK
  <1>4. \A files, n : CountedIn(files, n)' <=> CountedIn(files, n)
    BY <1>1 DEF CountedIn
  <1>5. \A ids, files, n : Done(ids, files, n)' <=> Done(ids, files, n)
    BY <1>2, <1>4 DEF Done
  <1>6. DirsOK'
    BY <1>1, <1>2, <1>3 DEF WalkInv, DirsOK, ApartDirs, Again
  <1>7. SeenOK'
    BY <1>1, <1>2 DEF WalkInv, SeenOK
  <1>8. FilesOK'
    BY <1>1, <1>2, <1>4 DEF WalkInv, FilesOK, LinksKnown, MountedOn
  <1>9. TakenOK'
    BY <1>1, <1>2, <1>5 DEF WalkInv, TakenOK
  <1>10. QED BY <1>1, <1>6, <1>7, <1>8, <1>9 DEF WalkInv

LEMMA WalkInvFails ==
    ASSUME WalkInv, NEW job \in queue, OpenFails(job)
    PROVE  WalkInv'
  <1>1. /\ world' = world /\ queue' = queue \ {job} /\ dirsSeen' = dirsSeen /\ filesSeen' = filesSeen
        /\ sent' = sent /\ troubled' = (troubled \/ ~Quiet(Node(job.node).opens)) /\ Node(job.node).opens # "ok"
    BY DEF OpenFails
  <1>2. /\ Nodes' = Nodes /\ \A n : Node(n)' = Node(n) /\ IdOf(n)' = IdOf(n)
        /\ \A id, n : Names(id, n)' <=> Names(id, n)
        /\ \A id, n : Told(id, n)' <=> Told(id, n)
        /\ \A j : JobOK(j)' <=> JobOK(j)
        /\ \A e : Enters(e)' <=> Enters(e)
        /\ \A n : Counts(n)' <=> Counts(n)
        /\ \A n : Reached(n)' <=> Reached(n)
    BY <1>1, SameWorld
  <1>3. \A a : KnownOK(a)' <=> KnownOK(a)
    BY <1>1, <1>2 DEF KnownOK
  <1>4. \A files, n : CountedIn(files, n)' <=> CountedIn(files, n)
    BY <1>1 DEF CountedIn
  <1>5. \A ids, files, n : Done(ids, files, n)' <=> Done(ids, files, n)
    BY <1>2, <1>4 DEF Done
  <1>6. DirsOK'
    <2>1. \A j \in queue' : JobOK(j)' /\ KnownOK(j)'
      BY <1>1, <1>2, <1>3 DEF WalkInv, DirsOK
    <2>2. \A d \in sent' : d.node \in Nodes' /\ Node(d.node)'.opens = "ok" /\ KnownOK(d)'
      BY <1>1, <1>2, <1>3 DEF WalkInv, DirsOK
    <2>3. /\ \A j, l \in queue' : j # l => ApartDirs(j, l)
          /\ \A d, c \in sent' : d # c => ApartDirs(d, c)
          /\ \A j \in queue' : \A d \in sent' : ApartDirs(j, d)
      BY <1>1 DEF WalkInv, DirsOK
    <2>4. \A a, b : ApartDirs(a, b)' <=> ApartDirs(a, b)
      BY <1>1, <1>2 DEF ApartDirs, Again
    <2>5. QED BY <2>1, <2>2, <2>3, <2>4 DEF DirsOK
  <1>7. SeenOK'
    <2>1. job.node \in Nodes /\ Names(job.id, job.node)
      BY DEF WalkInv, DirsOK, JobOK, Told
    <2>2. ASSUME NEW id \in dirsSeen
          PROVE  \/ \E j \in queue \ {job} : j.id = id
                 \/ \E d \in sent : d.id = id
                 \/ \E n \in Nodes : Names(id, n) /\ Node(n).opens # "ok"
      <3>1. CASE \E j \in queue : j.id = id
        <4>1. PICK j \in queue : j.id = id
          BY <3>1
        <4>2. CASE j = job
          BY <1>1, <2>1, <4>1, <4>2
        <4>3. CASE j # job
          BY <4>1, <4>3
        <4>4. QED BY <4>2, <4>3
      <3>2. CASE ~ \E j \in queue : j.id = id
        BY <3>2 DEF WalkInv, SeenOK
      <3>3. QED BY <3>1, <3>2
    <2>3. Start(world').id \in dirsSeen'
      BY <1>1 DEF WalkInv, SeenOK
    <2>4. QED BY <1>1, <1>2, <2>2, <2>3 DEF SeenOK
  <1>8. FilesOK'
    BY <1>1, <1>2, <1>4 DEF WalkInv, FilesOK, LinksKnown, MountedOn
  <1>9. TakenOK'
    BY <1>1, <1>2, <1>5 DEF WalkInv, TakenOK
  <1>10. troubled' \in BOOLEAN
    BY <1>1 DEF Quiet
  <1>11. QED BY <1>1, <1>6, <1>7, <1>8, <1>9, <1>10 DEF WalkInv

LEMMA ReadIs ==
    ASSUME WalkInv, NEW job \in queue
    PROVE  /\ ReadOK(job, Len(Listed(job)), ReadEntries(job)) /\ Len(Listed(job)) \in Nat
           /\ JobOK(job) /\ job.node \in Nodes /\ KnownOK(job) /\ world \in Worlds
  <1>1. JobOK(job) /\ KnownOK(job) /\ world \in Worlds /\ troubled \in BOOLEAN /\ LinksKnown
    BY DEF WalkInv, DirsOK, FilesOK
  <1>2. job.node \in Nodes
    BY <1>1 DEF JobOK
  <1>3. QED BY <1>1, <1>2, ReadEntriesOK, NodeTyped DEF Listed

(* The folders a reading finds.                                             *)
LEMMA JobsFound ==
    ASSUME WalkInv, NEW job \in queue, Node(job.node).opens = "ok", NEW j \in ReadEntries(job).jobs
    PROVE  /\ JobOK(j) /\ j.id \notin dirsSeen /\ Reached(j.node)
           /\ j.parent = job.id
           /\ \E i \in 1 .. Len(Listed(job)) : /\ Entry(job, Listed(job)[i]) = Subfolder(j)
                                               /\ Listed(job)[i].leads = j.node
  <1> DEFINE l == Len(Listed(job))
             r == ReadEntries(job)
  <1>1. DirsTaken(job, l, r) /\ JobOK(job) /\ KnownOK(job) /\ world \in Worlds
    BY ReadIs DEF ReadOK
  <1> HIDE DEF r
  <1>2. PICK i \in 1 .. l : j.id \notin dirsSeen /\ Entry(job, Listed(job)[i]) = Subfolder(j)
    BY <1>1 DEF DirsTaken, r
  <1> DEFINE x == WayAt(job, i)
  <1>3. /\ x \in Ways(world) /\ x.of = job.node /\ x.e = Listed(job)[i]
        /\ EntryOK(Entry(job, Listed(job)[i]), x, job)
    BY <1>1, WayAtIs
  <1> HIDE DEF x
  <1>4. EntryOK(Subfolder(j), x, job)
    BY <1>2, <1>3
  <1>5. j.node = x.e.leads /\ Enters(x.e) /\ JobOK(j) /\ j.parent = job.id
    BY <1>4, DirTaken
  <1>6. Reached(j.node)
    BY <1>1, <1>3, <1>5, ReachedOn DEF KnownOK
  <1>7. QED BY <1>2, <1>3, <1>5, <1>6

LEMMA JobsApart ==
    ASSUME WalkInv, NEW job \in queue, Node(job.node).opens = "ok", NEW j \in ReadEntries(job).jobs
    PROVE  /\ \A a \in queue \cup sent : ApartDirs(j, a) /\ ApartDirs(a, j)
           /\ \A k \in ReadEntries(job).jobs : k # j => ApartDirs(j, k)
  <1> DEFINE n == j.node
             r == ReadEntries(job)
  <1>1. Told(j.id, n) /\ j.id \notin dirsSeen /\ j.parent = job.id
    BY JobsFound DEF JobOK
  <1>2. JobOK(job) /\ world \in Worlds /\ \A d \in sent : d.id # job.id
    BY ReadIs DEF WalkInv, DirsOK, ApartDirs
  <1>3. ASSUME NEW a, Told(a.id, n), a.id # j.id PROVE Aliased(world, n) \/ ~Tells(world, n)
    BY <1>1, <1>3 DEF Told
  <1>4. ASSUME NEW a \in queue \cup sent PROVE ApartDirs(j, a) /\ ApartDirs(a, j)
    <2>1. KnownOK(a)
      BY DEF WalkInv, DirsOK
    <2>2. j.id # a.id
      BY <1>1, <2>1 DEF KnownOK
    <2>3. a.parent # j.parent
      <3>1. job.id # <<>>
        BY <1>2, NamesSomething DEF JobOK, Told
      <3>2. QED BY <1>1, <1>2, <2>1, <3>1 DEF KnownOK
    <2>4. a.node = n => Aliased(world, n) \/ ~Tells(world, n)
      BY <1>3, <2>1, <2>2 DEF KnownOK
    <2>5. QED BY <2>2, <2>3, <2>4 DEF ApartDirs, Again
  <1>5. ASSUME NEW k \in r.jobs, k # j PROVE ApartDirs(j, k)
    <2>1. j.id # k.id
      BY <1>5, ReadIs DEF ReadOK, DirsTaken
    <2>2. k.node = n => Aliased(world, n) \/ ~Tells(world, n)
      <3>1. Told(k.id, k.node)
        BY JobsFound DEF JobOK
      <3>2. QED BY <1>3, <2>1, <3>1
    <2>3. ASSUME k.node = n, OneWay(world, n) PROVE FALSE
      <3>1. PICK i \in 1 .. Len(Listed(job)) : Entry(job, Listed(job)[i]) = Subfolder(j) /\ Listed(job)[i].leads = n
        BY JobsFound
      <3>2. PICK m \in 1 .. Len(Listed(job)) : Entry(job, Listed(job)[m]) = Subfolder(k) /\ Listed(job)[m].leads = n
        BY <2>3, JobsFound
      <3>3. m = i
        BY <1>2, <2>3, <3>1, <3>2, OneEntry
      <3>4. Subfolder(j) = Subfolder(k)
        BY <3>1, <3>2, <3>3
      <3>5. QED BY <1>5, <3>4 DEF Subfolder
    <2>4. QED BY <2>1, <2>2, <2>3 DEF ApartDirs, Again
  <1>6. QED BY <1>4, <1>5

(* The files it does.                                                       *)
LEMMA FilesFound ==
    ASSUME WalkInv, NEW job \in queue, Node(job.node).opens = "ok", NEW f \in ReadEntries(job).files
    PROVE  /\ f.node \in Nodes /\ (Reached(f.node) \/ MountedOn(f.node))
           /\ \E x \in Ways(world) : x.of = job.node /\ x.e.leads = f.node
           /\ \/ Unlinked(world, f.node)
              \/ IdOf(f.node) \in ReadEntries(job).links /\ IdOf(f.node) \notin filesSeen
           /\ \A d \in sent : \A g \in d.files : g.node = f.node =>
                Unlinked(world, f.node) /\ (OneWay(world, f.node) => d.node = job.node)
  <1> DEFINE l == Len(Listed(job))
             r == ReadEntries(job)
             n == f.node
  <1>1. FilesTaken(job, l, r) /\ JobOK(job) /\ KnownOK(job) /\ world \in Worlds
    BY ReadIs DEF ReadOK
  <1> HIDE DEF r
  <1>2. PICK i \in 1 .. l : \E size, link : Entry(job, Listed(job)[i]) = File(n, size, link)
    BY <1>1 DEF FilesTaken, r
  <1>3. Unlinked(world, n) \/ (IdOf(n) \in r.links /\ IdOf(n) \notin filesSeen)
    BY <1>1 DEF FilesTaken, r
  <1> DEFINE x == WayAt(job, i)
  <1>4. /\ x \in Ways(world) /\ x.of = job.node /\ x.e = Listed(job)[i] /\ Listed(job)[i].leads \in Nodes
        /\ EntryOK(Entry(job, Listed(job)[i]), x, job)
    BY <1>1, WayAtIs
  <1> HIDE DEF x
  <1>5. n = x.e.leads /\ (Enters(x.e) \/ x.e.mnt # 0)
    <2>1. PICK size, link : Entry(job, Listed(job)[i]) = File(n, size, link)
      BY <1>2
    <2>2. EntryOK(File(n, size, link), x, job)
      BY <1>4, <2>1
    <2>3. QED BY <2>2, FileTaken
  <1>6. Reached(n) \/ MountedOn(n)
    <2>1. CASE Enters(x.e)
      BY <1>1, <1>4, <1>5, <2>1, ReachedOn DEF KnownOK
    <2>2. CASE x.e.mnt # 0
      BY <1>4, <1>5, <2>2 DEF MountedOn
    <2>3. QED BY <1>5, <2>1, <2>2
  <1>7. ASSUME NEW d \in sent, NEW g \in d.files, g.node = n
        PROVE  Unlinked(world, n) /\ (OneWay(world, n) => d.node = job.node)
    <2>1. /\ \E y \in Ways(world) : y.of = d.node /\ y.e.leads = n
          /\ Unlinked(world, n) \/ IdOf(n) \in filesSeen
      BY <1>7 DEF WalkInv, FilesOK
    <2>2. OneWay(world, n) => d.node = job.node
      BY <1>4, <1>5, <2>1 DEF OneWay
    <2>3. QED BY <1>3, <2>1, <2>2
  <1>8. QED BY <1>3, <1>4, <1>5, <1>6, <1>7 DEF r

LEMMA WalkInvReads ==
    ASSUME WalkInv, NEW job \in queue, ReadDir(job)
    PROVE  WalkInv'
  <1>r. PICK r : r = ReadEntries(job)
    OBVIOUS
  <1>s. PICK sending : sending = [id |-> job.id, parent |-> job.parent, node |-> job.node, files |-> r.files]
    OBVIOUS
  <1>l. PICK l : l = Len(Listed(job))
    OBVIOUS
  <1>1. /\ world' = world /\ queue' = (queue \ {job}) \cup r.jobs /\ dirsSeen' = r.dirs
        /\ filesSeen' = r.links /\ troubled' = r.troubled /\ sent' = sent \cup {sending}
        /\ Node(job.node).opens = "ok"
    BY <1>r, <1>s DEF ReadDir
  <1>2. /\ Nodes' = Nodes /\ \A n : Node(n)' = Node(n) /\ IdOf(n)' = IdOf(n)
        /\ \A id, n : Names(id, n)' <=> Names(id, n)
        /\ \A id, n : Told(id, n)' <=> Told(id, n)
        /\ \A j : JobOK(j)' <=> JobOK(j)
        /\ \A e : Enters(e)' <=> Enters(e)
        /\ \A n : Counts(n)' <=> Counts(n)
        /\ \A n : Reached(n)' <=> Reached(n)
    BY <1>1, SameWorld
  <1>3. /\ ReadOK(job, l, r) /\ l \in Nat
        /\ JobOK(job) /\ job.node \in Nodes /\ KnownOK(job) /\ world \in Worlds
    BY <1>r, <1>l, ReadIs
  <1>4. /\ sending.id = job.id /\ sending.node = job.node /\ sending.files = r.files
        /\ sending \in sent'
    BY <1>1, <1>s
  <1>5. /\ \A j \in r.jobs : JobOK(j) /\ j.id \notin dirsSeen /\ Reached(j.node) /\ j.parent = job.id
        /\ \A j \in r.jobs : /\ \A a \in queue \cup sent : ApartDirs(j, a) /\ ApartDirs(a, j)
                             /\ \A k \in r.jobs : k # j => ApartDirs(j, k)
    BY <1>1, <1>r, JobsFound, JobsApart
  <1>6. /\ dirsSeen' = dirsSeen \cup {j.id : j \in r.jobs}
        /\ filesSeen \subseteq filesSeen' /\ NoLink \notin filesSeen'
        /\ r.troubled \in BOOLEAN /\ (troubled => r.troubled)
        /\ \A f, g \in r.files : f.node = g.node => f = g \/ (Unlinked(world, f.node) /\ ~OneWay(world, f.node))
        /\ \A n \in Nodes : IdOf(n) \in filesSeen' /\ Tells(world, n) /\ Counts(n) => CountedIn(r.files, n)
        /\ ~r.troubled => \A i \in 1 .. l : Enters(Listed(job)[i]) => Done(r.dirs, r.files, Listed(job)[i].leads)
    BY <1>1, <1>3 DEF ReadOK, DirsTaken, FilesTaken
  <1>7. \A a, b : ApartDirs(a, b)' <=> ApartDirs(a, b)
    BY <1>1, <1>2 DEF ApartDirs, Again
  <1>8. \A a : KnownOK(a) => KnownOK(a)'
    BY <1>1, <1>2, <1>6 DEF KnownOK
  <1>9. DirsOK'
    <2>1. \A j \in queue' : JobOK(j)' /\ KnownOK(j)'
      <3>1. ASSUME NEW j \in queue PROVE JobOK(j)' /\ KnownOK(j)'
        BY <1>2, <1>8 DEF WalkInv, DirsOK
      <3>2. ASSUME NEW j \in r.jobs PROVE JobOK(j)' /\ KnownOK(j)'
        <4>1. JobOK(j) /\ Reached(j.node) /\ Told(j.id, j.node) /\ j.id \in dirsSeen'
          BY <1>5, <1>6 DEF JobOK
        <4>2. \E d \in sent' : d.id = j.parent
          BY <1>4, <1>5
        <4>3. QED BY <1>2, <4>1, <4>2 DEF KnownOK
      <3>3. QED BY <1>1, <3>1, <3>2
    <2>2. \A d \in sent' : d.node \in Nodes' /\ Node(d.node)'.opens = "ok" /\ KnownOK(d)'
      <3>1. ASSUME NEW d \in sent PROVE d.node \in Nodes' /\ Node(d.node)'.opens = "ok" /\ KnownOK(d)'
        BY <1>2, <1>8 DEF WalkInv, DirsOK
      <3>2. sending.node \in Nodes' /\ Node(sending.node)'.opens = "ok"
        BY <1>1, <1>2, <1>3, <1>4
      <3>3. KnownOK(sending)'
        <4>1. KnownOK(job)'
          BY <1>3, <1>8
        <4>2. sending.parent = job.parent
          BY <1>s
        <4>3. QED BY <1>4, <4>1, <4>2 DEF KnownOK
      <3>4. QED BY <1>1, <3>1, <3>2, <3>3
    <2>3. /\ \A j, k \in queue : j # k => ApartDirs(j, k)
          /\ \A d, c \in sent : d # c => ApartDirs(d, c)
          /\ \A j \in queue : \A d \in sent : ApartDirs(j, d)
      BY DEF WalkInv, DirsOK
    <2>4. \A j, k \in queue' : j # k => ApartDirs(j, k)
      BY <1>1, <1>5, <2>3
    <2>5. \A a : (ApartDirs(a, sending) <=> ApartDirs(a, job)) /\ (ApartDirs(sending, a) <=> ApartDirs(job, a))
      <3>1. sending.parent = job.parent
        BY <1>s
      <3>2. QED BY <1>4, <3>1 DEF ApartDirs, Again
    <2>6. \A d \in sent : ApartDirs(d, sending) /\ ApartDirs(sending, d)
      <3>1. ASSUME NEW d \in sent PROVE ApartDirs(job, d) /\ ApartDirs(d, job)
        BY <2>3 DEF ApartDirs, Again
      <3>2. QED BY <2>5, <3>1
    <2>7. \A d, c \in sent' : d # c => ApartDirs(d, c)
      BY <1>1, <2>3, <2>6
    <2>8. \A j \in queue' : \A d \in sent' : ApartDirs(j, d)
      <3>1. ASSUME NEW j \in queue' PROVE ApartDirs(j, job) /\ \A d \in sent : ApartDirs(j, d)
        BY <1>1, <1>5, <2>3
      <3>2. QED BY <1>1, <2>5, <3>1
    <2>9. QED BY <1>7, <2>1, <2>2, <2>4, <2>7, <2>8 DEF DirsOK
  <1>10. SeenOK'
    <2>1. ASSUME NEW id \in dirsSeen'
          PROVE  \/ \E j \in queue' : j.id = id
                 \/ \E d \in sent' : d.id = id
                 \/ \E n \in Nodes : Names(id, n) /\ Node(n).opens # "ok"
      <3>1. CASE \E j \in r.jobs : j.id = id
        BY <1>1, <3>1
      <3>2. CASE id \in dirsSeen
        <4>1. CASE \E j \in queue : j.id = id
          <5>1. PICK j \in queue : j.id = id
            BY <4>1
          <5>2. CASE j = job
            BY <1>4, <5>1, <5>2
          <5>3. CASE j # job
            BY <1>1, <5>1, <5>3
          <5>4. QED BY <5>2, <5>3
        <4>2. CASE \E d \in sent : d.id = id
          BY <1>1, <4>2
        <4>3. CASE \E n \in Nodes : Names(id, n) /\ Node(n).opens # "ok"
          BY <4>3
        <4>4. QED BY <3>2, <4>1, <4>2, <4>3 DEF WalkInv, SeenOK
      <3>3. QED BY <1>6, <3>1, <3>2
    <2>2. Start(world').id \in dirsSeen'
      BY <1>1, <1>6 DEF WalkInv, SeenOK
    <2>3. QED BY <1>2, <2>1, <2>2 DEF SeenOK
  <1>11. \A ids, n : Done(ids, {}, n) /\ ids \subseteq dirsSeen' => Done(dirsSeen, {}, n)'
    <2>1. \A n : CountedIn({}, n) => CountedIn({}, n)'
      BY <1>1 DEF CountedIn
    <2>2. QED BY <1>2, <2>1 DEF Done
  <1>12. \A n : CountedIn(r.files, n) => CountedIn({}, n)'
    BY <1>1, <1>4 DEF CountedIn
  <1>13. FilesOK'
    <2>1. ASSUME NEW d \in sent', NEW f \in d.files
          PROVE  /\ f.node \in Nodes /\ (Reached(f.node) \/ MountedOn(f.node))
                 /\ \E x \in Ways(world) : x.of = d.node /\ x.e.leads = f.node
                 /\ Unlinked(world, f.node) \/ IdOf(f.node) \in filesSeen'
      <3>1. CASE d \in sent
        BY <1>6, <2>1, <3>1 DEF WalkInv, FilesOK
      <3>2. CASE d = sending
        <4>1. f \in r.files
          BY <1>4, <2>1, <3>2
        <4>2. /\ f.node \in Nodes /\ (Reached(f.node) \/ MountedOn(f.node))
              /\ \E x \in Ways(world) : x.of = job.node /\ x.e.leads = f.node
              /\ Unlinked(world, f.node) \/ IdOf(f.node) \in r.links
          BY <1>1, <4>1, <1>r, FilesFound
        <4>3. QED BY <1>1, <1>4, <3>2, <4>2
      <3>3. QED BY <1>1, <3>1, <3>2
    <2>2. ASSUME NEW d \in sent', NEW c \in sent', NEW f \in d.files, NEW g \in c.files, f.node = g.node
          PROVE  \/ d = c /\ f = g
                 \/ Unlinked(world, f.node) /\ (OneWay(world, f.node) => d # c /\ d.node = c.node)
      <3>1. \A a \in r.files : \A b \in sent : \A h \in b.files : h.node = a.node =>
              Unlinked(world, a.node) /\ (OneWay(world, a.node) => b # sending /\ b.node = sending.node)
        <4>1. \A b \in sent : b # sending
          BY <1>4 DEF WalkInv, DirsOK, ApartDirs
        <4>2. QED BY <1>1, <1>4, <1>r, <4>1, FilesFound
      <3>2. CASE d \in sent /\ c \in sent
        BY <2>2, <3>2 DEF WalkInv, FilesOK
      <3>3. CASE d = sending /\ c = sending
        BY <1>4, <1>6, <2>2, <3>3
      <3>4. CASE d = sending /\ c \in sent
        BY <1>4, <2>2, <3>1, <3>4
      <3>5. CASE d \in sent /\ c = sending
        BY <1>4, <2>2, <3>1, <3>5
      <3>6. QED BY <1>1, <3>2, <3>3, <3>4, <3>5
    <2>3. LinksKnown'
      BY <1>1, <1>2, <1>6, <1>12 DEF LinksKnown
    <2>4. QED BY <1>1, <1>2, <2>1, <2>2, <2>3 DEF FilesOK, MountedOn
  <1>14. TakenOK'
    <2> SUFFICES ASSUME ~troubled', NEW d \in sent', NEW i \in 1 .. Len(Node(d.node).list),
                        Enters(Node(d.node).list[i]), NEW n, n = Node(d.node).list[i].leads
                 PROVE  Done(dirsSeen, {}, n)'
      BY <1>2 DEF TakenOK
    <2>1. ~troubled /\ ~r.troubled
      BY <1>1, <1>6 DEF WalkInv
    <2>2. CASE d \in sent
      <3>1. Done(dirsSeen, {}, Node(d.node).list[i].leads)
        BY <2>1, <2>2 DEF WalkInv, TakenOK
      <3>2. QED BY <1>6, <1>11, <3>1
    <2>3. CASE d = sending
      <3>1. Node(d.node).list = Listed(job) /\ l = Len(Listed(job))
        BY <1>4, <1>l, <2>3 DEF Listed
      <3>2. Done(r.dirs, r.files, n)
        BY <1>6, <2>1, <3>1
      <3>3. QED BY <1>1, <1>2, <1>12, <3>2 DEF Done
    <2>4. QED BY <1>1, <2>2, <2>3
  <1>15. QED BY <1>1, <1>3, <1>6, <1>9, <1>10, <1>13, <1>14 DEF WalkInv

LEMMA WalkInvStep == WalkInv /\ [WalkNext]_walkVars => WalkInv'
  <1> SUFFICES ASSUME WalkInv, [WalkNext]_walkVars PROVE WalkInv'
    OBVIOUS
  <1>1. CASE UNCHANGED walkVars
    BY <1>1, WalkInvSame
  <1>2. ASSUME NEW job \in queue, OpenFails(job) PROVE WalkInv'
    BY <1>2, WalkInvFails
  <1>3. ASSUME NEW job \in queue, ReadDir(job) PROVE WalkInv'
    BY <1>3, WalkInvReads
  <1>4. QED BY <1>1, <1>2, <1>3 DEF WalkNext

-----------------------------------------------------------------------------
(* What is left to find when a walk ends: nothing.                          *)
LEMMA WalkedAll ==
    ASSUME WalkInv, Walked, ~troubled, NEW n \in Held, Counts(n)
    PROVE  CountedIn({}, n)
  <1> DEFINE C == {m \in Nodes : /\ Node(m).kind = "dir" =>
                                      (\E d \in sent : d.node = m) \/ Node(m).opens # "ok"
                                 /\ Counts(m) => CountedIn({}, m)}
  <1>1. world \in Worlds /\ DirsOK /\ SeenOK /\ TakenOK /\ queue = {}
    BY DEF WalkInv, Walked
  <1>2. ASSUME NEW m \in Nodes, Done(dirsSeen, {}, m) PROVE m \in C
    <2>1. Counts(m) => CountedIn({}, m)
      BY <1>2 DEF Done
    <2>2. ASSUME Node(m).kind = "dir", Node(m).opens = "ok" PROVE \E d \in sent : d.node = m
      <3>1. PICK id \in dirsSeen : Names(id, m)
        BY <1>2, <2>2 DEF Done
      <3>2. CASE \E d \in sent : d.id = id
        <4>1. PICK d \in sent : d.id = id
          BY <3>2
        <4>2. d.node \in Nodes /\ Names(id, d.node)
          BY <1>1, <4>1 DEF DirsOK, KnownOK, Told
        <4>3. d.node = m
          BY <1>1, <3>1, <4>2, NamesOne
        <4>4. QED BY <4>3
      <3>3. CASE \E k \in Nodes : Names(id, k) /\ Node(k).opens # "ok"
        <4>1. PICK k \in Nodes : Names(id, k) /\ Node(k).opens # "ok"
          BY <3>3
        <4>2. k = m
          BY <1>1, <3>1, <4>1, NamesOne
        <4>3. QED BY <2>2, <4>1, <4>2
      <3>4. QED BY <1>1, <3>2, <3>3 DEF SeenOK
    <2>3. QED BY <2>1, <2>2
  <1>3. world.root \in C
    <2>1. world.root \in Nodes /\ Node(world.root).kind = "dir"
      BY <1>1, WorldTyped DEF Root
    <2>2. Names(Start(world).id, world.root) /\ Start(world).id \in dirsSeen
      BY <1>1, StartOK DEF SeenOK, JobOK, Told
    <2>3. Done(dirsSeen, {}, world.root)
      BY <2>1, <2>2 DEF Done, Counts
    <2>4. QED BY <1>2, <2>1, <2>3
  <1>4. ASSUME NEW m \in C, Node(m).opens = "ok", NEW i \in 1 .. Len(Node(m).list), Enters(Node(m).list[i])
        PROVE  Node(m).list[i].leads \in C
    <2> DEFINE k == Node(m).list[i].leads
    <2>1. k \in Nodes
      BY <1>1, NodeTyped DEF EntryType, Nodes
    <2>2. Node(m).kind = "dir"
      <3>1. Node(m).kind # "dir" => Node(m).list = <<>>
        BY <1>1, KeepsWorld DEF Keeps, Nodes, Node
      <3>2. QED BY <3>1
    <2>3. PICK d \in sent : d.node = m
      BY <1>4, <2>2
    <2>4. Done(dirsSeen, {}, k)
      BY <1>1, <1>4, <2>3 DEF TakenOK
    <2> HIDE DEF C, k
    <2>5. k \in C
      BY <1>2, <2>1, <2>4
    <2>6. QED BY <2>5 DEF k
  <1>5. Closed(C) /\ C \in SUBSET Nodes
    <2> HIDE DEF C
    <2>1. Closed(C)
      BY <1>4 DEF Closed
    <2>2. QED BY <2>1 DEF C
  <1>6. n \in C
    <2>1. Reached(n) /\ n \in Nodes
      BY <1>1, HeldIs
    <2> HIDE DEF C
    <2>2. QED BY <1>3, <1>5, <2>1 DEF Reached
  <1>7. QED BY <1>6

LEMMA WalkInvTakesOnlyItsOwn == ASSUME WalkInv PROVE TakesOnlyItsOwn
  <1>1. world \in Worlds /\ DirsOK /\ FilesOK
    BY DEF WalkInv
  <1>2. ASSUME NEW d \in sent, NEW c \in sent, d.node = c.node PROVE d = c \/ Again(d, c)
    BY <1>1, <1>2 DEF DirsOK, ApartDirs
  <1>3. \A d, c \in sent : \A f \in d.files, g \in c.files : f.node = g.node =>
          \/ d = c /\ f = g
          \/ Unlinked(world, f.node) /\ (OneWay(world, f.node) => d # c /\ d.node = c.node)
    BY <1>1 DEF FilesOK
  <1>4. \A d \in sent : /\ d.node \in Held
                        /\ \A f \in d.files : f.node \notin Held => MountedOn(f.node)
    BY <1>1, HeldIs DEF DirsOK, FilesOK, KnownOK
  <1>5. QED BY <1>2, <1>3, <1>4 DEF TakesOnlyItsOwn, Again, MountedOn

LEMMA WalkInvWholeVolume == ASSUME WalkInv PROVE WholeVolume
  <1>1. \A d1, d2 \in sent : d1.id = d2.id => d1 = d2
    BY DEF WalkInv, DirsOK, ApartDirs
  <1>2. ASSUME Walked, ~troubled, NEW n \in Held, Counts(n) PROVE \E d \in sent : \E f \in d.files : f.node = n
    BY <1>2, WalkedAll DEF CountedIn
  <1>3. QED BY <1>1, <1>2 DEF WholeVolume, Counts

(* Whatever names, mounts, links and firmlinks lead to it, a walk takes a   *)
(* folder twice only if it was found under a listing's id or no id tells    *)
(* of it, a file only if it has one link or no id tells of it, and nothing  *)
(* that is not its own but a file mounted on another (read_dir, DirSink).   *)
THEOREM WalkTakesOnlyItsOwn == WalkSpec => []TakesOnlyItsOwn
  <1>1. WalkInv => TakesOnlyItsOwn
    BY WalkInvTakesOnlyItsOwn
  <1>2. QED BY WalkInvInit, WalkInvStep, <1>1, PTL DEF WalkSpec

(* A walk that reports no trouble has each file with something in it, of    *)
(* those its lookups come to, and each folder sent has an id of its own     *)
(* (node_id, folder_id, parse_entry).                                       *)
THEOREM WalkTakesWholeVolume == WalkSpec => []WholeVolume
  <1>1. WalkInv => WholeVolume
    BY WalkInvWholeVolume
  <1>2. QED BY WalkInvInit, WalkInvStep, <1>1, PTL DEF WalkSpec

=============================================================================
