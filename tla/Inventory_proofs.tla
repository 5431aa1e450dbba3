-------------------------- MODULE Inventory_proofs --------------------------
(***************************************************************************)
(* Proofs about Inventory, for any number of requests.  A thread's plan is *)
(* the rest of a script; the first part says what the scripts are, one     *)
(* concatenation at a time.  The inductive invariant IInv then relates     *)
(* mutexes, records and list to the line each thread is at.                *)
(***************************************************************************)
EXTENDS Inventory, Integers, TLAPS

(* What ThreadFunc, Thread1 and PrintRequest come to.                      *)
Script(r) ==
  << <<"acquire", r>>, <<"setHolder", r>>,
     <<"acquire", inventory>>, <<"setHolder", inventory>>, <<"insert", r>>,
     <<"clearHolder", inventory>>, <<"release", inventory>>,
     <<"clearHolder", r>>, <<"release", r>>,
     <<"acquire", r>>, <<"setHolder", r>>,
     <<"acquire", inventory>>, <<"setHolder", inventory>>, <<"erase", r>>,
     <<"clearHolder", inventory>>, <<"release", inventory>>,
     <<"clearHolder", r>>, <<"release", r>>,
     <<"free", r>> >>

MainScript(r) ==
  << <<"start", r>>,
     <<"acquire", inventory>>, <<"setHolder", inventory>>, <<"iterate", inventory>>,
     <<"clearHolder", inventory>>, <<"release", inventory>>,
     <<"join", r>> >>

PrintScript(v) ==
  << <<"acquire", v>>, <<"setHolder", v>>, <<"print", v>>, <<"clearHolder", v>>, <<"release", v>> >>

LEMMA TupleIs ==
  ASSUME NEW X, NEW a \in X, NEW b \in X
  PROVE  /\ <<a>> \in Seq(X) /\ Len(<<a>>) = 1 /\ <<a>>[1] = a
         /\ <<a, b>> \in Seq(X) /\ Len(<<a, b>>) = 2 /\ <<a, b>>[1] = a /\ <<a, b>>[2] = b
OBVIOUS

(* What a concatenation consists of, as one fact: the prover relates the   *)
(* length of a concatenation to given numbers only when it does not see    *)
(* the concatenation itself.                                               *)
IsConcat(h, s, t) == /\ h \in Seq(Instructions) /\ Len(h) = Len(s) + Len(t)
                     /\ \A i \in 1 .. Len(s) : h[i] = s[i]
                     /\ \A i \in 1 .. Len(t) : h[Len(s) + i] = t[i]

LEMMA ConcatIs ==
  ASSUME NEW s \in Seq(Instructions), NEW t \in Seq(Instructions)
  PROVE  IsConcat(s \o t, s, t)
BY DEF IsConcat

LEMMA InstructionsAre ==
  ASSUME NEW o \in Mutexes \cup Threads
  PROVE  \A op \in {"acquire", "setHolder", "clearHolder", "release", "insert", "erase", "iterate",
                    "print", "free", "start", "join"} : <<op, o>> \in Instructions
BY DEF Instructions

(* What MutexLockGuard puts around a body, and around one instruction.     *)
IsGuarded(g, m, body) ==
  LET n == Len(body)
  IN /\ g \in Seq(Instructions) /\ Len(g) = n + 4
     /\ g[1] = <<"acquire", m>> /\ g[2] = <<"setHolder", m>>
     /\ \A i \in 1 .. n : g[2 + i] = body[i]
     /\ g[n + 3] = <<"clearHolder", m>> /\ g[n + 4] = <<"release", m>>

IsGuardedOne(g, m, op, o) ==
  /\ g \in Seq(Instructions) /\ Len(g) = 5
  /\ g[1] = <<"acquire", m>> /\ g[2] = <<"setHolder", m>> /\ g[3] = <<op, o>>
  /\ g[4] = <<"clearHolder", m>> /\ g[5] = <<"release", m>>

LEMMA GuardedIs ==
  ASSUME NEW m \in Mutexes, NEW body \in Seq(Instructions)
  PROVE  IsGuarded(Guarded(m, body), m, body)
<1> DEFINE a == Lock(m)
           z == Unlock(m)
           g == (a \o body) \o z
           n == Len(body)
<1>1. /\ a \in Seq(Instructions) /\ z \in Seq(Instructions)
      /\ Len(a) = 2 /\ a[1] = <<"acquire", m>> /\ a[2] = <<"setHolder", m>>
      /\ Len(z) = 2 /\ z[1] = <<"clearHolder", m>> /\ z[2] = <<"release", m>>
  <2>1. /\ <<"acquire", m>> \in Instructions /\ <<"setHolder", m>> \in Instructions
        /\ <<"clearHolder", m>> \in Instructions /\ <<"release", m>> \in Instructions
    BY InstructionsAre
  <2> QED
    BY <2>1, TupleIs DEF Lock, Unlock
<1> HIDE DEF a, z
<1> DEFINE h == a \o body
<1>a. a \in Seq(Instructions) /\ z \in Seq(Instructions)
  BY <1>1
<1>b. IsConcat(h, a, body)
  BY <1>a, ConcatIs
<1> HIDE DEF h
<1>2. /\ h \in Seq(Instructions) /\ Len(h) = n + 2
      /\ \A i \in 1 .. 2 : h[i] = a[i]
      /\ \A i \in 1 .. n : h[2 + i] = body[i]
  BY <1>1, <1>b DEF IsConcat
<1>c. h \in Seq(Instructions)
  BY <1>2
<1>d. IsConcat(g, h, z)
  BY <1>a, <1>c, ConcatIs DEF h
<1> HIDE DEF g
<1>3. /\ g \in Seq(Instructions) /\ Len(g) = n + 4
      /\ \A i \in 1 .. n + 2 : g[i] = h[i]
      /\ \A i \in 1 .. 2 : g[n + 2 + i] = z[i]
  BY <1>1, <1>2, <1>d DEF IsConcat
<1>5. /\ g \in Seq(Instructions) /\ Len(g) = n + 4
      /\ g[1] = a[1] /\ g[2] = a[2]
      /\ \A i \in 1 .. n : g[2 + i] = body[i]
      /\ g[n + 3] = z[1] /\ g[n + 4] = z[2]
  BY <1>2, <1>3
<1>6. g = Guarded(m, body)
  BY DEF Guarded, a, z, g
<1> QED
  BY <1>1, <1>5, <1>6 DEF IsGuarded

LEMMA GuardedOneIs ==
  ASSUME NEW m \in Mutexes, NEW o \in Mutexes \cup Threads, NEW op \in {"insert", "erase", "iterate", "print"}
  PROVE  IsGuardedOne(Guarded(m, << <<op, o>> >>), m, op, o)
<1> DEFINE body == << <<op, o>> >>
           g == Guarded(m, body)
<1>1. body \in Seq(Instructions) /\ Len(body) = 1 /\ body[1] = <<op, o>>
  BY InstructionsAre, TupleIs
<1> HIDE DEF body
<1>2. body \in Seq(Instructions)
  BY <1>1
<1>3. IsGuarded(g, m, body)
  BY <1>2, GuardedIs
<1> HIDE DEF g
<1>4. IsGuardedOne(g, m, op, o)
  BY <1>1, <1>3 DEF IsGuarded, IsGuardedOne
<1> QED
  BY <1>4 DEF g, body

LEMMA PrintIs ==
  ASSUME NEW v \in Requests
  PROVE  /\ PrintRequest(v) \in Seq(Instructions) /\ Len(PrintRequest(v)) = 5
         /\ \A i \in 1 .. 5 : PrintRequest(v)[i] = PrintScript(v)[i]
<1> DEFINE g == PrintRequest(v)
<1>1. IsGuardedOne(g, v, "print", v)
  BY GuardedOneIs DEF PrintRequest, Mutexes
<1> HIDE DEF g
<1>2. g \in Seq(Instructions) /\ Len(g) = 5 /\ \A i \in 1 .. 5 : g[i] = PrintScript(v)[i]
  BY <1>1 DEF IsGuardedOne, PrintScript
<1> QED
  BY <1>2 DEF g

LEMMA MainIs ==
  ASSUME NEW r \in Requests
  PROVE  /\ Thread1(r) \in Seq(Instructions) /\ Len(Thread1(r)) = 7
         /\ \A i \in 1 .. 7 : Thread1(r)[i] = MainScript(r)[i]
<1> DEFINE a == << <<"start", r>> >>
           G == PrintAll
           z == << <<"join", r>> >>
           h == a \o G
           g == h \o z
<1>1. IsGuardedOne(G, inventory, "iterate", inventory)
  BY GuardedOneIs DEF Mutexes, PrintAll
<1>2. /\ a \in Seq(Instructions) /\ z \in Seq(Instructions)
      /\ Len(a) = 1 /\ a[1] = <<"start", r>>
      /\ Len(z) = 1 /\ z[1] = <<"join", r>>
  BY InstructionsAre, TupleIs DEF Mutexes
<1> HIDE DEF a, G, z
<1>3. a \in Seq(Instructions) /\ G \in Seq(Instructions) /\ z \in Seq(Instructions)
  BY <1>1, <1>2 DEF IsGuardedOne
<1>4. IsConcat(h, a, G)
  BY <1>3, ConcatIs
<1> HIDE DEF h
<1>5. h \in Seq(Instructions)
  BY <1>4 DEF IsConcat
<1>6. IsConcat(g, h, z)
  BY <1>3, <1>5, ConcatIs
<1> HIDE DEF g
<1>7. /\ Len(h) = 6 /\ h[1] = a[1]
      /\ h[2] = G[1] /\ h[3] = G[2] /\ h[4] = G[3] /\ h[5] = G[4] /\ h[6] = G[5]
  BY <1>1, <1>2, <1>4 DEF IsConcat, IsGuardedOne
<1>8. /\ g \in Seq(Instructions) /\ Len(g) = 7
      /\ \A i \in 1 .. 6 : g[i] = h[i]
      /\ g[7] = z[1]
  BY <1>2, <1>6, <1>7 DEF IsConcat
<1>9. \A i \in 1 .. 7 : g[i] = MainScript(r)[i]
  <2>1. /\ g[1] = <<"start", r>>
        /\ g[2] = <<"acquire", inventory>> /\ g[3] = <<"setHolder", inventory>>
        /\ g[4] = <<"iterate", inventory>>
        /\ g[5] = <<"clearHolder", inventory>> /\ g[6] = <<"release", inventory>>
        /\ g[7] = <<"join", r>>
    BY <1>1, <1>2, <1>7, <1>8 DEF IsGuardedOne
  <2> QED
    BY <2>1 DEF MainScript
<1>10. g = Thread1(r)
  BY DEF Thread1, a, G, z, h, g
<1> QED
  BY <1>8, <1>9, <1>10

(* process() and the destructor but for the deletion: the two locks.       *)
IsHalf(H, r, op) ==
  /\ H \in Seq(Instructions) /\ Len(H) = 9
  /\ H[1] = <<"acquire", r>> /\ H[2] = <<"setHolder", r>>
  /\ H[3] = <<"acquire", inventory>> /\ H[4] = <<"setHolder", inventory>>
  /\ H[5] = <<op, r>>
  /\ H[6] = <<"clearHolder", inventory>> /\ H[7] = <<"release", inventory>>
  /\ H[8] = <<"clearHolder", r>> /\ H[9] = <<"release", r>>

LEMMA HalfIs ==
  ASSUME NEW r \in Requests, NEW op \in {"insert", "erase"}
  PROVE  IsHalf(Guarded(r, Guarded(inventory, << <<op, r>> >>)), r, op)
<1> DEFINE G == Guarded(inventory, << <<op, r>> >>)
           H == Guarded(r, G)
<1>1. IsGuardedOne(G, inventory, op, r)
  BY GuardedOneIs DEF Mutexes
<1> HIDE DEF G
<1>2. G \in Seq(Instructions) /\ r \in Mutexes
  BY <1>1 DEF IsGuardedOne, Mutexes
<1>3. IsGuarded(H, r, G)
  BY <1>2, GuardedIs
<1> HIDE DEF H
<1>4. /\ Len(H) = 9
      /\ H[3] = G[1] /\ H[4] = G[2] /\ H[5] = G[3] /\ H[6] = G[4] /\ H[7] = G[5]
  BY <1>1, <1>3 DEF IsGuarded, IsGuardedOne
<1>5. IsHalf(H, r, op)
  BY <1>1, <1>3, <1>4 DEF IsGuarded, IsGuardedOne, IsHalf
<1> QED
  BY <1>5 DEF H, G

LEMMA ScriptIs ==
  ASSUME NEW r \in Requests
  PROVE  /\ ThreadFunc(r) \in Seq(Instructions) /\ Len(ThreadFunc(r)) = 19
         /\ \A i \in 1 .. 19 : ThreadFunc(r)[i] = Script(r)[i]
<1> DEFINE P == Guarded(r, Guarded(inventory, << <<"insert", r>> >>))
           D == Guarded(r, Guarded(inventory, << <<"erase", r>> >>))
           f == << <<"free", r>> >>
           h == D \o f
           g == P \o h
<1>1. IsHalf(P, r, "insert") /\ IsHalf(D, r, "erase")
  BY HalfIs
<1>2. f \in Seq(Instructions) /\ Len(f) = 1 /\ f[1] = <<"free", r>>
  BY InstructionsAre, TupleIs DEF Mutexes
<1> HIDE DEF P, D, f
<1>3. P \in Seq(Instructions) /\ D \in Seq(Instructions) /\ f \in Seq(Instructions)
  BY <1>1, <1>2 DEF IsHalf
<1>4. IsConcat(h, D, f)
  BY <1>3, ConcatIs
<1> HIDE DEF h
<1>5. h \in Seq(Instructions)
  BY <1>4 DEF IsConcat
<1>6. IsConcat(g, P, h)
  BY <1>3, <1>5, ConcatIs
<1> HIDE DEF g
<1>7. /\ Len(h) = 10 /\ h[10] = f[1]
      /\ \A i \in 1 .. 9 : h[i] = D[i]
  BY <1>1, <1>2, <1>4 DEF IsConcat, IsHalf
<1>8. /\ g \in Seq(Instructions) /\ Len(g) = 19
      /\ \A i \in 1 .. 9 : g[i] = P[i]
      /\ \A i \in 1 .. 10 : g[9 + i] = h[i]
  BY <1>1, <1>6, <1>7 DEF IsConcat, IsHalf
<1>9. /\ g[10] = D[1] /\ g[11] = D[2] /\ g[12] = D[3] /\ g[13] = D[4] /\ g[14] = D[5]
      /\ g[15] = D[6] /\ g[16] = D[7] /\ g[17] = D[8] /\ g[18] = D[9] /\ g[19] = f[1]
  BY <1>7, <1>8
<1>10. \A i \in 1 .. 19 : g[i] = Script(r)[i]
  <2>1. /\ g[1] = P[1] /\ g[2] = P[2] /\ g[3] = P[3] /\ g[4] = P[4] /\ g[5] = P[5]
        /\ g[6] = P[6] /\ g[7] = P[7] /\ g[8] = P[8] /\ g[9] = P[9]
    BY <1>8
  <2>2. /\ g[1] = <<"acquire", r>> /\ g[2] = <<"setHolder", r>>
        /\ g[3] = <<"acquire", inventory>> /\ g[4] = <<"setHolder", inventory>>
        /\ g[5] = <<"insert", r>>
        /\ g[6] = <<"clearHolder", inventory>> /\ g[7] = <<"release", inventory>>
        /\ g[8] = <<"clearHolder", r>> /\ g[9] = <<"release", r>>
    BY <1>1, <2>1 DEF IsHalf
  <2>3. /\ g[10] = <<"acquire", r>> /\ g[11] = <<"setHolder", r>>
        /\ g[12] = <<"acquire", inventory>> /\ g[13] = <<"setHolder", inventory>>
        /\ g[14] = <<"erase", r>>
        /\ g[15] = <<"clearHolder", inventory>> /\ g[16] = <<"release", inventory>>
        /\ g[17] = <<"clearHolder", r>> /\ g[18] = <<"release", r>>
        /\ g[19] = <<"free", r>>
    BY <1>1, <1>2, <1>9 DEF IsHalf
  <2>4. /\ g[1] = Script(r)[1] /\ g[2] = Script(r)[2] /\ g[3] = Script(r)[3] /\ g[4] = Script(r)[4]
        /\ g[5] = Script(r)[5] /\ g[6] = Script(r)[6] /\ g[7] = Script(r)[7]
        /\ g[8] = Script(r)[8] /\ g[9] = Script(r)[9]
    BY <2>2 DEF Script
  <2>5. /\ g[10] = Script(r)[10] /\ g[11] = Script(r)[11] /\ g[12] = Script(r)[12] /\ g[13] = Script(r)[13]
        /\ g[14] = Script(r)[14] /\ g[15] = Script(r)[15] /\ g[16] = Script(r)[16]
        /\ g[17] = Script(r)[17] /\ g[18] = Script(r)[18] /\ g[19] = Script(r)[19]
    BY <2>3 DEF Script
  <2> QED
    BY <2>4, <2>5
<1>11. g = ThreadFunc(r)
  BY DEF ThreadFunc, Process, Destructor, InventoryAdd, InventoryRemove, P, D, f, h, g
<1> QED
  BY <1>8, <1>10, <1>11

----------------------------------------------------------------------------
(* The line of its script a request's thread is at; 20 when it has ended,  *)
(* or was not started.                                                     *)
Line(r) == 20 - Len(plan[r])

OnScript(r) == /\ Line(r) \in 1 .. 20
               /\ \A i \in 1 .. Len(plan[r]) : plan[r][i] = Script(r)[Line(r) - 1 + i]

Owns(r, m) == \/ m = r /\ Line(r) \in (2 .. 9) \cup (11 .. 18)
              \/ m = inventory /\ Line(r) \in (4 .. 7) \cup (13 .. 16)
Recorded(r, m) == \/ m = r /\ Line(r) \in (3 .. 8) \cup (12 .. 17)
                  \/ m = inventory /\ Line(r) \in (5 .. 6) \cup (14 .. 15)
LocksOK(r) == \A m \in Mutexes : /\ (mutex_[m] = r) <=> Owns(r, m)
                                 /\ (holder_[m] = r) <=> Recorded(r, m)

LifeOK(r) == /\ (r \in requests_) <=> (Line(r) \in 6 .. 14)
             /\ r \notin begun => Line(r) = 20
             /\ r \in freed => Line(r) = 20

RequestOK(r) == OnScript(r) /\ LocksOK(r) /\ LifeOK(r)

(* The lines of main(): those of MainScript, 8 when it is between two      *)
(* calls, and those of print(), which the rest of MainScript follows.      *)
MainLines == (1 .. 8) \cup (21 .. 25)
MainCode(r, v) ==
  [i \in 1 .. 29 |-> CASE i \in 21 .. 25 -> PrintScript(v)[i - 20]
                       [] i \in 26 .. 29 -> MainScript(r)[i - 22]
                       [] i \in 1 .. 7 -> MainScript(r)[i]
                       [] OTHER -> MainScript(r)[1]]
LastLine(k) == IF k \in 21 .. 25 THEN 30 ELSE 8
LineAfter(k) == IF k = 25 THEN 4 ELSE k + 1

MainOnScript(k, r, v) ==
  /\ k \in MainLines
  /\ Len(plan[main]) = LastLine(k) - k
  /\ \A i \in 1 .. Len(plan[main]) : plan[main][i] = MainCode(r, v)[k - 1 + i]

MainOwns(k, v, m) == \/ m = inventory /\ k \in (3 .. 6) \cup (21 .. 25)
                     \/ m = v /\ k \in 22 .. 25
MainRecorded(k, v, m) == \/ m = inventory /\ k \in (4 .. 5) \cup (21 .. 25)
                         \/ m = v /\ k \in 23 .. 24
MainLocksOK(k, v) == \A m \in Mutexes : /\ (mutex_[m] = main) <=> MainOwns(k, v, m)
                                        /\ (holder_[m] = main) <=> MainRecorded(k, v, m)

MainLifeOK(k, r, v) == /\ k # 8 => r \in begun
                       /\ k = 1 => plan[r] = <<>> /\ r \notin freed
                       /\ k \in 21 .. 25 => v \in requests_

MainOK(k, r, v) == MainOnScript(k, r, v) /\ MainLocksOK(k, v) /\ MainLifeOK(k, r, v)

Typed == /\ mutex_ \in [Mutexes -> Threads \cup {Nobody}]
         /\ holder_ \in [Mutexes -> Threads \cup {Nobody}]
         /\ plan \in [Threads -> Seq(Instructions)]
         /\ begun \subseteq Requests
         /\ requests_ \subseteq Requests
         /\ visited \subseteq Requests
         /\ freed \subseteq begun

IInv == /\ Typed
        /\ \A r \in Requests : RequestOK(r)
        /\ \E k \in MainLines, r \in Mutexes, v \in Mutexes : MainOK(k, r, v)

LEMMA ScriptAt ==
  ASSUME NEW r, NEW i \in 1 .. 19
  PROVE  /\ (Script(r)[i][1] = "acquire") <=> (i \in {1, 3, 10, 12})
         /\ (Script(r)[i][1] = "setHolder") <=> (i \in {2, 4, 11, 13})
         /\ (Script(r)[i][1] = "clearHolder") <=> (i \in {6, 8, 15, 17})
         /\ (Script(r)[i][1] = "release") <=> (i \in {7, 9, 16, 18})
         /\ (Script(r)[i][1] = "insert") <=> (i = 5)
         /\ (Script(r)[i][1] = "erase") <=> (i = 14)
         /\ (Script(r)[i][1] = "free") <=> (i = 19)
         /\ Script(r)[i][1] \notin {"iterate", "print", "start", "join"}
         /\ Script(r)[i][2] = IF i \in {3, 4, 6, 7, 12, 13, 15, 16} THEN inventory ELSE r
BY DEF Script

IsCode(c, r, v) == /\ \A i \in 1 .. 4 : c[3 + i] = MainScript(r)[3 + i]
                   /\ \A i \in 1 .. 5 : c[20 + i] = PrintScript(v)[i]
                   /\ \A i \in 1 .. 4 : c[25 + i] = MainScript(r)[3 + i]

LEMMA CodeIs ==
  ASSUME NEW r, NEW v
  PROVE  IsCode(MainCode(r, v), r, v)
<1>1. ASSUME NEW i \in 1 .. 4
      PROVE  /\ MainCode(r, v)[3 + i] = MainScript(r)[3 + i]
             /\ MainCode(r, v)[25 + i] = MainScript(r)[3 + i]
  <2>1. 3 + i \in 1 .. 7 /\ 25 + i \in 26 .. 29 /\ (25 + i) - 22 = 3 + i
    OBVIOUS
  <2> QED
    BY <2>1 DEF MainCode
<1>2. ASSUME NEW i \in 1 .. 5
      PROVE  MainCode(r, v)[20 + i] = PrintScript(v)[i]
  <2>1. 20 + i \in 21 .. 25 /\ (20 + i) - 20 = i
    OBVIOUS
  <2> QED
    BY <2>1 DEF MainCode
<1> QED
  BY <1>1, <1>2 DEF IsCode

(* What main() does at a line: x is the instruction there.                 *)
MainDoes(x, k, r, v) ==
  /\ (x[1] = "acquire") <=> (k \in {2, 21})
  /\ (x[1] = "setHolder") <=> (k \in {3, 22})
  /\ (x[1] = "clearHolder") <=> (k \in {5, 24})
  /\ (x[1] = "release") <=> (k \in {6, 25})
  /\ (x[1] = "iterate") <=> (k = 4)
  /\ (x[1] = "print") <=> (k = 23)
  /\ (x[1] = "start") <=> (k = 1)
  /\ (x[1] = "join") <=> (k = 7)
  /\ x[1] \notin {"insert", "erase", "free"}
  /\ x[2] = IF k \in {1, 7} THEN r ELSE IF k \in 21 .. 25 THEN v ELSE inventory

LEMMA MainCodeAt ==
  ASSUME NEW r, NEW v, NEW k \in MainLines, k # 8
  PROVE  MainDoes(MainCode(r, v)[k], k, r, v)
<1> USE DEF MainDoes
<1>1. ASSUME NEW i \in 1 .. 7
      PROVE  /\ (MainScript(r)[i][1] = "acquire") <=> (i = 2)
             /\ (MainScript(r)[i][1] = "setHolder") <=> (i = 3)
             /\ (MainScript(r)[i][1] = "clearHolder") <=> (i = 5)
             /\ (MainScript(r)[i][1] = "release") <=> (i = 6)
             /\ (MainScript(r)[i][1] = "iterate") <=> (i = 4)
             /\ (MainScript(r)[i][1] = "start") <=> (i = 1)
             /\ (MainScript(r)[i][1] = "join") <=> (i = 7)
             /\ MainScript(r)[i][1] \notin {"insert", "erase", "free", "print"}
             /\ MainScript(r)[i][2] = IF i \in {1, 7} THEN r ELSE inventory
  BY DEF MainScript
<1>2. ASSUME NEW i \in 1 .. 5
      PROVE  /\ (PrintScript(v)[i][1] = "acquire") <=> (i = 1)
             /\ (PrintScript(v)[i][1] = "setHolder") <=> (i = 2)
             /\ (PrintScript(v)[i][1] = "print") <=> (i = 3)
             /\ (PrintScript(v)[i][1] = "clearHolder") <=> (i = 4)
             /\ (PrintScript(v)[i][1] = "release") <=> (i = 5)
             /\ PrintScript(v)[i][1] \notin {"insert", "erase", "free", "iterate", "start", "join"}
             /\ PrintScript(v)[i][2] = v
  BY DEF PrintScript
<1>3. CASE k \in 1 .. 7
  <2>1. MainCode(r, v)[k] = MainScript(r)[k]
    BY <1>3 DEF MainCode
  <2> QED
    BY <1>1, <1>3, <2>1
<1>4. CASE k \in 21 .. 25
  <2>1. MainCode(r, v)[k] = PrintScript(v)[k - 20] /\ k - 20 \in 1 .. 5
    BY <1>4 DEF MainCode
  <2> QED
    BY <1>2, <1>4, <2>1
<1> QED
  BY <1>3, <1>4 DEF MainLines

----------------------------------------------------------------------------
LEMMA TailIs ==
  ASSUME NEW s \in Seq(Instructions), s # <<>>
  PROVE  /\ Tail(s) \in Seq(Instructions) /\ Len(s) \in Nat \ {0}
         /\ Len(Tail(s)) = Len(s) - 1 /\ Head(s) = s[1]
         /\ \A i \in 1 .. Len(s) - 1 : Tail(s)[i] = s[i + 1]
OBVIOUS

LEMMA RequestAt ==
  ASSUME Typed, NEW r \in Requests, OnScript(r), plan[r] # <<>>
  PROVE  Line(r) \in 1 .. 19 /\ Head(plan[r]) = Script(r)[Line(r)]
<1>1. plan[r] \in Seq(Instructions)
  BY DEF Typed, Threads
<1>2. Len(plan[r]) \in Nat \ {0} /\ Head(plan[r]) = plan[r][1]
  BY <1>1, TailIs
<1>3. Line(r) \in 1 .. 19 /\ plan[r][1] = Script(r)[Line(r) - 1 + 1]
  <2>1. /\ Line(r) \in 1 .. 20
        /\ \A i \in 1 .. Len(plan[r]) : plan[r][i] = Script(r)[Line(r) - 1 + i]
    BY DEF OnScript
  <2>2. Line(r) + Len(plan[r]) = 20
    BY <1>2 DEF Line
  <2>3. 1 \in 1 .. Len(plan[r])
    BY <1>2
  <2>4. Line(r) \in 1 .. 19
    <3> DEFINE n == Len(plan[r])
    <3>1. n \in Nat \ {0} /\ Line(r) + n = 20 /\ Line(r) \in 1 .. 20
      BY <1>2, <2>1, <2>2
    <3> HIDE DEF n
    <3> QED
      BY <3>1
  <2> QED
    BY <2>1, <2>3, <2>4
<1>4. Line(r) - 1 + 1 = Line(r)
  BY <1>3
<1> QED
  BY <1>2, <1>3, <1>4

LEMMA RequestAdvances ==
  ASSUME Typed, NEW r \in Requests, OnScript(r), plan[r] # <<>>, Advance(r)
  PROVE  /\ plan' \in [Threads -> Seq(Instructions)]
         /\ \A t \in Threads \ {r} : plan'[t] = plan[t]
         /\ Line(r)' = Line(r) + 1 /\ OnScript(r)'
<1> DEFINE s == plan[r]
           w == Tail(s)
<1>1. s \in Seq(Instructions) /\ r \in Threads
  BY DEF Typed, Threads
<1>2. /\ w \in Seq(Instructions) /\ Len(s) \in Nat \ {0}
      /\ Len(w) = Len(s) - 1
      /\ \A i \in 1 .. Len(s) - 1 : w[i] = s[i + 1]
  BY <1>1, TailIs
<1>3. plan' = [plan EXCEPT ![r] = w]
  BY DEF Advance
<1>4. OnScript(r)
  OBVIOUS
<1> HIDE DEF w
<1>5. plan'[r] = w /\ plan' \in [Threads -> Seq(Instructions)]
  BY <1>1, <1>2, <1>3 DEF Typed
<1>6. \A t \in Threads \ {r} : plan'[t] = plan[t]
  BY <1>3 DEF Typed
<1>7. Line(r)' = Line(r) + 1
  BY <1>2, <1>5 DEF Line
<1>8. Line(r) \in 1 .. 19 /\ Line(r) + 1 \in 1 .. 20
  BY RequestAt
<1>9. OnScript(r)'
  <2>1. ASSUME NEW i \in 1 .. Len(w) PROVE w[i] = Script(r)[(Line(r) + 1) - 1 + i]
    <3>1. i \in 1 .. Len(s) - 1 /\ i + 1 \in 1 .. Len(s)
      BY <1>2
    <3>2. Line(r) - 1 + (i + 1) = (Line(r) + 1) - 1 + i
      <4>1. Line(r) \in Int
        BY <1>8
      <4>2. i \in Int
        BY <1>2, <3>1
      <4> HIDE DEF w
      <4> QED
        BY ONLY <4>1, <4>2
    <3>3. s[i + 1] = Script(r)[Line(r) - 1 + (i + 1)]
      BY <1>4, <3>1 DEF OnScript
    <3> QED
      BY <1>2, <3>1, <3>2, <3>3
  <2> QED
    BY <1>5, <1>7, <1>8, <2>1 DEF OnScript
<1> QED
  BY <1>5, <1>6, <1>7, <1>9

LEMMA MainAt ==
  ASSUME Typed, NEW k, NEW r, NEW v, MainOnScript(k, r, v), plan[main] # <<>>
  PROVE  k \in MainLines /\ k # 8 /\ Head(plan[main]) = MainCode(r, v)[k]
<1>1. plan[main] \in Seq(Instructions)
  BY DEF Typed, Threads
<1>2. Len(plan[main]) \in Nat \ {0} /\ Head(plan[main]) = plan[main][1]
  BY <1>1, TailIs
<1>3. k \in MainLines /\ k # 8
  BY <1>2 DEF MainOnScript, LastLine
<1>4. k \in Nat
  BY <1>3 DEF MainLines
<1>5. plan[main][1] = MainCode(r, v)[k - 1 + 1]
  BY <1>2 DEF MainOnScript
<1> QED
  BY <1>2, <1>3, <1>4, <1>5

(* Where the script of main() goes on after a step that is not a call.     *)
LEMMA CodeAfter ==
  ASSUME NEW r, NEW v, NEW k \in MainLines, k # 8
  PROVE  /\ LineAfter(k) \in MainLines
         /\ LastLine(LineAfter(k)) - LineAfter(k) = LastLine(k) - (k + 1)
         /\ \A i \in 1 .. LastLine(k) - (k + 1) :
              MainCode(r, v)[k + i] = MainCode(r, v)[LineAfter(k) - 1 + i]
<1>1. CASE k \in 1 .. 7
  BY <1>1 DEF MainLines, LastLine, LineAfter
<1>2. CASE k \in 21 .. 24
  BY <1>2 DEF MainLines, LastLine, LineAfter
<1>3. CASE k = 25
  <2>1. LineAfter(k) = 4 /\ LastLine(4) = 8 /\ LastLine(k) = 30
    BY <1>3 DEF LastLine, LineAfter
  <2>2. \A i \in 1 .. 4 : MainCode(r, v)[25 + i] = MainCode(r, v)[4 - 1 + i]
    BY DEF MainCode
  <2> QED
    BY <1>3, <2>1, <2>2 DEF MainLines
<1> QED
  BY <1>1, <1>2, <1>3 DEF MainLines

LEMMA MainGoesOn ==
  ASSUME Typed, NEW k, NEW r, NEW v, MainOnScript(k, r, v), plan[main] # <<>>,
         plan'[main] = Tail(plan[main])
  PROVE  MainOnScript(LineAfter(k), r, v)'
<1> DEFINE s == plan[main]
           w == Tail(s)
<1>1. s \in Seq(Instructions)
  BY DEF Typed, Threads
<1>2. /\ w \in Seq(Instructions) /\ Len(s) \in Nat \ {0}
      /\ Len(w) = Len(s) - 1
      /\ \A i \in 1 .. Len(s) - 1 : w[i] = s[i + 1]
  BY <1>1, TailIs
<1>3. plan'[main] = w
  OBVIOUS
<1>4. /\ k \in MainLines /\ k # 8 /\ k \in Nat
      /\ Len(s) = LastLine(k) - k
      /\ \A i \in 1 .. Len(s) : s[i] = MainCode(r, v)[k - 1 + i]
  <2>1. k \in MainLines /\ k # 8
    BY MainAt
  <2>2. k \in Nat
    BY <2>1 DEF MainLines
  <2> QED
    BY <2>1, <2>2 DEF MainOnScript
<1>5. LastLine(k) \in Nat
  BY DEF LastLine
<1> HIDE DEF w, s
<1>6. /\ Len(w) = LastLine(k) - (k + 1)
      /\ \A i \in 1 .. Len(w) : w[i] = MainCode(r, v)[k + i]
  <2>1. Len(w) = LastLine(k) - (k + 1)
    BY <1>2, <1>4, <1>5
  <2>2. ASSUME NEW i \in 1 .. Len(w) PROVE w[i] = MainCode(r, v)[k + i]
    <3>1. i \in 1 .. Len(s) - 1 /\ i + 1 \in 1 .. Len(s) /\ k - 1 + (i + 1) = k + i
      BY <1>2, <1>4
    <3> QED
      BY <1>2, <1>4, <3>1
  <2> QED
    BY <2>1, <2>2
<1> DEFINE l == LineAfter(k)
<1>7. /\ l \in MainLines
      /\ LastLine(l) - l = LastLine(k) - (k + 1)
      /\ \A i \in 1 .. LastLine(k) - (k + 1) : MainCode(r, v)[k + i] = MainCode(r, v)[l - 1 + i]
  BY <1>4, CodeAfter
<1> HIDE DEF l
<1>8. Len(w) = LastLine(l) - l /\ \A i \in 1 .. Len(w) : w[i] = MainCode(r, v)[l - 1 + i]
  BY <1>6, <1>7
<1>9. MainOnScript(l, r, v)'
  BY <1>3, <1>7, <1>8 DEF MainOnScript
<1> QED
  BY <1>9 DEF l

(* What a thread's step leaves to the others.                              *)
Frame(t) == \A u \in Threads \ {t} : \A m \in Mutexes :
              /\ (mutex_'[m] = u) <=> (mutex_[m] = u)
              /\ (holder_'[m] = u) <=> (holder_[m] = u)

LEMMA OtherRequest ==
  ASSUME NEW u \in Requests, RequestOK(u), plan'[u] = plan[u],
         \A m \in Mutexes : /\ (mutex_'[m] = u) <=> (mutex_[m] = u)
                            /\ (holder_'[m] = u) <=> (holder_[m] = u),
         (u \in requests_') <=> (u \in requests_),
         u \in begun => u \in begun',
         u \in freed' => u \in freed
  PROVE  RequestOK(u)'
<1>1. Line(u)' = Line(u)
  BY DEF Line
<1>2. OnScript(u)'
  BY <1>1 DEF RequestOK, OnScript
<1>3. LocksOK(u)'
  BY <1>1 DEF RequestOK, LocksOK, Owns, Recorded
<1>4. LifeOK(u)'
  BY <1>1 DEF RequestOK, LifeOK
<1> QED
  BY <1>2, <1>3, <1>4 DEF RequestOK

LEMMA MainUntouched ==
  ASSUME NEW k, NEW r, NEW v, MainOK(k, r, v), plan'[main] = plan[main],
         \A m \in Mutexes : /\ (mutex_'[m] = main) <=> (mutex_[m] = main)
                            /\ (holder_'[m] = main) <=> (holder_[m] = main),
         k # 8 => r \in begun',
         k = 1 => plan'[r] = <<>> /\ r \notin freed',
         k \in 21 .. 25 => v \in requests_'
  PROVE  MainOK(k, r, v)'
<1>1. MainOnScript(k, r, v)'
  BY DEF MainOK, MainOnScript
<1>2. MainLocksOK(k, v)'
  BY DEF MainOK, MainLocksOK
<1>3. MainLifeOK(k, r, v)'
  BY DEF MainLifeOK
<1> QED
  BY <1>1, <1>2, <1>3 DEF MainOK

LEMMA RecordsAreOwners ==
  ASSUME IInv, NEW m \in Mutexes
  PROVE  holder_[m] \in {Nobody, mutex_[m]}
<1>1. SUFFICES ASSUME NEW t \in Threads, holder_[m] = t
               PROVE  mutex_[m] = t
  BY DEF IInv, Typed
<1>2. CASE t \in Requests
  <2>1. RequestOK(t)
    BY <1>2 DEF IInv
  <2> QED
    BY <1>1, <2>1 DEF RequestOK, LocksOK, Owns, Recorded
<1>3. CASE t = main
  <2>1. PICK k \in MainLines, r \in Mutexes, v \in Mutexes : MainOK(k, r, v)
    BY DEF IInv
  <2> QED
    BY <1>1, <1>3, <2>1 DEF MainOK, MainLocksOK, MainOwns, MainRecorded
<1> QED
  BY <1>2, <1>3 DEF Threads

(* One of the four steps of lock() and unlock(), by a thread that may take *)
(* it.                                                                     *)
LEMMA LockSteps ==
  ASSUME IInv, NEW t \in Threads, NEW m \in Mutexes,
         \/ Acquire(t, m)
         \/ mutex_[m] = t /\ (SetHolder(t, m) \/ ClearHolder(m) \/ Release(m))
  PROVE  /\ Frame(t)
         /\ mutex_' \in [Mutexes -> Threads \cup {Nobody}]
         /\ holder_' \in [Mutexes -> Threads \cup {Nobody}]
         /\ \A x \in Mutexes \ {m} : mutex_'[x] = mutex_[x] /\ holder_'[x] = holder_[x]
         /\ Acquire(t, m) => mutex_'[m] = t /\ holder_'[m] = holder_[m]
         /\ SetHolder(t, m) => mutex_'[m] = mutex_[m] /\ holder_'[m] = t
         /\ ClearHolder(m) => mutex_'[m] = mutex_[m] /\ holder_'[m] # t
         /\ Release(m) => mutex_'[m] # t /\ holder_'[m] = holder_[m]
<1>1. Typed /\ Nobody \notin Threads
  BY NamesAssumption DEF IInv, Threads
<1>2. holder_[m] \in {Nobody, mutex_[m]}
  BY RecordsAreOwners
<1>3. CASE Acquire(t, m)
  BY <1>1, <1>3 DEF Frame, Typed, Acquire, SetHolder, ClearHolder, Release
<1>4. CASE mutex_[m] = t /\ SetHolder(t, m)
  BY <1>1, <1>2, <1>4 DEF Frame, Typed, Acquire, SetHolder, ClearHolder, Release
<1>5. CASE mutex_[m] = t /\ ClearHolder(m)
  BY <1>1, <1>2, <1>5 DEF Frame, Typed, Acquire, SetHolder, ClearHolder, Release
<1>6. CASE mutex_[m] = t /\ Release(m)
  BY <1>1, <1>2, <1>6 DEF Frame, Typed, Acquire, SetHolder, ClearHolder, Release
<1> QED
  BY <1>3, <1>4, <1>5, <1>6

(* A request's thread at its line.                                         *)
LEMMA RequestInstruction ==
  ASSUME IInv, NEW r \in Requests, plan[r] # <<>>
  PROVE  /\ Typed /\ RequestOK(r) /\ r \in Mutexes /\ r \in Threads /\ r # inventory /\ r # main
         /\ Line(r) \in 1 .. 19
         /\ \A op : At(r, op) <=> Script(r)[Line(r)][1] = op
         /\ Object(r) = IF Line(r) \in {3, 4, 6, 7, 12, 13, 15, 16} THEN inventory ELSE r
<1>1. /\ Typed /\ RequestOK(r) /\ r \in Mutexes /\ r \in Threads /\ r # inventory /\ r # main
  BY NamesAssumption DEF IInv, Mutexes, Threads
<1>2. Line(r) \in 1 .. 19 /\ Head(plan[r]) = Script(r)[Line(r)]
  BY <1>1, RequestAt DEF RequestOK
<1>3. Script(r)[Line(r)][2] = IF Line(r) \in {3, 4, 6, 7, 12, 13, 15, 16} THEN inventory ELSE r
  BY <1>2, ScriptAt
<1> QED
  BY <1>1, <1>2, <1>3 DEF At, Object

LEMMA RequestLockStep ==
  ASSUME IInv, NEW r \in Requests, Locks(r) \/ Unlocks(r)
  PROVE  IInv'
<1> DEFINE p == Line(r)
           m == Object(r)
<1>1. plan[r] # <<>> /\ Advance(r) /\ UNCHANGED <<begun, requests_, visited, freed>>
  BY DEF Locks, Unlocks, At, listVars
<1>2. /\ Typed /\ RequestOK(r) /\ r \in Mutexes /\ r \in Threads /\ r # inventory /\ r # main
      /\ p \in 1 .. 19
      /\ \A op : At(r, op) <=> Script(r)[p][1] = op
      /\ m = IF p \in {3, 4, 6, 7, 12, 13, 15, 16} THEN inventory ELSE r
  BY <1>1, RequestInstruction
<1>3. /\ plan' \in [Threads -> Seq(Instructions)]
      /\ \A t \in Threads \ {r} : plan'[t] = plan[t]
      /\ Line(r)' = p + 1 /\ OnScript(r)'
  BY <1>1, <1>2, RequestAdvances DEF RequestOK
<1> HIDE DEF p, m
<1>4. m \in Mutexes
  BY <1>2 DEF Mutexes
<1>5. \/ p \in {1, 3, 10, 12} /\ Acquire(r, m)
      \/ p \in {2, 4, 11, 13} /\ SetHolder(r, m)
      \/ p \in {6, 8, 15, 17} /\ ClearHolder(m)
      \/ p \in {7, 9, 16, 18} /\ Release(m)
  BY <1>2, ScriptAt DEF Locks, Unlocks, m
<1>6. p \in {2, 4, 6, 7, 8, 9, 11, 13, 15, 16, 17, 18} => mutex_[m] = r
  BY <1>2, <1>4 DEF RequestOK, LocksOK, Owns, p
<1>7. \/ Acquire(r, m)
      \/ mutex_[m] = r /\ (SetHolder(r, m) \/ ClearHolder(m) \/ Release(m))
  BY <1>5, <1>6
<1>8. /\ Frame(r)
      /\ mutex_' \in [Mutexes -> Threads \cup {Nobody}]
      /\ holder_' \in [Mutexes -> Threads \cup {Nobody}]
      /\ \A x \in Mutexes \ {m} : mutex_'[x] = mutex_[x] /\ holder_'[x] = holder_[x]
      /\ Acquire(r, m) => mutex_'[m] = r /\ holder_'[m] = holder_[m]
      /\ SetHolder(r, m) => mutex_'[m] = mutex_[m] /\ holder_'[m] = r
      /\ ClearHolder(m) => mutex_'[m] = mutex_[m] /\ holder_'[m] # r
      /\ Release(m) => mutex_'[m] # r /\ holder_'[m] = holder_[m]
  BY <1>2, <1>4, <1>7, LockSteps
<1>9. RequestOK(r)'
  <2>1. LocksOK(r)'
    <3> SUFFICES ASSUME NEW x \in Mutexes
                 PROVE  /\ (mutex_'[x] = r) <=> Owns(r, x)'
                        /\ (holder_'[x] = r) <=> Recorded(r, x)'
      BY DEF LocksOK
    <3>1. /\ (mutex_[x] = r) <=> Owns(r, x)
          /\ (holder_[x] = r) <=> Recorded(r, x)
      BY <1>2 DEF RequestOK, LocksOK
    <3>2. /\ Owns(r, x) <=> \/ x = r /\ p \in (2 .. 9) \cup (11 .. 18)
                            \/ x = inventory /\ p \in (4 .. 7) \cup (13 .. 16)
          /\ Recorded(r, x) <=> \/ x = r /\ p \in (3 .. 8) \cup (12 .. 17)
                                \/ x = inventory /\ p \in (5 .. 6) \cup (14 .. 15)
          /\ Owns(r, x)' <=> \/ x = r /\ p + 1 \in (2 .. 9) \cup (11 .. 18)
                             \/ x = inventory /\ p + 1 \in (4 .. 7) \cup (13 .. 16)
          /\ Recorded(r, x)' <=> \/ x = r /\ p + 1 \in (3 .. 8) \cup (12 .. 17)
                                 \/ x = inventory /\ p + 1 \in (5 .. 6) \cup (14 .. 15)
      BY <1>3 DEF Owns, Recorded, p
    <3>3. CASE p \in {1, 3, 10, 12} /\ Acquire(r, m)
      BY <1>2, <1>8, <3>1, <3>2, <3>3
    <3>4. CASE p \in {2, 4, 11, 13} /\ SetHolder(r, m)
      BY <1>2, <1>8, <3>1, <3>2, <3>4
    <3>5. CASE p \in {6, 8, 15, 17} /\ ClearHolder(m)
      BY <1>2, <1>8, <3>1, <3>2, <3>5
    <3>6. CASE p \in {7, 9, 16, 18} /\ Release(m)
      BY <1>2, <1>8, <3>1, <3>2, <3>6
    <3> QED
      BY <1>5, <3>3, <3>4, <3>5, <3>6
  <2>2. LifeOK(r)'
    <3>1. p \notin {5, 14, 19}
      BY <1>5
    <3>2. /\ (r \in requests_) <=> (p \in 6 .. 14)
          /\ r \notin begun => p = 20
          /\ r \in freed => p = 20
      BY <1>2 DEF RequestOK, LifeOK, p
    <3>3. (p \in 6 .. 14) <=> (p + 1 \in 6 .. 14)
      BY <1>2, <3>1
    <3>4. r \in begun /\ r \notin freed
      BY <1>2, <3>2
    <3> QED
      BY <1>1, <1>3, <3>2, <3>3, <3>4 DEF LifeOK
  <2> QED
    BY <1>3, <2>1, <2>2 DEF RequestOK
<1>10. \A u \in Requests : RequestOK(u)'
  <2> SUFFICES ASSUME NEW u \in Requests, u # r PROVE RequestOK(u)'
    BY <1>9
  <2>1. RequestOK(u) /\ u \in Threads \ {r}
    BY DEF IInv, Threads
  <2> QED
    BY <1>1, <1>3, <1>8, <2>1, OtherRequest DEF Frame
<1>11. \E k \in MainLines, q \in Mutexes, v \in Mutexes : MainOK(k, q, v)'
  <2>1. PICK k \in MainLines, q \in Mutexes, v \in Mutexes : MainOK(k, q, v)
    BY DEF IInv
  <2>2. /\ k # 8 => q \in begun
        /\ k = 1 => plan[q] = <<>> /\ q \notin freed
        /\ k \in 21 .. 25 => v \in requests_
    BY <2>1 DEF MainOK, MainLifeOK
  <2>3. main \in Threads \ {r}
    BY <1>2 DEF Threads
  <2>4. k = 1 => plan'[q] = <<>>
    <3>1. q \in begun => q \in Threads
      BY <1>2 DEF Typed, Threads
    <3>2. k = 1 => k # 8
      OBVIOUS
    <3> QED
      BY <1>1, <1>3, <2>2, <3>1, <3>2
  <2>5. MainOK(k, q, v)'
    BY <1>1, <1>3, <1>8, <2>1, <2>2, <2>3, <2>4, MainUntouched DEF Frame
  <2> QED
    BY <2>5
<1>12. Typed'
  BY <1>1, <1>2, <1>3, <1>8 DEF Typed
<1> QED
  BY <1>10, <1>11, <1>12 DEF IInv

(* The request's thread lists the request, takes it off, or deletes it.    *)
LEMMA RequestChanges ==
  ASSUME IInv, NEW r \in Requests, Changes(r) \/ Frees(r)
  PROVE  IInv'
<1> DEFINE p == Line(r)
<1>1. plan[r] # <<>> /\ Advance(r) /\ UNCHANGED <<mutex_, holder_, begun, visited>>
  BY DEF Changes, Frees, At, listVars
<1>2. /\ Typed /\ RequestOK(r) /\ r \in Mutexes /\ r \in Threads /\ r # inventory /\ r # main
      /\ p \in 1 .. 19
      /\ \A op : At(r, op) <=> Script(r)[p][1] = op
      /\ Object(r) = IF p \in {3, 4, 6, 7, 12, 13, 15, 16} THEN inventory ELSE r
  BY <1>1, RequestInstruction
<1>3. /\ plan' \in [Threads -> Seq(Instructions)]
      /\ \A t \in Threads \ {r} : plan'[t] = plan[t]
      /\ Line(r)' = p + 1 /\ OnScript(r)'
  BY <1>1, <1>2, RequestAdvances DEF RequestOK
<1>4. \/ p = 5 /\ requests_' = requests_ \cup {r} /\ freed' = freed
      \/ p = 14 /\ requests_' = requests_ \ {r} /\ freed' = freed
      \/ p = 19 /\ requests_' = requests_ /\ freed' = freed \cup {r}
  BY <1>2, ScriptAt DEF Changes, Frees, listVars
<1>5. /\ (r \in requests_) <=> (p \in 6 .. 14)
      /\ r \notin begun => p = 20
      /\ r \in freed => p = 20
  BY <1>2 DEF RequestOK, LifeOK
<1> HIDE DEF p
<1>6. r \in begun /\ r \notin freed
  BY <1>2, <1>5
<1>7. RequestOK(r)'
  <2>1. LocksOK(r)'
    <3> SUFFICES ASSUME NEW x \in Mutexes
                 PROVE  /\ (mutex_[x] = r) <=> Owns(r, x)'
                        /\ (holder_[x] = r) <=> Recorded(r, x)'
      BY <1>1 DEF LocksOK
    <3>1. /\ (mutex_[x] = r) <=> Owns(r, x)
          /\ (holder_[x] = r) <=> Recorded(r, x)
      BY <1>2 DEF RequestOK, LocksOK
    <3>l. p \in {5, 14, 19} /\ Line(r) = p /\ Line(r)' = p + 1
      BY <1>3, <1>4 DEF p
    <3>2. Owns(r, x)' <=> Owns(r, x)
      BY <3>l DEF Owns
    <3>3. Recorded(r, x)' <=> Recorded(r, x)
      BY <3>l DEF Recorded
    <3> QED
      BY <3>1, <3>2, <3>3
  <2>2. LifeOK(r)'
    <3>1. (r \in requests_') <=> (p + 1 \in 6 .. 14)
      BY <1>2, <1>4, <1>5
    <3>2. r \in freed' => p + 1 = 20
      BY <1>4, <1>6
    <3> QED
      BY <1>1, <1>3, <1>6, <3>1, <3>2 DEF LifeOK
  <2> QED
    BY <1>3, <2>1, <2>2 DEF RequestOK
<1>8. \A u \in Requests : RequestOK(u)'
  <2> SUFFICES ASSUME NEW u \in Requests, u # r PROVE RequestOK(u)'
    BY <1>7
  <2>1. RequestOK(u) /\ u \in Threads \ {r}
    BY DEF IInv, Threads
  <2>2. /\ (u \in requests_') <=> (u \in requests_)
        /\ u \in freed' => u \in freed
    BY <1>4
  <2> QED
    BY <1>1, <1>3, <2>1, <2>2, OtherRequest
<1>9. \E k \in MainLines, q \in Mutexes, v \in Mutexes : MainOK(k, q, v)'
  <2>1. PICK k \in MainLines, q \in Mutexes, v \in Mutexes : MainOK(k, q, v)
    BY DEF IInv
  <2>2. /\ k # 8 => q \in begun
        /\ k = 1 => plan[q] = <<>> /\ q \notin freed
        /\ k \in 21 .. 25 => v \in requests_
    BY <2>1 DEF MainOK, MainLifeOK
  <2>3. main \in Threads \ {r}
    BY <1>2 DEF Threads
  <2>4. k = 1 => plan'[q] = <<>> /\ q \notin freed'
    <3> SUFFICES ASSUME k = 1 PROVE plan'[q] = <<>> /\ q \notin freed'
      OBVIOUS
    <3>1. q \in begun /\ plan[q] = <<>> /\ q \notin freed
      BY <2>2
    <3>2. q \in Threads \ {r}
      BY <1>1, <1>2, <3>1 DEF Typed, Threads
    <3>3. q \notin freed'
      BY <1>4, <3>1, <3>2
    <3> QED
      BY <1>3, <3>1, <3>2, <3>3
  <2>5. k \in 21 .. 25 => v \in requests_'
    <3> SUFFICES ASSUME k \in 21 .. 25, v \notin requests_' PROVE FALSE
      OBVIOUS
    <3>1. p = 14
      BY <1>4, <2>2
    <3>2. mutex_[inventory] = r
      BY <1>2, <3>1 DEF RequestOK, LocksOK, Owns, Mutexes, p
    <3>3. k \in 21 .. 25
      BY <2>1 DEF MainLines
    <3>4. mutex_[inventory] = main
      BY <2>1, <3>3 DEF MainOK, MainLocksOK, MainOwns, Mutexes
    <3> QED
      BY <1>2, <3>2, <3>4
  <2>6. MainOK(k, q, v)'
    BY <1>1, <1>3, <2>1, <2>2, <2>3, <2>4, <2>5, MainUntouched
  <2> QED
    BY <2>6
<1>10. Typed'
  BY <1>1, <1>2, <1>3, <1>4, <1>6 DEF Typed
<1> QED
  BY <1>8, <1>9, <1>10 DEF IInv

LEMMA RequestSteps ==
  ASSUME IInv, NEW r \in Requests, Step(r)
  PROVE  IInv'
<1>1. r # main
  BY NamesAssumption
<1>2. ASSUME plan[r] # <<>>
      PROVE  ~ (At(r, "iterate") \/ At(r, "print") \/ At(r, "start") \/ At(r, "join"))
  <2>1. Line(r) \in 1 .. 19 /\ \A op : At(r, op) <=> Script(r)[Line(r)][1] = op
    BY <1>2, RequestInstruction
  <2> QED
    BY <2>1, ScriptAt
<1>3. Locks(r) \/ Unlocks(r) \/ Changes(r) \/ Frees(r)
  BY <1>1, <1>2 DEF Step, Iterates, Prints, Calls, Starts, Joins, At
<1> QED
  BY <1>3, RequestLockStep, RequestChanges

----------------------------------------------------------------------------
(* main() at a line that is not its last.                                  *)
MainPoint(k, r, v) ==
  /\ Typed /\ k # 8 /\ main \in Threads
  /\ r \in begun
  /\ k \in 21 .. 25 => v \in requests_
  /\ Head(plan[main]) = MainCode(r, v)[k]
  /\ MainDoes(Head(plan[main]), k, r, v)

LEMMA MainInstruction ==
  ASSUME IInv, NEW k \in MainLines, NEW r \in Mutexes, NEW v \in Mutexes, MainOK(k, r, v),
         plan[main] # <<>>
  PROVE  MainPoint(k, r, v)
<1>1. Typed /\ main \in Threads
  BY DEF IInv, Threads
<1>2. k # 8 /\ Head(plan[main]) = MainCode(r, v)[k]
  BY <1>1, MainAt DEF MainOK
<1>3. MainDoes(MainCode(r, v)[k], k, r, v)
  BY <1>2, MainCodeAt
<1>4. r \in begun /\ (k \in 21 .. 25 => v \in requests_)
  BY <1>2 DEF MainOK, MainLifeOK
<1> QED
  BY <1>1, <1>2, <1>3, <1>4 DEF MainPoint

(* A step of main() that changes nothing but its own locks.                *)
LEMMA MainRuns ==
  ASSUME IInv, NEW k \in MainLines, NEW r \in Mutexes, NEW v \in Mutexes, MainOK(k, r, v),
         plan[main] # <<>>, k # 1, Advance(main),
         UNCHANGED <<begun, requests_, freed>>, visited' \subseteq Requests,
         mutex_' \in [Mutexes -> Threads \cup {Nobody}],
         holder_' \in [Mutexes -> Threads \cup {Nobody}],
         Frame(main), MainLocksOK(LineAfter(k), v)'
  PROVE  IInv'
<1>1. /\ Typed /\ k # 8 /\ main \in Threads
      /\ r \in begun
      /\ k \in 21 .. 25 => v \in requests_
  <2>1. MainPoint(k, r, v)
    BY MainInstruction
  <2> QED
    BY <2>1 DEF MainPoint
<1>2. /\ plan' \in [Threads -> Seq(Instructions)]
      /\ plan'[main] = Tail(plan[main])
      /\ \A u \in Threads \ {main} : plan'[u] = plan[u]
  <2>1. plan[main] \in Seq(Instructions)
    BY <1>1 DEF Typed
  <2>2. Tail(plan[main]) \in Seq(Instructions)
    BY <2>1, TailIs
  <2> QED
    BY <1>1, <2>2 DEF Typed, Advance
<1>3. \A u \in Requests : RequestOK(u)'
  <2> SUFFICES ASSUME NEW u \in Requests PROVE RequestOK(u)'
    OBVIOUS
  <2>1. RequestOK(u) /\ u \in Threads \ {main}
    BY NamesAssumption DEF IInv, Threads
  <2> QED
    BY <1>2, <2>1, OtherRequest DEF Frame
<1> DEFINE l == LineAfter(k)
<1>4. MainOnScript(l, r, v)'
  BY <1>1, <1>2, MainGoesOn DEF MainOK
<1>5. l \in MainLines /\ l # 1 /\ (l \in 21 .. 25 => k \in 21 .. 25)
  <2>1. l \in MainLines
    BY <1>1, CodeAfter
  <2>2. l = IF k = 25 THEN 4 ELSE k + 1
    BY DEF LineAfter
  <2> HIDE DEF l
  <2>3. l # 1 /\ (l \in 21 .. 25 => k \in 21 .. 25)
    <3>1. k \in MainLines /\ k # 8
      BY <1>1
    <3> QED
      BY <2>2, <3>1 DEF MainLines
  <2> QED
    BY <2>1, <2>3
<1>6. MainLifeOK(l, r, v)'
  BY <1>1, <1>5 DEF MainLifeOK
<1>7. MainOK(l, r, v)'
  BY <1>4, <1>6 DEF MainOK
<1>8. Typed'
  BY <1>1, <1>2 DEF Typed
<1> QED
  BY <1>3, <1>5, <1>7, <1>8 DEF IInv

LEMMA MainLockStep ==
  ASSUME IInv, Locks(main) \/ Unlocks(main)
  PROVE  IInv'
<1>1. PICK k \in MainLines, r \in Mutexes, v \in Mutexes : MainOK(k, r, v)
  BY DEF IInv
<1> DEFINE m == Object(main)
<1>2. plan[main] # <<>> /\ Advance(main) /\ UNCHANGED <<begun, requests_, visited, freed>>
  BY DEF Locks, Unlocks, At, listVars
<1>3. MainPoint(k, r, v)
  BY <1>1, <1>2, MainInstruction
<1>4. \/ k \in {2, 21} /\ Acquire(main, m)
      \/ k \in {3, 22} /\ SetHolder(main, m)
      \/ k \in {5, 24} /\ ClearHolder(m)
      \/ k \in {6, 25} /\ Release(m)
  BY <1>3 DEF MainPoint, MainDoes, Locks, Unlocks, At
<1>5. m = IF k \in 21 .. 25 THEN v ELSE inventory
  BY <1>3, <1>4 DEF MainPoint, MainDoes, Object
<1> HIDE DEF m
<1>6. inventory \in Mutexes /\ m \in Mutexes /\ (k \in 21 .. 25 => v # inventory)
  BY <1>3, <1>5, NamesAssumption DEF MainPoint, Typed, Mutexes
<1>7. k \in {3, 5, 6, 22, 24, 25} => mutex_[m] = main
  BY <1>1, <1>5, <1>6 DEF MainOK, MainLocksOK, MainOwns
<1>8. \/ Acquire(main, m)
      \/ mutex_[m] = main /\ (SetHolder(main, m) \/ ClearHolder(m) \/ Release(m))
  BY <1>4, <1>7
<1>9. /\ Frame(main)
      /\ mutex_' \in [Mutexes -> Threads \cup {Nobody}]
      /\ holder_' \in [Mutexes -> Threads \cup {Nobody}]
      /\ \A x \in Mutexes \ {m} : mutex_'[x] = mutex_[x] /\ holder_'[x] = holder_[x]
      /\ Acquire(main, m) => mutex_'[m] = main /\ holder_'[m] = holder_[m]
      /\ SetHolder(main, m) => mutex_'[m] = mutex_[m] /\ holder_'[m] = main
      /\ ClearHolder(m) => mutex_'[m] = mutex_[m] /\ holder_'[m] # main
      /\ Release(m) => mutex_'[m] # main /\ holder_'[m] = holder_[m]
  BY <1>3, <1>6, <1>8, LockSteps DEF MainPoint
<1> DEFINE l == LineAfter(k)
<1>10. MainLocksOK(l, v)'
  <2> SUFFICES ASSUME NEW x \in Mutexes
               PROVE  /\ (mutex_'[x] = main) <=> MainOwns(l, v, x)
                      /\ (holder_'[x] = main) <=> MainRecorded(l, v, x)
    BY DEF MainLocksOK, MainOwns, MainRecorded
  <2>1. /\ (mutex_[x] = main) <=> MainOwns(k, v, x)
        /\ (holder_[x] = main) <=> MainRecorded(k, v, x)
    BY <1>1 DEF MainOK, MainLocksOK
  <2>2. l = IF k = 25 THEN 4 ELSE k + 1
    BY <1>4 DEF LineAfter
  <2> HIDE DEF l
  <2>3. CASE k \in {2, 21} /\ Acquire(main, m)
    <3>1. /\ MainOwns(l, v, x) <=> MainOwns(k, v, x) \/ x = m
          /\ MainRecorded(l, v, x) <=> MainRecorded(k, v, x)
      BY <1>5, <1>6, <2>2, <2>3 DEF MainOwns, MainRecorded
    <3> QED
      BY <1>9, <2>1, <2>3, <3>1
  <2>4. CASE k \in {3, 22} /\ SetHolder(main, m)
    <3>1. /\ MainOwns(l, v, x) <=> MainOwns(k, v, x)
          /\ MainRecorded(l, v, x) <=> MainRecorded(k, v, x) \/ x = m
      BY <1>5, <1>6, <2>2, <2>4 DEF MainOwns, MainRecorded
    <3> QED
      BY <1>9, <2>1, <2>4, <3>1
  <2>5. CASE k \in {5, 24} /\ ClearHolder(m)
    <3>1. /\ MainOwns(l, v, x) <=> MainOwns(k, v, x)
          /\ MainRecorded(l, v, x) <=> MainRecorded(k, v, x) /\ x # m
      BY <1>5, <1>6, <2>2, <2>5 DEF MainOwns, MainRecorded
    <3> QED
      BY <1>9, <2>1, <2>5, <3>1
  <2>6. CASE k \in {6, 25} /\ Release(m)
    <3>1. /\ MainOwns(l, v, x) <=> MainOwns(k, v, x) /\ x # m
          /\ MainRecorded(l, v, x) <=> MainRecorded(k, v, x)
      BY <1>5, <1>6, <2>2, <2>6 DEF MainOwns, MainRecorded
    <3> QED
      BY <1>9, <2>1, <2>6, <3>1
  <2> QED
    BY <1>4, <2>3, <2>4, <2>5, <2>6
<1>11. k # 1 /\ visited' \subseteq Requests
  <2>1. k # 1
    BY <1>4
  <2>2. visited' \subseteq Requests
    BY <1>2, <1>3 DEF MainPoint, Typed
  <2> QED
    BY <2>1, <2>2
<1> QED
  BY <1>1, <1>2, <1>9, <1>10, <1>11, MainRuns

(* print() itself and join() change nothing; nor does the end of the loop  *)
(* of printAll().                                                          *)
LEMMA MainPassesOn ==
  ASSUME IInv, Advance(main), UNCHANGED <<mutex_, holder_, begun, requests_, freed>>,
         visited' \subseteq Requests,
         At(main, "print") \/ At(main, "join") \/ At(main, "iterate")
  PROVE  IInv'
<1>1. PICK k \in MainLines, r \in Mutexes, v \in Mutexes : MainOK(k, r, v)
  BY DEF IInv
<1>2. plan[main] # <<>>
  BY DEF At
<1>3. MainPoint(k, r, v)
  BY <1>1, <1>2, MainInstruction
<1>4. k \in {23, 7, 4}
  BY <1>3 DEF MainPoint, MainDoes, At
<1>5. LineAfter(k) = k + 1
  BY <1>4 DEF LineAfter
<1>6. MainLocksOK(k + 1, v)'
  BY <1>1, <1>4 DEF MainOK, MainLocksOK, MainOwns, MainRecorded
<1>7. /\ mutex_' \in [Mutexes -> Threads \cup {Nobody}]
      /\ holder_' \in [Mutexes -> Threads \cup {Nobody}]
      /\ Frame(main)
  BY <1>3 DEF MainPoint, Typed, Frame
<1> QED
  BY <1>1, <1>2, <1>4, <1>5, <1>6, <1>7, MainRuns

(* The loop of printAll() calls print() of a request that is listed.       *)
LEMMA MainCallsPrint ==
  ASSUME IInv, At(main, "iterate"), NEW w \in requests_,
         plan' = [plan EXCEPT ![main] = PrintRequest(w) \o @], visited' = visited \cup {w},
         UNCHANGED <<mutex_, holder_, begun, requests_, freed>>
  PROVE  IInv'
<1>1. PICK k \in MainLines, r \in Mutexes, v \in Mutexes : MainOK(k, r, v)
  BY DEF IInv
<1>2. plan[main] # <<>>
  BY DEF At
<1>p. MainPoint(k, r, v)
  BY <1>1, <1>2, MainInstruction
<1>3. Typed /\ main \in Threads /\ r \in begun
  BY <1>p DEF MainPoint
<1>4. k = 4
  BY <1>p DEF MainPoint, MainDoes, At
<1>5. w \in Requests /\ w \in Mutexes
  BY <1>3 DEF Typed, Mutexes
<1> DEFINE s == plan[main]
           P == PrintRequest(w)
           n == P \o s
<1>6. s \in Seq(Instructions)
  BY <1>3 DEF Typed
<1>7. P \in Seq(Instructions) /\ Len(P) = 5 /\ \A i \in 1 .. 5 : P[i] = PrintScript(w)[i]
  BY <1>5, PrintIs
<1> HIDE DEF P
<1>8. P \in Seq(Instructions)
  BY <1>7
<1>9. IsConcat(n, P, s)
  BY <1>6, <1>8, ConcatIs
<1>10. plan' = [plan EXCEPT ![main] = n]
  BY DEF P
<1> HIDE DEF n
<1>11. /\ plan' \in [Threads -> Seq(Instructions)] /\ plan'[main] = n
       /\ \A u \in Threads \ {main} : plan'[u] = plan[u]
  BY <1>3, <1>9, <1>10 DEF Typed, IsConcat
<1>12. /\ Len(s) = LastLine(k) - k
       /\ \A i \in 1 .. Len(s) : s[i] = MainCode(r, v)[k - 1 + i]
  BY <1>1 DEF MainOK, MainOnScript
<1> HIDE DEF s
<1>13. MainOnScript(21, r, w)'
  <2> DEFINE c == MainCode(r, v)
             d == MainCode(r, w)
  <2>1. IsCode(c, r, v) /\ IsCode(d, r, w)
    BY CodeIs
  <2>2. \A i \in 1 .. Len(s) : s[i] = c[k - 1 + i]
    BY <1>12
  <2> HIDE DEF c, d
  <2>3. Len(s) = 4 /\ \A i \in 1 .. 4 : s[i] = c[3 + i]
    <3>1. Len(s) = 4
      BY <1>4, <1>12 DEF LastLine
    <3>2. \A i \in 1 .. 4 : 4 - 1 + i = 3 + i
      OBVIOUS
    <3> QED
      BY <1>4, <2>2, <3>1, <3>2
  <2>4. /\ Len(n) = 9
        /\ \A i \in 1 .. 5 : n[i] = d[20 + i]
        /\ \A i \in 1 .. 4 : n[5 + i] = d[25 + i]
    <3>1. /\ Len(n) = 9
          /\ \A i \in 1 .. 5 : n[i] = P[i]
          /\ \A i \in 1 .. 4 : n[5 + i] = s[i]
      BY <1>7, <1>9, <2>3 DEF IsConcat
    <3>2. /\ \A i \in 1 .. 4 : c[3 + i] = MainScript(r)[3 + i]
          /\ \A i \in 1 .. 5 : d[20 + i] = PrintScript(w)[i]
          /\ \A i \in 1 .. 4 : d[25 + i] = MainScript(r)[3 + i]
      BY <2>1 DEF IsCode
    <3>3. ASSUME NEW i \in 1 .. 5 PROVE n[i] = d[20 + i]
      <4>1. n[i] = P[i] /\ P[i] = PrintScript(w)[i]
        BY <1>7, <3>1
      <4>2. d[20 + i] = PrintScript(w)[i]
        BY <3>2
      <4> QED
        BY <4>1, <4>2
    <3>4. ASSUME NEW i \in 1 .. 4 PROVE n[5 + i] = d[25 + i]
      <4>1. n[5 + i] = s[i]
        BY <3>1
      <4>2. s[i] = c[3 + i]
        BY <2>3
      <4>3. c[3 + i] = d[25 + i]
        BY <3>2
      <4> QED
        BY <4>1, <4>2, <4>3
    <3> QED
      BY <3>1, <3>3, <3>4
  <2>5. ASSUME NEW i \in 1 .. 9 PROVE n[i] = d[21 - 1 + i]
    <3>1. 21 - 1 + i = 20 + i
      OBVIOUS
    <3>2. CASE i \in 1 .. 5
      BY <2>4, <3>1, <3>2
    <3>3. CASE i \in 6 .. 9
      <4>1. i - 5 \in 1 .. 4 /\ 5 + (i - 5) = i /\ 25 + (i - 5) = 20 + i
        BY <3>3
      <4>2. n[5 + (i - 5)] = d[25 + (i - 5)]
        BY <2>4, <4>1
      <4> QED
        BY <3>1, <4>1, <4>2
    <3> QED
      BY <3>2, <3>3
  <2>6. 21 \in MainLines /\ LastLine(21) = 30
    BY DEF MainLines, LastLine
  <2>7. /\ Len(n) = LastLine(21) - 21
        /\ \A i \in 1 .. Len(n) : n[i] = MainCode(r, w)[21 - 1 + i]
    BY <2>4, <2>5, <2>6 DEF d
  <2> QED
    BY <1>11, <2>6, <2>7 DEF MainOnScript
<1>14. 21 \in MainLines
  BY DEF MainLines
<1>15. MainLocksOK(21, w)'
  BY <1>1, <1>4 DEF MainOK, MainLocksOK, MainOwns, MainRecorded
<1>16. MainLifeOK(21, r, w)'
  BY <1>3 DEF MainLifeOK
<1>17. MainOK(21, r, w)'
  BY <1>13, <1>15, <1>16 DEF MainOK
<1>18. \A u \in Requests : RequestOK(u)'
  <2> SUFFICES ASSUME NEW u \in Requests PROVE RequestOK(u)'
    OBVIOUS
  <2>1. RequestOK(u) /\ u \in Threads \ {main}
    BY NamesAssumption DEF IInv, Threads
  <2> QED
    BY <1>11, <2>1, OtherRequest
<1>19. Typed'
  BY <1>3, <1>5, <1>11 DEF Typed
<1> QED
  BY <1>5, <1>14, <1>17, <1>18, <1>19 DEF IInv

LEMMA MainCalls ==
  ASSUME IInv, Calls(main)
  PROVE  IInv'
<1>1. PICK k \in MainLines, r0 \in Mutexes, v \in Mutexes : MainOK(k, r0, v)
  BY DEF IInv
<1>2. PICK r \in Requests \ begun : /\ plan' = [plan EXCEPT ![main] = Thread1(r)]
                                    /\ begun' = begun \cup {r}
  BY DEF Calls
<1>3. /\ plan[main] = <<>> /\ UNCHANGED <<mutex_, holder_, requests_, visited, freed>>
      /\ Typed /\ main \in Threads /\ r \in Mutexes /\ r \in Threads \ {main}
  BY NamesAssumption DEF Calls, listVars, IInv, Threads, Mutexes
<1> DEFINE n == Thread1(r)
<1>4. /\ n \in Seq(Instructions) /\ Len(n) = LastLine(1) - 1
      /\ \A i \in 1 .. Len(n) : n[i] = MainCode(r, v)[1 - 1 + i]
  <2> DEFINE c == MainCode(r, v)
  <2>1. \A i \in 1 .. 7 : c[i] = MainScript(r)[i]
    BY DEF MainCode
  <2> HIDE DEF c
  <2>2. LastLine(1) = 8
    BY DEF LastLine
  <2>3. n \in Seq(Instructions) /\ Len(n) = 7 /\ \A i \in 1 .. 7 : n[i] = MainScript(r)[i]
    BY <1>2, MainIs
  <2> HIDE DEF n
  <2>4. ASSUME NEW i \in 1 .. 7 PROVE n[i] = c[1 - 1 + i]
    <3>1. 1 - 1 + i = i
      OBVIOUS
    <3> QED
      BY <2>1, <2>3, <3>1
  <2> QED
    BY <2>2, <2>3, <2>4 DEF c
<1>5. 1 \in MainLines
  BY DEF MainLines
<1>6. plan' = [plan EXCEPT ![main] = n]
  BY <1>2
<1> HIDE DEF n
<1>7. /\ plan' \in [Threads -> Seq(Instructions)] /\ plan'[main] = n
      /\ \A u \in Threads \ {main} : plan'[u] = plan[u]
  BY <1>3, <1>4, <1>6 DEF Typed
<1>8. k = 8
  <2>1. LastLine(k) - k = 0
    BY <1>1, <1>3 DEF MainOK, MainOnScript
  <2> QED
    BY <2>1 DEF MainLines, LastLine
<1>9. plan[r] = <<>> /\ r \notin freed
  <2>1. RequestOK(r)
    BY <1>2 DEF IInv
  <2>2. plan[r] \in Seq(Instructions)
    BY <1>3 DEF Typed
  <2>3. Line(r) = 20
    BY <1>2, <2>1 DEF RequestOK, LifeOK
  <2>4. Line(r) + Len(plan[r]) = 20
    BY <2>2 DEF Line
  <2>5. Len(plan[r]) = 0
    BY <2>2, <2>3, <2>4
  <2> QED
    BY <1>2, <1>3, <2>2, <2>5 DEF Typed
<1>10. MainOnScript(1, r, v)'
  BY <1>4, <1>5, <1>7 DEF MainOnScript
<1>11. MainLocksOK(1, v)'
  BY <1>1, <1>3, <1>5, <1>8 DEF MainOK, MainLocksOK, MainOwns, MainRecorded
<1>12. MainLifeOK(1, r, v)'
  BY <1>2, <1>3, <1>5, <1>7, <1>9 DEF MainLifeOK
<1>13. MainOK(1, r, v)'
  BY <1>10, <1>11, <1>12 DEF MainOK
<1>14. \A u \in Requests : RequestOK(u)'
  <2> SUFFICES ASSUME NEW u \in Requests PROVE RequestOK(u)'
    OBVIOUS
  <2>1. RequestOK(u) /\ u \in Threads \ {main}
    BY NamesAssumption DEF IInv, Threads
  <2> QED
    BY <1>2, <1>3, <1>7, <2>1, OtherRequest
<1>15. Typed'
  BY <1>2, <1>3, <1>7 DEF Typed
<1> QED
  BY <1>3, <1>5, <1>13, <1>14, <1>15 DEF IInv

LEMMA MainStarts ==
  ASSUME IInv, Starts(main)
  PROVE  IInv'
<1>1. PICK k \in MainLines, r \in Mutexes, v \in Mutexes : MainOK(k, r, v)
  BY DEF IInv
<1>2. plan[main] # <<>> /\ UNCHANGED <<mutex_, holder_, begun, requests_, visited, freed>>
  BY DEF Starts, At, listVars
<1>p. MainPoint(k, r, v)
  BY <1>1, <1>2, MainInstruction
<1>3. Typed /\ k # 8 /\ main \in Threads /\ r \in begun
  BY <1>p DEF MainPoint
<1>4. k = 1
  BY <1>p DEF MainPoint, MainDoes, At, Starts
<1>5. /\ r \in Requests /\ r # main
      /\ plan[r] = <<>> /\ r \notin freed
      /\ plan' = [plan EXCEPT ![main] = Tail(plan[main]), ![r] = ThreadFunc(r)]
  <2>1. Object(main) = r
    BY <1>p, <1>4 DEF MainPoint, MainDoes, Object
  <2>2. r \in Requests /\ r # main
    BY <1>3, NamesAssumption DEF Typed
  <2>3. plan[r] = <<>> /\ r \notin freed
    BY <1>1, <1>4 DEF MainOK, MainLifeOK
  <2> QED
    BY <2>1, <2>2, <2>3 DEF Starts
<1> DEFINE f == ThreadFunc(r)
<1>6. f \in Seq(Instructions) /\ Len(f) = 19 /\ \A i \in 1 .. 19 : f[i] = Script(r)[i]
  BY <1>5, ScriptIs
<1> HIDE DEF f
<1>7. Tail(plan[main]) \in Seq(Instructions)
  BY <1>2, <1>3, TailIs DEF Typed
<1>8. /\ plan' \in [Threads -> Seq(Instructions)]
      /\ plan'[main] = Tail(plan[main]) /\ plan'[r] = f
      /\ \A u \in Threads \ {main, r} : plan'[u] = plan[u]
  BY <1>3, <1>5, <1>6, <1>7 DEF Typed, Threads, f
<1>9. RequestOK(r)'
  <2>1. Line(r)' = 1
    <3>1. Line(r)' = 20 - Len(f)
      BY <1>8 DEF Line
    <3> QED
      BY <1>6, <3>1
  <2>2. Line(r) = 20
    BY <1>5 DEF Line
  <2>3. OnScript(r)'
    <3>1. ASSUME NEW i \in 1 .. 19 PROVE f[i] = Script(r)[1 - 1 + i]
      <4>1. 1 - 1 + i = i
        OBVIOUS
      <4> QED
        BY <1>6, <4>1
    <3>2. \A i \in 1 .. Len(f) : f[i] = Script(r)[1 - 1 + i]
      BY <1>6, <3>1
    <3> QED
      BY <1>8, <2>1, <3>2 DEF OnScript
  <2>4. RequestOK(r)
    BY <1>5 DEF IInv
  <2>5. LocksOK(r)'
    BY <1>2, <2>1, <2>2, <2>4 DEF RequestOK, LocksOK, Owns, Recorded
  <2>6. LifeOK(r)'
    <3>1. r \notin requests_
      BY <2>2, <2>4 DEF RequestOK, LifeOK
    <3> QED
      BY <1>2, <1>3, <1>5, <2>1, <3>1 DEF LifeOK
  <2> QED
    BY <2>3, <2>5, <2>6 DEF RequestOK
<1>10. \A u \in Requests : RequestOK(u)'
  <2> SUFFICES ASSUME NEW u \in Requests, u # r PROVE RequestOK(u)'
    BY <1>9
  <2>1. RequestOK(u) /\ u \in Threads \ {main, r}
    BY NamesAssumption DEF IInv, Threads
  <2> QED
    BY <1>2, <1>8, <2>1, OtherRequest
<1>11. MainOnScript(LineAfter(k), r, v)'
  BY <1>1, <1>2, <1>3, <1>8, MainGoesOn DEF MainOK
<1>12. LineAfter(k) = 2 /\ 2 \in MainLines
  BY <1>4 DEF LineAfter, MainLines
<1>13. MainLocksOK(2, v)'
  <2>1. \A m \in Mutexes : ~ MainOwns(k, v, m) /\ ~ MainRecorded(k, v, m)
    BY <1>4 DEF MainOwns, MainRecorded
  <2>2. \A m \in Mutexes : ~ MainOwns(2, v, m) /\ ~ MainRecorded(2, v, m)
    BY DEF MainOwns, MainRecorded
  <2>3. \A m \in Mutexes : mutex_[m] # main /\ holder_[m] # main
    BY <1>1, <2>1 DEF MainOK, MainLocksOK
  <2> SUFFICES ASSUME NEW m \in Mutexes
               PROVE  /\ (mutex_'[m] = main) <=> MainOwns(2, v, m)
                      /\ (holder_'[m] = main) <=> MainRecorded(2, v, m)
    BY DEF MainLocksOK, MainOwns, MainRecorded
  <2> QED
    BY <1>2, <2>2, <2>3
<1>14. MainLifeOK(2, r, v)'
  BY <1>2, <1>3, <1>12 DEF MainLifeOK
<1>15. MainOK(2, r, v)'
  BY <1>11, <1>12, <1>13, <1>14 DEF MainOK
<1>16. Typed'
  BY <1>2, <1>3, <1>8 DEF Typed
<1> QED
  BY <1>10, <1>12, <1>15, <1>16 DEF IInv

LEMMA MainSteps ==
  ASSUME IInv, Step(main)
  PROVE  IInv'
<1>1. CASE Locks(main) \/ Unlocks(main)
  BY <1>1, MainLockStep
<1>2. CASE Changes(main) \/ Frees(main)
  <2>1. PICK k \in MainLines, r \in Mutexes, v \in Mutexes : MainOK(k, r, v)
    BY DEF IInv
  <2>2. plan[main] # <<>>
    BY <1>2 DEF Changes, Frees, At
  <2>3. MainPoint(k, r, v)
    BY <2>1, <2>2, MainInstruction
  <2> QED
    BY <1>2, <2>3 DEF MainPoint, MainDoes, At, Changes, Frees
<1>3. CASE Iterates(main)
  <2>1. \/ \E w \in requests_ \ visited : /\ plan' = [plan EXCEPT ![main] = PrintRequest(w) \o @]
                                         /\ visited' = visited \cup {w}
        \/ Advance(main) /\ visited' = {}
    BY <1>3 DEF Iterates
  <2>2. At(main, "iterate") /\ UNCHANGED <<mutex_, holder_, begun, requests_, freed>>
    BY <1>3 DEF Iterates
  <2>3. CASE Advance(main) /\ visited' = {}
    BY <2>2, <2>3, MainPassesOn
  <2> QED
    BY <2>1, <2>2, <2>3, MainCallsPrint
<1>4. CASE Prints(main) \/ Joins(main)
  <2>1. visited' \subseteq Requests
    BY <1>4 DEF Prints, Joins, listVars, IInv, Typed
  <2> QED
    BY <1>4, <2>1, MainPassesOn DEF Prints, Joins, listVars
<1>5. CASE Calls(main)
  BY <1>5, MainCalls
<1>6. CASE Starts(main)
  BY <1>6, MainStarts
<1> QED
  BY <1>1, <1>2, <1>3, <1>4, <1>5, <1>6 DEF Step

----------------------------------------------------------------------------
LEMMA InitInv == Init => IInv
<1> SUFFICES ASSUME Init PROVE IInv
  OBVIOUS
<1>1. /\ mutex_ = [m \in Mutexes |-> Nobody] /\ holder_ = [m \in Mutexes |-> Nobody]
      /\ plan = [t \in Threads |-> <<>>]
      /\ begun = {} /\ requests_ = {} /\ visited = {} /\ freed = {}
  BY DEF Init
<1>2. Nobody \notin Threads /\ main \in Threads /\ inventory \in Mutexes
  BY NamesAssumption DEF Threads, Mutexes
<1>3. Typed
  BY <1>1 DEF Typed
<1>4. \A r \in Requests : RequestOK(r)
  <2> SUFFICES ASSUME NEW r \in Requests PROVE RequestOK(r)
    OBVIOUS
  <2>1. plan[r] = <<>> /\ r \in Threads
    BY <1>1 DEF Threads
  <2>2. Line(r) = 20
    BY <2>1 DEF Line
  <2>3. OnScript(r)
    BY <2>1, <2>2 DEF OnScript
  <2>4. LocksOK(r)
    BY <1>1, <1>2, <2>1, <2>2 DEF LocksOK, Owns, Recorded
  <2>5. LifeOK(r)
    BY <1>1, <2>2 DEF LifeOK
  <2> QED
    BY <2>3, <2>4, <2>5 DEF RequestOK
<1>5. MainOK(8, inventory, inventory)
  <2>1. plan[main] = <<>> /\ LastLine(8) = 8
    BY <1>1, <1>2 DEF LastLine
  <2>2. MainOnScript(8, inventory, inventory)
    BY <2>1 DEF MainOnScript, MainLines
  <2>3. MainLocksOK(8, inventory)
    BY <1>1, <1>2 DEF MainLocksOK, MainOwns, MainRecorded
  <2>4. MainLifeOK(8, inventory, inventory)
    BY DEF MainLifeOK
  <2> QED
    BY <2>2, <2>3, <2>4 DEF MainOK
<1> QED
  BY <1>2, <1>3, <1>4, <1>5 DEF IInv, MainLines

LEMMA StepInv == IInv /\ [Next]_vars => IInv'
<1> SUFFICES ASSUME IInv, [Next]_vars PROVE IInv'
  OBVIOUS
<1>1. CASE Next
  <2>1. PICK t \in Threads : Step(t)
    BY <1>1 DEF Next
  <2> QED
    BY <2>1, RequestSteps, MainSteps DEF Threads
<1>2. CASE UNCHANGED vars
  <2>1. UNCHANGED <<mutex_, holder_, plan, begun, requests_, visited, freed>>
    BY <1>2 DEF vars, listVars
  <2>2. \A u \in Requests : RequestOK(u)'
    BY <2>1, OtherRequest DEF IInv
  <2>3. PICK k \in MainLines, r \in Mutexes, v \in Mutexes : MainOK(k, r, v)
    BY DEF IInv
  <2>4. MainOK(k, r, v)'
    BY <2>1, <2>3, MainUntouched DEF MainOK, MainLifeOK
  <2>5. Typed'
    BY <2>1 DEF IInv, Typed
  <2> QED
    BY <2>2, <2>3, <2>4, <2>5 DEF IInv
<1> QED
  BY <1>1, <1>2

LEMMA Invariant == Safe => []IInv
BY InitInv, StepInv, PTL DEF Safe

LEMMA TypesFollow == IInv => TypeOK
BY RecordsAreOwners DEF IInv, Typed, TypeOK

(* What of MainCode the properties speak of.                               *)
MainTouches(x, c, v) ==
  /\ x[1] = "clearHolder" => \/ c \in {5, 27} /\ x[2] = inventory
                             \/ c = 24 /\ x[2] = v
  /\ x[1] \in {"acquire", "print"} => \/ x[2] = inventory
                                      \/ x[2] = v /\ c \in 21 .. 25

LEMMA CodeHolds ==
  ASSUME NEW r, NEW v, NEW c \in 1 .. 29
  PROVE  MainTouches(MainCode(r, v)[c], c, v)
<1> USE DEF MainTouches
<1>1. ASSUME NEW i \in 1 .. 7
      PROVE  /\ MainScript(r)[i][1] = "clearHolder" => i = 5 /\ MainScript(r)[i][2] = inventory
             /\ MainScript(r)[i][1] \in {"acquire", "print"} => MainScript(r)[i][2] = inventory
  BY DEF MainScript
<1>2. ASSUME NEW i \in 1 .. 5
      PROVE  /\ PrintScript(v)[i][1] = "clearHolder" => i = 4
             /\ PrintScript(v)[i][2] = v
  BY DEF PrintScript
<1>3. CASE c \in 21 .. 25
  <2>1. MainCode(r, v)[c] = PrintScript(v)[c - 20] /\ c - 20 \in 1 .. 5
    BY <1>3 DEF MainCode
  <2> QED
    BY <1>2, <1>3, <2>1
<1>4. CASE c \in 26 .. 29
  <2>1. MainCode(r, v)[c] = MainScript(r)[c - 22] /\ c - 22 \in 1 .. 7
    BY <1>4 DEF MainCode
  <2> QED
    BY <1>1, <1>4, <2>1
<1>5. CASE c \in 1 .. 7
  <2>1. MainCode(r, v)[c] = MainScript(r)[c]
    BY <1>5 DEF MainCode
  <2> QED
    BY <1>1, <1>5, <2>1
<1>6. CASE c \in 8 .. 20
  <2>1. MainCode(r, v)[c] = MainScript(r)[1]
    BY <1>6 DEF MainCode
  <2>2. MainScript(r)[1][1] = "start"
    BY DEF MainScript
  <2> QED
    BY <2>1, <2>2
<1> QED
  BY <1>3, <1>4, <1>5, <1>6

(* A thread that is inside finds itself recorded.                          *)
LEMMA HolderFollows == IInv => HolderIsTrue
<1> SUFFICES ASSUME IInv, NEW m \in Mutexes, NEW t \in Threads, Inside(t, m)
             PROVE  holder_[m] = t
  BY RecordsAreOwners, NamesAssumption DEF HolderIsTrue, IsLockedBy, Threads
<1>1. PICK n \in DOMAIN plan[t] :
        /\ plan[t][n] = <<"clearHolder", m>>
        /\ \A j \in 1 .. n : plan[t][j] \notin {<<"acquire", m>>, <<"setHolder", m>>}
  BY DEF Inside
<1>2. Typed /\ plan[t] \in Seq(Instructions) /\ Len(plan[t]) \in Nat /\ n \in 1 .. Len(plan[t])
  <2>1. plan[t] \in Seq(Instructions)
    BY DEF IInv, Typed
  <2> QED
    BY <2>1 DEF IInv
<1>3. CASE t \in Requests
  <2>1. RequestOK(t) /\ t # inventory
    BY <1>3, NamesAssumption DEF IInv
  <2> DEFINE p == Line(t)
             c == p - 1 + n
  <2>2. /\ p \in 1 .. 20 /\ p + Len(plan[t]) = 20
        /\ \A i \in 1 .. Len(plan[t]) : plan[t][i] = Script(t)[p - 1 + i]
    <3>1. p + Len(plan[t]) = 20
      BY <1>2 DEF Line
    <3> QED
      BY <2>1, <3>1 DEF RequestOK, OnScript
  <2> HIDE DEF p
  <2>3. p \in 1 .. 19 /\ c \in p .. 19 /\ Script(t)[c] = <<"clearHolder", m>>
    <3> DEFINE len == Len(plan[t])
    <3>1. p \in 1 .. 20 /\ p + len = 20 /\ n \in 1 .. len /\ len \in Nat
      BY <1>2, <2>2
    <3>2. plan[t][n] = Script(t)[c]
      BY <2>2, <3>1
    <3> HIDE DEF len
    <3>3. p \in 1 .. 19 /\ c \in p .. 19
      BY <3>1
    <3> QED
      BY <1>1, <3>2, <3>3
  <2> HIDE DEF c
  <2>4. ASSUME NEW q \in p .. c PROVE Script(t)[q] # <<"setHolder", m>>
    <3>1. q - p + 1 \in 1 .. n /\ q - p + 1 \in 1 .. Len(plan[t]) /\ p - 1 + (q - p + 1) = q
      BY <1>2, <2>2, <2>3 DEF c
    <3> QED
      BY <1>1, <2>2, <3>1
  <2>5. /\ Script(t)[2] = <<"setHolder", t>> /\ Script(t)[4] = <<"setHolder", inventory>>
        /\ Script(t)[11] = <<"setHolder", t>> /\ Script(t)[13] = <<"setHolder", inventory>>
    BY DEF Script
  <2>6. /\ c \in {6, 8, 15, 17}
        /\ m = IF c \in {6, 15} THEN inventory ELSE t
    <3>1. c \in 1 .. 19 /\ Script(t)[c][1] = "clearHolder" /\ Script(t)[c][2] = m
      BY <2>3
    <3>2. c \in {6, 8, 15, 17}
      BY <3>1, ScriptAt
    <3>3. Script(t)[c][2] = IF c \in {3, 4, 6, 7, 12, 13, 15, 16} THEN inventory ELSE t
      BY <3>1, ScriptAt
    <3> QED
      BY <3>1, <3>2, <3>3
  <2>7. Recorded(t, m)
    <3>1. CASE c = 6
      <4>1. m = inventory /\ 4 \notin p .. c
        BY <2>4, <2>5, <2>6, <3>1
      <4> QED
        BY <2>3, <3>1, <4>1 DEF Recorded, p
    <3>2. CASE c = 8
      <4>1. m = t /\ 2 \notin p .. c
        BY <2>4, <2>5, <2>6, <3>2
      <4> QED
        BY <2>3, <3>2, <4>1 DEF Recorded, p
    <3>3. CASE c = 15
      <4>1. m = inventory /\ 13 \notin p .. c
        BY <2>4, <2>5, <2>6, <3>3
      <4> QED
        BY <2>3, <3>3, <4>1 DEF Recorded, p
    <3>4. CASE c = 17
      <4>1. m = t /\ 11 \notin p .. c
        BY <2>4, <2>5, <2>6, <3>4
      <4> QED
        BY <2>3, <3>4, <4>1 DEF Recorded, p
    <3> QED
      BY <2>6, <3>1, <3>2, <3>3, <3>4
  <2> QED
    BY <2>1, <2>7 DEF RequestOK, LocksOK
<1>4. CASE t = main
  <2>1. PICK k \in MainLines, r \in Mutexes, v \in Mutexes : MainOK(k, r, v)
    BY DEF IInv
  <2> DEFINE c == k - 1 + n
             code == MainCode(r, v)
  <2>2. /\ k \in 1 .. 25 /\ Len(plan[main]) = LastLine(k) - k
        /\ \A i \in 1 .. Len(plan[main]) : plan[main][i] = code[k - 1 + i]
        /\ LastLine(k) \in {8, 30}
    BY <2>1 DEF MainOK, MainOnScript, MainLines, LastLine
  <2>3. c \in 1 .. 29 /\ c \in k .. LastLine(k) - 1 /\ code[c] = <<"clearHolder", m>>
    <3>1. n \in 1 .. Len(plan[main]) /\ Len(plan[main]) \in Nat
      BY <1>2, <1>4
    <3>2. plan[main][n] = code[c]
      <4>1. \A i \in 1 .. Len(plan[main]) : plan[main][i] = code[k - 1 + i]
        BY <2>2
      <4> HIDE DEF code
      <4> QED
        BY <3>1, <4>1
    <3> HIDE DEF code
    <3>3. c \in 1 .. 29 /\ c \in k .. LastLine(k) - 1
      <4> DEFINE len == Len(plan[main])
                 last == LastLine(k)
      <4>1. k \in 1 .. 25 /\ len = last - k /\ last \in {8, 30} /\ n \in 1 .. len /\ len \in Nat
        BY <2>2, <3>1
      <4> HIDE DEF len, last
      <4>2. c \in 1 .. 29 /\ c \in k .. last - 1
        BY <4>1
      <4> QED
        BY <4>2 DEF last
    <3> QED
      BY <1>1, <1>4, <3>2, <3>3
  <2> HIDE DEF c
  <2>4. ASSUME NEW q \in k .. c PROVE code[q] # <<"setHolder", m>>
    <3>1. q - k + 1 \in 1 .. n /\ q - k + 1 \in 1 .. Len(plan[main]) /\ k - 1 + (q - k + 1) = q
      BY <1>2, <1>4, <2>2, <2>3 DEF c
    <3>2. plan[main][q - k + 1] = code[k - 1 + (q - k + 1)]
      BY <2>2, <3>1
    <3>3. plan[main][q - k + 1] # <<"setHolder", m>>
      BY <1>1, <1>4, <3>1
    <3> QED
      BY <3>1, <3>2, <3>3
  <2>5. code[3] = <<"setHolder", inventory>> /\ code[22] = <<"setHolder", v>>
    BY DEF MainCode, MainScript, PrintScript
  <2>6. \/ c \in {5, 27} /\ m = inventory
        \/ c = 24 /\ m = v
    <3>1. code[c][1] = "clearHolder" /\ code[c][2] = m
      BY <2>3
    <3>2. MainTouches(code[c], c, v)
      BY <2>3, CodeHolds
    <3> HIDE DEF code
    <3> QED
      BY <3>1, <3>2 DEF MainTouches
  <2> HIDE DEF code
  <2>7. MainRecorded(k, v, m)
    <3>1. \/ k \in 1 .. 8 /\ c \in k .. 7
          \/ k \in 21 .. 25 /\ c \in k .. 29
      BY <2>3 DEF MainLines, LastLine
    <3>2. /\ m = inventory => 3 \notin k .. c
          /\ m = v => 22 \notin k .. c
      BY <2>4, <2>5
    <3>3. CASE k \in 1 .. 8 /\ c \in k .. 7
      <4>1. m = inventory /\ k \in {4, 5}
        BY <2>6, <3>2, <3>3
      <4> QED
        BY <4>1 DEF MainRecorded
    <3>4. CASE k \in 21 .. 25 /\ c \in k .. 29
      <4>1. \/ c = 24 /\ m = v
            \/ m = inventory
        BY <2>6, <3>4
      <4>2. CASE c = 24 /\ m = v
        <5>1. 22 \notin k .. c /\ k <= c
          BY <3>2, <3>4, <4>2
        <5>2. k \in {23, 24}
          BY <3>4, <4>2, <5>1
        <5> QED
          BY <4>2, <5>2 DEF MainRecorded
      <4> QED
        BY <3>4, <4>1, <4>2 DEF MainRecorded
    <3> QED
      BY <3>1, <3>3, <3>4
  <2> QED
    BY <1>4, <2>1, <2>7 DEF MainOK, MainLocksOK
<1> QED
  BY <1>3, <1>4 DEF Threads

(* No thread is still to lock or to print a request that is deleted.       *)
LEMMA AliveFollows == IInv => PrintedIsAlive
<1> SUFFICES ASSUME IInv PROVE PrintedIsAlive
  OBVIOUS
<1>1. Typed
  BY DEF IInv
<1>2. PICK k \in MainLines, x \in Mutexes, v \in Mutexes : MainOK(k, x, v)
  BY DEF IInv
<1>3. ASSUME NEW r \in freed
      PROVE  /\ r \in Requests /\ Line(r) = 20 /\ plan[r] = <<>> /\ r \notin requests_
  <2>1. r \in Requests /\ r \in Threads
    BY <1>1 DEF Typed, Threads
  <2>2. RequestOK(r)
    BY <2>1 DEF IInv
  <2>3. Line(r) = 20 /\ r \notin requests_
    BY <2>2 DEF RequestOK, LifeOK
  <2>4. plan[r] \in Seq(Instructions)
    BY <1>1, <2>1 DEF Typed
  <2>5. Line(r) + Len(plan[r]) = 20
    BY <2>4 DEF Line
  <2>6. Len(plan[r]) = 0
    BY <2>3, <2>4, <2>5
  <2> QED
    BY <2>1, <2>3, <2>4, <2>6
<1>4. k \in 21 .. 25 => v \in requests_
  BY <1>2 DEF MainOK, MainLifeOK
<1>5. ASSUME NEW r \in freed PROVE holder_[r] = Nobody
  <2>1. r \in Mutexes /\ r # inventory
    BY <1>3, NamesAssumption DEF Mutexes
  <2>2. SUFFICES ASSUME NEW t \in Threads, holder_[r] = t PROVE FALSE
    BY <1>1, <2>1 DEF Typed
  <2>3. CASE t \in Requests
    <3>1. RequestOK(t)
      BY <2>3 DEF IInv
    <3>2. Recorded(t, r)
      BY <2>1, <2>2, <3>1 DEF RequestOK, LocksOK
    <3>3. r = t
      BY <2>1, <3>2 DEF Recorded
    <3> QED
      BY <1>3, <2>1, <3>2, <3>3 DEF Recorded
  <2>4. CASE t = main
    <3>1. MainRecorded(k, v, r)
      BY <1>2, <2>1, <2>2, <2>4 DEF MainOK, MainLocksOK
    <3> QED
      BY <1>3, <1>4, <2>1, <3>1 DEF MainRecorded
  <2> QED
    BY <2>3, <2>4 DEF Threads
<1>6. ASSUME NEW t \in Threads, NEW r \in freed, NEW i \in DOMAIN plan[t]
      PROVE  plan[t][i] # <<"acquire", r>> /\ plan[t][i] # <<"print", r>>
  <2>1. plan[t] \in Seq(Instructions)
    BY <1>1 DEF Typed
  <2>2. Len(plan[t]) \in Nat /\ i \in 1 .. Len(plan[t])
    BY <2>1
  <2>3. r \in Requests /\ r # inventory /\ plan[r] = <<>> /\ r \notin requests_
    BY <1>3, NamesAssumption
  <2>4. CASE t \in Requests
    <3>1. RequestOK(t)
      BY <2>4 DEF IInv
    <3> DEFINE p == Line(t)
               c == p - 1 + i
    <3>2. /\ p \in 1 .. 20 /\ p + Len(plan[t]) = 20
          /\ \A j \in 1 .. Len(plan[t]) : plan[t][j] = Script(t)[p - 1 + j]
      <4>1. p + Len(plan[t]) = 20
        BY <2>2 DEF Line
      <4> QED
        BY <3>1, <4>1 DEF RequestOK, OnScript
    <3> HIDE DEF p
    <3>3. c \in 1 .. 19 /\ plan[t][i] = Script(t)[c]
      <4>1. c \in 1 .. 19
        <5> DEFINE len == Len(plan[t])
        <5>1. p \in 1 .. 20 /\ p + len = 20 /\ i \in 1 .. len /\ len \in Nat
          BY <2>2, <3>2
        <5> HIDE DEF len
        <5> QED
          BY <5>1
      <4>2. plan[t][i] = Script(t)[c]
        <5>1. \A j \in 1 .. Len(plan[t]) : plan[t][j] = Script(t)[p - 1 + j]
          BY <3>2
        <5> QED
          BY <2>2, <5>1
      <4> QED
        BY <4>1, <4>2
    <3> HIDE DEF c
    <3>4. Script(t)[c][1] # "print" /\ Script(t)[c][2] \in {inventory, t}
      <4>1. Script(t)[c][1] \notin {"iterate", "print", "start", "join"}
        BY <3>3, ScriptAt
      <4>2. Script(t)[c][2] = IF c \in {3, 4, 6, 7, 12, 13, 15, 16} THEN inventory ELSE t
        BY <3>3, ScriptAt
      <4> QED
        BY <4>1, <4>2
    <3>5. t # r
      BY <2>2, <2>3
    <3> QED
      BY <2>3, <3>3, <3>4, <3>5
  <2>5. CASE t = main
    <3> DEFINE c == k - 1 + i
               code == MainCode(x, v)
    <3>1. /\ k \in 1 .. 25 /\ Len(plan[main]) = LastLine(k) - k
          /\ \A j \in 1 .. Len(plan[main]) : plan[main][j] = code[k - 1 + j]
          /\ LastLine(k) \in {8, 30}
      BY <1>2 DEF MainOK, MainOnScript, MainLines, LastLine
    <3>2. c \in 1 .. 29 /\ c \in k .. LastLine(k) - 1 /\ plan[t][i] = code[c]
      <4>1. i \in 1 .. Len(plan[main]) /\ Len(plan[main]) \in Nat
        BY <2>2, <2>5
      <4>2. \A j \in 1 .. Len(plan[main]) : plan[main][j] = code[k - 1 + j]
        BY <3>1
      <4> HIDE DEF code
      <4>4. plan[main][i] = code[c]
        BY <4>1, <4>2
      <4>3. c \in 1 .. 29 /\ c \in k .. LastLine(k) - 1
        <5> DEFINE len == Len(plan[main])
                   last == LastLine(k)
        <5>1. k \in 1 .. 25 /\ len = last - k /\ last \in {8, 30} /\ i \in 1 .. len /\ len \in Nat
          BY <3>1, <4>1
        <5> HIDE DEF len, last
        <5>2. c \in 1 .. 29 /\ c \in k .. last - 1
          BY <5>1
        <5> QED
          BY <5>2 DEF last
      <4> QED
        BY <2>5, <4>3, <4>4
    <3> HIDE DEF c
    <3>3. c \in 1 .. 29
      BY <3>2
    <3>4. code[c][1] \in {"acquire", "print"} =>
            \/ code[c][2] = inventory
            \/ code[c][2] = v /\ c \in 21 .. 25
      <4>1. MainTouches(code[c], c, v)
        BY <3>3, CodeHolds
      <4> QED
        BY <4>1 DEF MainTouches
    <3> HIDE DEF code
    <3>5. c \in 21 .. 25 => k \in 21 .. 25
      BY <3>2 DEF MainLines, LastLine
    <3> QED
      BY <1>4, <2>3, <3>2, <3>4, <3>5
  <2> QED
    BY <2>4, <2>5 DEF Threads
<1> QED
  BY <1>3, <1>5, <1>6 DEF PrintedIsAlive

(* The recipe is type-correct, for any number of requests: in particular   *)
(* a recorded holder is the owner of the mutex (Mutex.h:29-42).            *)
THEOREM TypeCorrect == Safe => []TypeOK
BY Invariant, TypesFollow, PTL

(* isLockedByThisThread() is right in every critical section (Mutex.h:27,  *)
(* and the order of unlock() at :37), for any number of threads.           *)
THEOREM RecordsAreTrue == Safe => []HolderIsTrue
BY Invariant, HolderFollows, PTL

(* A request printAll() is to print was not deleted, for any number of     *)
(* requests (2_1_2MutualDeadLock.cc:67).                                   *)
THEOREM ListedAreAlive == Safe => []PrintedIsAlive
BY Invariant, AliveFollows, PTL
=============================================================================
