------------------------ MODULE StockFactory_proofs ------------------------
(***************************************************************************)
(* Proofs about StockFactory, for any threads, keys and stocks: the        *)
(* inductive invariant IInv step by step, and what follows from it.        *)
(***************************************************************************)
EXTENDS StockFactory, TLAPS

LEMMA InitInv == Init => IInv
<1> SUFFICES ASSUME Init PROVE IInv
  OBVIOUS
<1> USE NoneAssumption DEF Init, Empty
<1>1. TypeOK
  BY DEF TypeOK, Places
<1>2. DeletersOK /\ EntriesOK /\ MapFinds
  BY DEF DeletersOK, EntriesOK, MapFinds, Held
<1>3. OneStockPerKey /\ NoStaleEntry /\ OnlyBareThisCrashes
  BY DEF OneStockPerKey, NoStaleEntry, OnlyBareThisCrashes
<1> QED
  BY <1>1, <1>2, <1>3 DEF IInv

LEMMA FoundInv ==
  ASSUME IInv, NEW t \in Threads, NEW k \in Keys, Get(t, k), Found(t, k)
  PROVE  IInv'
<1> DEFINE s == stocks_[k]
<1> USE NoneAssumption DEF IInv, Get, Found, Idle
<1>1. s \in live /\ s \in Stocks /\ key[s] = k
  BY DEF TypeOK, EntriesOK, Shared
<1>2. TypeOK'
  BY <1>1 DEF TypeOK
<1>3. \A u \in Threads : dying[u] # s
  BY <1>1 DEF DeletersOK, Held, Shared, TypeOK
<1>4. DeletersOK'
  BY <1>3 DEF DeletersOK, Held, TypeOK
<1>5. \A r : Shared(r) => Shared(r)'
  BY DEF Shared, TypeOK
<1>6. EntriesOK' /\ NoStaleEntry' /\ OnlyBareThisCrashes'
  BY <1>5 DEF EntriesOK, NoStaleEntry, OnlyBareThisCrashes, FactoryAlive, Empty, TypeOK
<1>7. \A r : Held(r)' => Held(r) \/ r = s
  BY DEF Held, TypeOK
<1>8. MapFinds'
  BY <1>1, <1>7 DEF MapFinds, FactoryAlive
<1>9. OneStockPerKey'
  <2> SUFFICES ASSUME version # 3, NEW r \in Stocks, NEW q \in Stocks, Held(r)', Held(q)', key[r] = key[q]
               PROVE  r = q
    BY <1>2 DEF OneStockPerKey, Held, TypeOK
  <2>1. FactoryAlive
    BY DEF FactoryAlive
  <2> QED
    BY <2>1, <1>1, <1>7 DEF MapFinds
<1> QED
  BY <1>2, <1>4, <1>6, <1>8, <1>9 DEF IInv

LEMMA CreatedInv ==
  ASSUME IInv, NEW t \in Threads, NEW k \in Keys, Get(t, k), NEW s \in Stocks, Created(t, k, s)
  PROVE  IInv'
<1> USE NoneAssumption DEF IInv, Get, Created, Idle
<1>1. ~Held(s) /\ \A u \in Threads : dying[u] # s
  BY DEF TypeOK, Held
<1>2. TypeOK'
  BY DEF TypeOK
<1>3. DeletersOK'
  BY <1>1 DEF DeletersOK, Held, TypeOK
<1>4. Held(s)' /\ stocks_'[k] = s /\ key'[s] = k /\ FactoryAlive
  BY DEF Held, TypeOK, FactoryAlive
<1>5. \A r : r # s => (Held(r)' <=> Held(r)) /\ (r \in Stocks => key'[r] = key[r])
  BY DEF Held, TypeOK
<1>6. \A j \in Keys : j # k => stocks_'[j] = stocks_[j] /\ stocks_[j] # s
  BY DEF TypeOK
<1>7. EntriesOK' /\ OnlyBareThisCrashes'
  BY <1>4, <1>5, <1>6 DEF EntriesOK, OnlyBareThisCrashes, FactoryAlive, TypeOK
<1>8. \A r \in Stocks : version # 3 /\ Held(r) => key[r] # k /\ key[r] \in Keys /\ stocks_[key[r]] = r
  BY <1>4 DEF MapFinds, Held, Shared
<1>9. MapFinds'
  BY <1>4, <1>5, <1>6, <1>8 DEF MapFinds
<1>10. OneStockPerKey'
  BY <1>2, <1>4, <1>5, <1>8 DEF OneStockPerKey, Held, TypeOK
<1>11. \A j \in Keys : j # k /\ Shared(stocks_[j]) => Shared(stocks_[j])'
  BY <1>6 DEF Shared, TypeOK
<1>12. Shared(s)'
  BY <1>4 DEF Shared, Held
<1>13. NoStaleEntry'
  BY <1>4, <1>6, <1>11, <1>12 DEF NoStaleEntry, TypeOK
<1> QED
  BY <1>2, <1>3, <1>7, <1>9, <1>10, <1>13 DEF IInv

LEMMA DropInv ==
  ASSUME IInv, NEW t \in Threads, NEW s \in Stocks, Drop(t, s)
  PROVE  IInv'
<1> USE NoneAssumption DEF IInv, Drop, Idle
<1>1. \A r : Held(r)' => Held(r)
  BY DEF Held, TypeOK
<1>2. \A r : r # s /\ Held(r) => Held(r)'
  BY DEF Held, TypeOK
<1>3. Last(t, s) => ~Held(s)'
  BY DEF Last, Held, TypeOK
<1>4. ~Last(t, s) /\ version # 1 => Held(s)'
  BY DEF Last, Held, TypeOK
<1>5. s \in live /\ \A u \in Threads : dying[u] # s
  BY DEF DeletersOK, Held, TypeOK
<1>6. TypeOK'
  <2>1. holds' \in [Threads -> SUBSET live']
    BY <1>3, <1>5 DEF TypeOK, Held
  <2>2. dying' \in [Threads -> live' \cup {None}] /\ pc' \in [Threads -> Places]
    BY <1>5 DEF TypeOK, Places
  <2> QED
    BY <2>1, <2>2 DEF TypeOK
<1>7. DeletersOK'
  BY <1>1, <1>3, <1>5 DEF DeletersOK, TypeOK
<1>8. EntriesOK' /\ OnlyBareThisCrashes'
  BY DEF EntriesOK, OnlyBareThisCrashes, FactoryAlive, Last, TypeOK, Empty
<1>9. MapFinds' /\ OneStockPerKey'
  BY <1>1, <1>6 DEF MapFinds, OneStockPerKey, Held, FactoryAlive, TypeOK
<1>10. NoStaleEntry'
  <2> SUFFICES ASSUME version \in {3, 4}, NEW k \in Keys, stocks_[k] # None, ~Shared(stocks_[k])'
               PROVE  \E u \in Threads : dying'[u] = stocks_[k] /\ pc'[u] \notin {"idle", "delete"}
    BY DEF NoStaleEntry
  <2>1. CASE stocks_[k] = s
    BY <2>1, <1>4 DEF Shared, Held, TypeOK
  <2>2. CASE stocks_[k] # s
    <3>1. ~Shared(stocks_[k])
      BY <2>2, <1>2 DEF Shared, Held
    <3> QED
      BY <3>1 DEF NoStaleEntry, TypeOK
  <2> QED
    BY <2>1, <2>2
<1> QED
  BY <1>6, <1>7, <1>8, <1>9, <1>10 DEF IInv

(* Where each deleter goes.                                                *)
LEMMA DeleterPlaces ==
  ASSUME IInv, NEW t \in Threads, pc[t] # "idle"
  PROVE  /\ dying[t] \in live /\ dying[t] \in Stocks /\ dying[t] # None /\ ~Held(dying[t])
         /\ version \in {3, 4}
         /\ \A u \in Threads : u # t => dying[u] # dying[t]
BY NoneAssumption DEF IInv, TypeOK, DeletersOK

LEMMA DeleteStockInv == ASSUME IInv, NEW t \in Threads, DeleteStock(t) PROVE IInv'
<1> DEFINE s == dying[t]
<1> USE NoneAssumption DEF IInv, DeleteStock, Erase, Goto
<1>1. s \in live /\ s \in Stocks /\ ~Held(s) /\ version = 3
  BY DeleterPlaces DEF DeletersOK
<1>2. \A j \in Keys : stocks_'[j] = stocks_[j] \/ stocks_'[j] = None
  BY DEF TypeOK
<1>3. TypeOK'
  BY <1>2 DEF TypeOK, Places
<1>4. DeletersOK'
  BY <1>1 DEF DeletersOK, Held, TypeOK
<1>5. EntriesOK'
  <2>1. ~FactoryAlive' => stocks_' = Empty
    BY <1>2, <1>3 DEF EntriesOK, FactoryAlive, Empty, TypeOK
  <2> QED
    BY <2>1, <1>1, <1>2 DEF EntriesOK
<1>7. MapFinds' /\ OneStockPerKey' /\ OnlyBareThisCrashes'
  BY <1>1 DEF MapFinds, OneStockPerKey, OnlyBareThisCrashes
<1>6. NoStaleEntry'
  <2> SUFFICES ASSUME NEW k \in Keys, stocks_'[k] # None, ~Shared(stocks_[k])'
               PROVE  \E u \in Threads : dying[u] = stocks_'[k] /\ pc'[u] \notin {"idle", "delete"}
    BY DEF NoStaleEntry
  <2>1. stocks_'[k] = stocks_[k] /\ key[stocks_[k]] = k /\ ~Shared(stocks_[k])
    BY <1>1, <1>2 DEF EntriesOK, Shared
  <2>2. stocks_[k] # s
    BY <2>1, <1>1 DEF TypeOK
  <2> QED
    BY <2>1, <2>2, <1>1 DEF NoStaleEntry, TypeOK
<1> QED
  BY <1>3, <1>4, <1>5, <1>6, <1>7 DEF IInv

LEMMA WeakDeleteCallbackInv == ASSUME IInv, NEW t \in Threads, WeakDeleteCallback(t) PROVE IInv'
<1> USE NoneAssumption DEF IInv, WeakDeleteCallback, Goto
<1>1. TypeOK'
  BY DEF TypeOK, Places
<1>2. DeletersOK'
  BY DeleterPlaces DEF DeletersOK, Held, TypeOK
<1>3. FactoryAlive' <=> FactoryAlive
  BY DEF FactoryAlive
<1>4. EntriesOK' /\ MapFinds' /\ OneStockPerKey' /\ OnlyBareThisCrashes'
  BY <1>1, <1>3 DEF EntriesOK, MapFinds, Held, OneStockPerKey, OnlyBareThisCrashes, Empty, TypeOK
<1>5. NoStaleEntry'
  BY DEF NoStaleEntry, EntriesOK, Empty, Shared, TypeOK
<1> QED
  BY <1>1, <1>2, <1>4, <1>5 DEF IInv

LEMMA RemoveStockInv == ASSUME IInv, NEW t \in Threads, RemoveStock(t) PROVE IInv'
<1> DEFINE s == dying[t]
<1> USE NoneAssumption DEF IInv, RemoveStock, Erase, Goto
<1>1. s \in live /\ s \in Stocks /\ ~Held(s) /\ version = 4 /\ t \in keeps /\ FactoryAlive
  BY DeleterPlaces DEF DeletersOK, FactoryAlive
<1>2. \A j \in Keys : \/ stocks_'[j] = stocks_[j]
                      \/ stocks_'[j] = None /\ ~Shared(stocks_[j])
  BY DEF TypeOK
<1>3. TypeOK'
  BY <1>2 DEF TypeOK, Places
<1>4. DeletersOK'
  BY <1>1 DEF DeletersOK, Held, TypeOK
<1>5. EntriesOK' /\ OneStockPerKey' /\ OnlyBareThisCrashes'
  BY <1>1, <1>2, <1>3 DEF EntriesOK, OneStockPerKey, OnlyBareThisCrashes, FactoryAlive, Empty, TypeOK
<1>6. MapFinds'
  BY <1>2, <1>3 DEF MapFinds, Held, Shared, FactoryAlive
<1>7. NoStaleEntry'
  <2> SUFFICES ASSUME NEW k \in Keys, stocks_'[k] # None, ~Shared(stocks_[k])'
               PROVE  \E u \in Threads : dying[u] = stocks_'[k] /\ pc'[u] \notin {"idle", "delete"}
    BY DEF NoStaleEntry
  <2>1. stocks_'[k] = stocks_[k] /\ key[stocks_[k]] = k /\ ~Shared(stocks_[k])
    BY <1>1, <1>2 DEF EntriesOK, Shared
  <2>2. stocks_[k] # s
    BY <2>1, <1>1 DEF TypeOK
  <2> QED
    BY <2>1, <2>2, <1>1 DEF NoStaleEntry, TypeOK
<1> QED
  BY <1>3, <1>4, <1>5, <1>6, <1>7 DEF IInv

LEMMA DeleteInv == ASSUME IInv, NEW t \in Threads, Delete(t) PROVE IInv'
<1> DEFINE s == dying[t]
<1> USE NoneAssumption DEF IInv, Delete, Goto
<1>1. s \in live /\ s \in Stocks /\ ~Held(s) /\ version \in {3, 4}
  BY DeleterPlaces
<1>2. TypeOK'
  <2>1. holds' \in [Threads -> SUBSET live']
    BY <1>1 DEF TypeOK, Held
  <2>2. dying' \in [Threads -> live' \cup {None}]
    BY DeleterPlaces DEF TypeOK
  <2> QED
    BY <2>1, <2>2 DEF TypeOK, Places, Empty
<1>3. DeletersOK'
  BY DeleterPlaces DEF DeletersOK, Held, TypeOK
<1>4. EntriesOK' /\ MapFinds' /\ OneStockPerKey' /\ OnlyBareThisCrashes'
  BY <1>1, <1>2 DEF EntriesOK, MapFinds, Held, OneStockPerKey, OnlyBareThisCrashes, FactoryAlive,
                    Empty, TypeOK
<1>5. NoStaleEntry'
  BY DEF NoStaleEntry, Empty, Shared, TypeOK
<1> QED
  BY <1>2, <1>3, <1>4, <1>5 DEF IInv

LEMMA DropFactoryInv == ASSUME IInv, NEW t \in Threads, DropFactory(t) PROVE IInv'
<1> USE NoneAssumption DEF IInv, DropFactory, Idle
<1>1. version # 1 => live' = live
  OBVIOUS
<1>2. TypeOK'
  <2>1. holds' \in [Threads -> SUBSET live'] /\ live' \subseteq Stocks
    BY DEF TypeOK
  <2>2. dying' \in [Threads -> live' \cup {None}]
    BY <1>1 DEF TypeOK, DeletersOK
  <2> QED
    BY <2>1, <2>2 DEF TypeOK, Empty
<1>3. DeletersOK'
  BY DEF DeletersOK, Held, TypeOK
<1>4. EntriesOK' /\ MapFinds' /\ OneStockPerKey' /\ OnlyBareThisCrashes'
  BY <1>2 DEF EntriesOK, MapFinds, Held, OneStockPerKey, OnlyBareThisCrashes, FactoryAlive,
                    Empty, TypeOK
<1>5. NoStaleEntry'
  BY DEF NoStaleEntry, Empty, Shared, TypeOK
<1> QED
  BY <1>2, <1>3, <1>4, <1>5 DEF IInv

LEMMA NextInv == IInv /\ [Next]_vars => IInv'
<1> SUFFICES ASSUME IInv, [Next]_vars PROVE IInv'
  OBVIOUS
<1>1. CASE UNCHANGED vars
  BY <1>1 DEF vars, IInv, TypeOK, DeletersOK, EntriesOK, MapFinds, Held, Shared, FactoryAlive,
              OneStockPerKey, NoStaleEntry, OnlyBareThisCrashes
<1>2. ASSUME NEW t \in Threads, NEW k \in Keys, Get(t, k) PROVE IInv'
  BY <1>2, FoundInv, CreatedInv DEF Get
<1>3. ASSUME NEW t \in Threads, NEW s \in Stocks, Drop(t, s) PROVE IInv'
  BY <1>3, DropInv
<1>4. ASSUME NEW t \in Threads, Deleter(t) PROVE IInv'
  BY <1>4, DeleteStockInv, WeakDeleteCallbackInv, RemoveStockInv, DeleteInv DEF Deleter
<1>5. ASSUME NEW t \in Threads, DropFactory(t) PROVE IInv'
  BY <1>5, DropFactoryInv
<1> QED
  BY <1>1, <1>2, <1>3, <1>4, <1>5 DEF Next

LEMMA Invariant == Spec => []IInv
BY InitInv, NextInv, PTL DEF Spec, Safe

(* The object pool is type-correct; a deleter never names a stock that is  *)
(* gone, nor does a user hold one.                                         *)
THEOREM TypeCorrect == Spec => []TypeOK
BY Invariant, PTL DEF IInv

(* Two users of a name share one Stock (1_11Object_Pool.cc:10-13), in all  *)
(* versions but the third, for any number of threads and names.            *)
THEOREM SharesStocks == Spec => []OneStockPerKey
BY Invariant, PTL DEF IInv

(* An entry that expired has its deleter on the way (:56).                 *)
THEOREM MapIsCleaned == Spec => []NoStaleEntry
BY Invariant, PTL DEF IInv

(* The weak callback never runs into a factory that is gone (:164).        *)
THEOREM WeakCallbackIsSafe == Spec => []OnlyBareThisCrashes
BY Invariant, PTL DEF IInv
=============================================================================
