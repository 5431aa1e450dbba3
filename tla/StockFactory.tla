---------------------------- MODULE StockFactory ----------------------------
(***************************************************************************)
(* The object pool of easy/recipes/thread/1_11Object_Pool.cc: a factory    *)
(* shares the Stock of a name between its users while anyone uses it.  The *)
(* file keeps four versions: a map of strong pointers, a map of weak ones, *)
(* a deleter bound to a bare this, and one bound to a weak pointer.        *)
(*                                                                         *)
(* The mutex makes get() and the body of a deleter one step each; the last *)
(* reference of a Stock is dropped without it.  A member of Stocks is an   *)
(* object with its control block: it serves again when the object is       *)
(* deleted and no weak pointer is left.                                    *)
(***************************************************************************)
EXTENDS Naturals

CONSTANTS Threads, Keys, Stocks, None

ASSUME NoneAssumption == None \notin Stocks \cup Keys

VARIABLES
  version,   \* which of the four factories
  users,     \* threads that hold the factory
  stocks_,   \* the map: the stock of each key, or None
  live,      \* the Stock objects that exist
  key,       \* name_ of each stock
  holds,     \* the stocks each thread has a shared_ptr to
  pc,        \* where each thread is in the deleter
  dying,     \* the stock it deletes, or None
  keeps,     \* threads whose deleter holds the factory
  crashed    \* a deleter ran into a factory that is gone

vars == <<version, users, stocks_, live, key, holds, pc, dying, keeps, crashed>>

Empty == [k \in Keys |-> None]

Init == /\ version \in 1..4
        /\ users = Threads
        /\ stocks_ = Empty
        /\ live = {}
        /\ key = [s \in Stocks |-> None]
        /\ holds = [t \in Threads |-> {}]
        /\ pc = [t \in Threads |-> "idle"]
        /\ dying = [t \in Threads |-> None]
        /\ keeps = {}
        /\ crashed = FALSE

(* Mutant: the deleter is bound to shared_from_this() (the form :140       *)
(* leaves out).                                                            *)
FactoryAliveStrong == users # {} \/ keeps # {} \/ live # {}
FactoryAlive == users # {} \/ keeps # {}

(* expired() is its negation.  The map's own pointer counts in version 1.  *)
Shared(s) == \/ \E t \in Threads : s \in holds[t]
             \/ version = 1 /\ \E k \in Keys : stocks_[k] = s

Idle(t) == pc[t] = "idle" /\ ~crashed

----------------------------------------------------------------------------
Found(t, k) ==
  /\ stocks_[k] # None /\ Shared(stocks_[k])
  /\ holds' = [holds EXCEPT ![t] = @ \cup {stocks_[k]}]
  /\ UNCHANGED <<stocks_, live, key>>

Created(t, k, s) ==
  /\ stocks_[k] = None \/ ~Shared(stocks_[k])
  /\ s \notin live /\ \A j \in Keys : stocks_[j] # s
  /\ live' = live \cup {s}
  /\ key' = [key EXCEPT ![s] = k]
  /\ stocks_' = [stocks_ EXCEPT ![k] = s]
  /\ holds' = [holds EXCEPT ![t] = @ \cup {s}]

Get(t, k) ==
  /\ Idle(t) /\ t \in users
  /\ Found(t, k) \/ \E s \in Stocks : Created(t, k, s)
  /\ UNCHANGED <<version, users, pc, dying, keeps, crashed>>

(* A thread drops its pointer.  The last one runs the deleter of versions  *)
(* 3 and 4, and deletes the stock of versions 1 and 2 at once.             *)
Last(t, s) == /\ \A u \in Threads \ {t} : s \notin holds[u]
              /\ ~(version = 1 /\ \E k \in Keys : stocks_[k] = s)

Drop(t, s) ==
  /\ Idle(t) /\ s \in holds[t]
  /\ holds' = [holds EXCEPT ![t] = @ \ {s}]
  /\ IF Last(t, s) /\ version \in {3, 4}
     THEN /\ pc' = [pc EXCEPT ![t] = IF version = 3 THEN "deleteStock" ELSE "weakDeleteCallback"]
          /\ dying' = [dying EXCEPT ![t] = s]
          /\ UNCHANGED live
     ELSE /\ live' = IF Last(t, s) THEN live \ {s} ELSE live
          /\ UNCHANGED <<pc, dying>>
  /\ UNCHANGED <<version, users, stocks_, key, keeps, crashed>>

Erase(s) == stocks_' = [stocks_ EXCEPT ![key[s]] = None]
Goto(t, where) == pc' = [pc EXCEPT ![t] = where]

(* Version 3.  Taking the mutex of a factory that is gone is the crash.    *)
DeleteStock(t) ==
  /\ pc[t] = "deleteStock" /\ ~crashed
  /\ crashed' = ~FactoryAlive
  /\ Erase(dying[t])
  /\ Goto(t, "delete")
  /\ UNCHANGED <<version, users, live, key, holds, dying, keeps>>

(* Version 4.  Mutants: the weak pointer is only tested, and the factory   *)
(* used through this; the entry is left; the stock is deleted first.       *)
WeakDeleteCallbackTesting(t) ==
  /\ pc[t] = "weakDeleteCallback" /\ ~crashed
  /\ Goto(t, IF FactoryAlive THEN "removeStock" ELSE "delete")
  /\ UNCHANGED <<version, users, stocks_, live, key, holds, dying, keeps, crashed>>
WeakDeleteCallbackLeaving(t) ==
  /\ pc[t] = "weakDeleteCallback" /\ ~crashed
  /\ Goto(t, "delete")
  /\ UNCHANGED <<version, users, stocks_, live, key, holds, dying, keeps, crashed>>
WeakDeleteCallbackDeleting(t) ==
  /\ pc[t] = "weakDeleteCallback" /\ ~crashed
  /\ Goto(t, IF FactoryAlive THEN "removeStock" ELSE "delete")
  /\ keeps' = IF FactoryAlive THEN keeps \cup {t} ELSE keeps
  /\ live' = live \ {dying[t]}
  /\ UNCHANGED <<version, users, stocks_, key, holds, dying, crashed>>

WeakDeleteCallback(t) ==
  /\ pc[t] = "weakDeleteCallback" /\ ~crashed
  /\ Goto(t, IF FactoryAlive THEN "removeStock" ELSE "delete")
  /\ keeps' = IF FactoryAlive THEN keeps \cup {t} ELSE keeps
  /\ UNCHANGED <<version, users, stocks_, live, key, holds, dying, crashed>>

(* Mutant: the entry of the key is erased as version 3 does.               *)
RemoveStockUntested(t) ==
  /\ pc[t] = "removeStock" /\ ~crashed
  /\ crashed' = ~FactoryAlive
  /\ Erase(dying[t])
  /\ Goto(t, "delete")
  /\ UNCHANGED <<version, users, live, key, holds, dying, keeps>>

RemoveStock(t) ==
  /\ pc[t] = "removeStock" /\ ~crashed
  /\ crashed' = ~FactoryAlive
  /\ LET entry == stocks_[key[dying[t]]]
     IN IF entry # None /\ ~Shared(entry) THEN Erase(dying[t]) ELSE UNCHANGED stocks_
  /\ Goto(t, "delete")
  /\ UNCHANGED <<version, users, live, key, holds, dying, keeps>>

(* The end of the deleter; its pointer to the factory may be the last.     *)
Delete(t) ==
  /\ pc[t] = "delete" /\ ~crashed
  /\ live' = live \ {dying[t]}
  /\ Goto(t, "idle")
  /\ dying' = [dying EXCEPT ![t] = None]
  /\ keeps' = keeps \ {t}
  /\ stocks_' = IF users = {} /\ keeps \subseteq {t} THEN Empty ELSE stocks_
  /\ UNCHANGED <<version, users, key, holds, crashed>>

(* A user drops the factory; the last reference destroys it and its map.   *)
DropFactory(t) ==
  /\ Idle(t) /\ t \in users
  /\ users' = users \ {t}
  /\ IF users = {t} /\ keeps = {}
     THEN /\ stocks_' = Empty
          /\ live' = IF version = 1 THEN live \ {s \in live : \A u \in Threads : s \notin holds[u]}
                     ELSE live
     ELSE UNCHANGED <<stocks_, live>>
  /\ UNCHANGED <<version, key, holds, pc, dying, keeps, crashed>>

----------------------------------------------------------------------------
Deleter(t) == \/ DeleteStock(t)
              \/ WeakDeleteCallback(t)
              \/ RemoveStock(t)
              \/ Delete(t)

Next == \E t \in Threads : \/ \E k \in Keys : Get(t, k)
                           \/ \E s \in Stocks : Drop(t, s)
                           \/ Deleter(t)
                           \/ DropFactory(t)

Safe == Init /\ [][Next]_vars

(* A deleter that began goes on.  Nothing says that a user ever drops.     *)
Spec == Safe /\ \A t \in Threads : WF_vars(Deleter(t))

----------------------------------------------------------------------------
Places == {"idle", "deleteStock", "weakDeleteCallback", "removeStock", "delete"}
TypeOK ==
  /\ version \in 1..4
  /\ users \subseteq Threads
  /\ stocks_ \in [Keys -> Stocks \cup {None}]
  /\ live \subseteq Stocks
  /\ key \in [Stocks -> Keys \cup {None}]
  /\ holds \in [Threads -> SUBSET live]
  /\ pc \in [Threads -> Places]
  /\ dying \in [Threads -> live \cup {None}]
  /\ keeps \subseteq Threads
  /\ crashed \in BOOLEAN

(* "For each stock there is one Stock object" (:10-13): two users of one   *)
(* name use the same object, also when the one drops it while the other    *)
(* asks for it (:182).  Version 3 erases the entry of the newer object.    *)
OneStockPerKey ==
  version # 3 => \A t, u \in Threads : \A s \in holds[t], r \in holds[u] :
                   key[s] = key[r] => s = r

(* The map does not grow for ever (:56): an entry that expired has a       *)
(* deleter on its way to erase it, in the versions that have one.          *)
NoStaleEntry ==
  version \in {3, 4} /\ ~crashed =>
    \A k \in Keys : stocks_[k] # None /\ ~Shared(stocks_[k])
      => \E t \in Threads : /\ dying[t] = stocks_[k]
                            /\ pc[t] \notin {"idle", "delete"}

(* Only the bare this of version 3 (:95) outlives the factory.             *)
OnlyBareThisCrashes == crashed => version = 3

(* Stocks that are in use do not prolong the factory's life (:144): when   *)
(* its users have dropped it, it dies.                                     *)
FactoryDies == (users = {} /\ version = 4) ~> ~FactoryAlive

----------------------------------------------------------------------------
(* The inductive invariant.                                                *)

Held(s) == \E t \in Threads : s \in holds[t]

(* Each deleter has a stock of its own, which nobody holds any more.       *)
DeletersOK ==
  \A t \in Threads :
    /\ pc[t] = "idle" <=> dying[t] = None
    /\ pc[t] # "idle" => version \in {3, 4} /\ ~Held(dying[t])
    /\ pc[t] = "deleteStock" => version = 3
    /\ pc[t] \in {"weakDeleteCallback", "removeStock"} => version = 4
    /\ pc[t] = "removeStock" => t \in keeps
    /\ \A u \in Threads : dying[t] = dying[u] /\ dying[t] # None => t = u

EntriesOK ==
  /\ \A k \in Keys : stocks_[k] # None =>
       key[stocks_[k]] = k /\ (version = 1 => stocks_[k] \in live)
  /\ ~FactoryAlive => stocks_ = Empty

(* A stock in use is the one the map has: get() cannot make a second.      *)
MapFinds ==
  version # 3 /\ FactoryAlive => \A s \in Stocks : Held(s) => stocks_[key[s]] = s /\ key[s] \in Keys

IInv == /\ TypeOK /\ DeletersOK /\ EntriesOK /\ MapFinds
        /\ OneStockPerKey /\ NoStaleEntry /\ OnlyBareThisCrashes
=============================================================================
