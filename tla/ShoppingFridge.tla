--------------------------- MODULE ShoppingFridge ---------------------------
(***************************************************************************)
(* The shopping cart and the fridge of a group, which feed each other.      *)
(*                                                                         *)
(* Members put items into the one cart of the group and take them out.      *)
(* Completing the shopping reads the cart, and in one later transaction     *)
(* records what was read as bought, moves some of it into the fridge, and    *)
(* empties the cart but for the excluded items.  Deleting from the fridge   *)
(* puts frequent items with autoAdd into the cart, in steps of their own.    *)
(*                                                                         *)
(* Ids are numbers, given in the order of creation.  Quantities, prices,     *)
(* units, dates and ticks are left out: no write of this state reads them.   *)
(* So are the expense booked with a purchase, in the same transaction, and    *)
(* the list of purchases, which is only read and deleted from.               *)
(***************************************************************************)
EXTENDS Integers

CONSTANTS Names,       \* names of items
          Frequents,   \* ids of frequent items
          Storages,    \* ids of storage locations
          Handlers,    \* the requests that can be on their way at once
          None,        \* no row, no link, no request
          MaxItems,    \* bound: cart items ever
          MaxStock,    \* bound: fridge items ever
          MaxRequests, \* bound: requests in all
          MaxFaults    \* bound: restocks cut off

Items == 1..MaxItems
Stock == 1..MaxStock

VARIABLES
  cart,      \* shopping_cart_items: [name, frequent], or None
  fridge,    \* fridge_items: [name, frequent, storage], or None
  frequent,  \* frequent_items: [name, autoAdd], or None
  storages,  \* the storage locations there are
  carts,     \* number of cart items ever
  stocked,   \* number of fridge items ever
  request,   \* per handler: the request and what it has read, or None
  requests,  \* counts the requests
  faults,    \* counts the faults
  bought,    \* how many shopping_history_items were made of each cart item
  emptied,   \* ghost: cart items a completion has deleted
  late,      \* ghost: cart items deleted by a completion that had not read them
  twice      \* ghost: cart items two completions have read at once

fridgeVars == <<fridge, frequent, storages, stocked>>
boughtVars == <<bought, emptied, late, twice>>
vars == <<cart, carts, fridgeVars, boughtVars, request, requests, faults>>

Init ==
  /\ cart = [c \in Items |-> None] /\ carts = 0
  /\ fridge = [s \in Stock |-> None] /\ stocked = 0
  /\ frequent \in [Frequents -> {None} \cup [name : Names, autoAdd : BOOLEAN]]
  /\ \A f, g \in Frequents :
       f # g /\ frequent[f] # None /\ frequent[g] # None => frequent[f].name # frequent[g].name
  /\ storages = Storages
  /\ request = [h \in Handlers |-> None]
  /\ requests = 0 /\ faults = 0
  /\ bought = [c \in Items |-> 0]
  /\ emptied = {} /\ late = {} /\ twice = {}

InCart   == {c \in Items : cart[c] # None}
InFridge == {s \in Stock : fridge[s] # None}

NewRequest == requests < MaxRequests /\ requests' = requests + 1

Begin(h, r) ==
  /\ request[h] = None
  /\ NewRequest
  /\ request' = [request EXCEPT ![h] = r]

End(h) == request' = [request EXCEPT ![h] = None]

At(h, op, stage) == request[h] # None /\ request[h].op = op /\ request[h].stage = stage

\* The frequent item of a name, or None: the link of a new row.
LinkOf(name) ==
  IF \E f \in Frequents : frequent[f] # None /\ frequent[f].name = name
    THEN CHOOSE f \in Frequents : frequent[f] # None /\ frequent[f].name = name
    ELSE None

-----------------------------------------------------------------------------
(* The cart.                                                               *)

\* syncCartItems: the links are looked up, then one transaction inserts, changes
\* and deletes.  Here an item of a name comes in and the items of gone go; names
\* may occur twice.  A link deleted in between would refuse the transaction, which
\* is a request that did nothing.
SyncCart(name, gone) ==
  /\ NewRequest
  /\ name # None => carts < MaxItems
  /\ LET left == [c \in Items |-> IF c \in gone THEN None ELSE cart[c]] IN
       /\ cart' = IF name = None THEN left
                  ELSE [left EXCEPT ![carts + 1] = [name |-> name, frequent |-> LinkOf(name)]]
       /\ carts' = IF name = None THEN carts ELSE carts + 1
  /\ UNCHANGED <<fridgeVars, boughtVars, request, faults>>

\* syncCartItems, an update: the name changes and the link stays.
RenameCartItem(c, name) ==
  /\ c \in InCart
  /\ NewRequest
  /\ cart' = [cart EXCEPT ![c].name = name]
  /\ UNCHANGED <<carts, fridgeVars, boughtVars, request, faults>>

RemoveCartItem(c) ==
  /\ c \in InCart
  /\ NewRequest
  /\ cart' = [cart EXCEPT ![c] = None]
  /\ UNCHANGED <<carts, fridgeVars, boughtVars, request, faults>>

ReadByOthers ==
  UNION {DOMAIN request[h].items :
           h \in {x \in Handlers : At(x, "complete", "read")}}

\* completeShopping: the cart is read.  One item at most is moved to the fridge.
CompleteRead(h, excluded, moved) ==
  /\ InCart \ excluded # {}
  /\ moved \in {None} \cup InCart
  /\ Begin(h, [op |-> "complete", stage |-> "read", excluded |-> excluded,
               items |-> [c \in InCart \ excluded |-> cart[c]],
               moved |-> IF moved \in InCart \ excluded THEN cart[moved] ELSE None])
  /\ twice' = twice \cup ((InCart \ excluded) \cap ReadByOthers)
  /\ UNCHANGED <<cart, carts, fridgeVars, bought, emptied, late, faults>>

\* Variant: the excluded items are deleted with the others.
EmptiedAll(r) == InCart

\* What the last statement of the transaction deletes: all but the excluded.
Emptied(r) == InCart \ r.excluded

\* A fridge item of that name and link, as rows are made by every service.
Shelve(name, link) ==
  /\ stocked < MaxStock
  /\ stocked' = stocked + 1
  /\ \E place \in storages :
       fridge' = [fridge EXCEPT ![stocked + 1] =
                    [name |-> name, frequent |-> link, storage |-> place]]

\* The transaction: what was read is recorded, bought by others or taken out of
\* the cart since or not.  It fails as a whole when a storage or a link is gone.
CompleteWrite(h) ==
  /\ At(h, "complete", "read")
  /\ LET r == request[h] IN
       \/ /\ IF r.moved = None
               THEN UNCHANGED <<fridge, stocked>>
               ELSE /\ r.moved.frequent # None => frequent[r.moved.frequent] # None
                    /\ Shelve(r.moved.name, r.moved.frequent)
          /\ bought' = [c \in Items |->
                          bought[c] + IF c \in DOMAIN r.items THEN 1 ELSE 0]
          /\ cart' = [c \in Items |-> IF c \in Emptied(r) THEN None ELSE cart[c]]
          /\ emptied' = emptied \cup Emptied(r)
          /\ late' = late \cup (InCart \ ((DOMAIN r.items) \cup r.excluded))
       \/ /\ r.moved # None
          /\ storages # Storages \/
             (r.moved.frequent # None /\ frequent[r.moved.frequent] = None)
          /\ UNCHANGED <<cart, fridge, stocked, bought, emptied, late>>
  /\ End(h)
  /\ UNCHANGED <<carts, frequent, storages, twice, requests, faults>>

-----------------------------------------------------------------------------
(* The fridge.                                                             *)

\* createFridgeItem, and each of bulkCreateFridgeItems.
CreateFridgeItem(name) ==
  /\ NewRequest
  /\ Shelve(name, LinkOf(name))
  /\ UNCHANGED <<cart, carts, frequent, storages, boughtVars, request, faults>>

\* updateFridgeItem, and each update of bulkUpdateFridgeItems: a new name takes
\* the link of that name.  updateQuantity changes no more than the quantity, to 0
\* too, without a restock.
RenameFridgeItem(s, name) ==
  /\ s \in InFridge
  /\ NewRequest
  /\ fridge' = [fridge EXCEPT ![s].name = name, ![s].frequent = LinkOf(name)]
  /\ UNCHANGED <<cart, carts, stocked, frequent, storages, boughtVars, request, faults>>

\* What is to be put into the cart for the fridge items gone.
Wanted(gone) ==
  {[frequent |-> f, name |-> frequent[f].name] :
     f \in {fridge[s].frequent : s \in {x \in gone : fridge[x].frequent # None
                                           /\ frequent[fridge[x].frequent].autoAdd}}}

\* deleteFridgeItem, and the deletions of bulkUpdateFridgeItems: the items are read
\* with their frequent items; an item another request has deleted since ends the
\* one and not the other.
ConsumeRead(h, gone, bulk) ==
  /\ gone # {} /\ gone \subseteq InFridge
  /\ ~bulk => \E s \in gone : gone = {s}
  /\ Begin(h, [op |-> "consume", stage |-> "read", gone |-> gone, bulk |-> bulk,
               todo |-> Wanted(gone), next |-> None])
  /\ UNCHANGED <<cart, carts, fridgeVars, boughtVars, faults>>

ConsumeDelete(h) ==
  /\ At(h, "consume", "read")
  /\ LET r == request[h] IN
       IF r.bulk \/ r.gone \subseteq InFridge
         THEN /\ fridge' = [s \in Stock |-> IF s \in r.gone THEN None ELSE fridge[s]]
              /\ request' = [request EXCEPT ![h].stage = "restock"]
         ELSE End(h) /\ UNCHANGED fridge
  /\ UNCHANGED <<cart, carts, stocked, frequent, storages, boughtVars, requests, faults>>

\* One entry: an item of that name in the cart is enough.
RestockLook(h) ==
  /\ At(h, "consume", "restock")
  /\ \E e \in request[h].todo :
       request' = [request EXCEPT ![h] =
         IF \E c \in InCart : cart[c].name = e.name
           THEN [request[h] EXCEPT !.todo = @ \ {e}]
           ELSE [request[h] EXCEPT !.todo = @ \ {e}, !.next = e, !.stage = "create"]]
  /\ UNCHANGED <<cart, carts, fridgeVars, boughtVars, requests, faults>>

\* The new item.  A frequent item deleted by now is a link to nothing: it throws.
RestockCreate(h) ==
  /\ At(h, "consume", "create")
  /\ LET e == request[h].next IN
       IF frequent[e.frequent] # None
         THEN /\ carts < MaxItems
              /\ cart' = [cart EXCEPT ![carts + 1] = e]
              /\ carts' = carts + 1
              /\ request' = [request EXCEPT ![h].stage = "restock", ![h].next = None]
         ELSE End(h) /\ UNCHANGED <<cart, carts>>
  /\ UNCHANGED <<fridgeVars, boughtVars, requests, faults>>

RestockDone(h) ==
  /\ At(h, "consume", "restock") /\ request[h].todo = {}
  /\ End(h)
  /\ UNCHANGED <<cart, carts, fridgeVars, boughtVars, requests, faults>>

\* The server stops between two steps of the restock.
RestockCut(h) ==
  /\ At(h, "consume", "restock") \/ At(h, "consume", "create")
  /\ faults < MaxFaults /\ faults' = faults + 1
  /\ End(h)
  /\ UNCHANGED <<cart, carts, fridgeVars, boughtVars, requests>>

\* deleteStorage: its items go too, and nothing is put into the cart for them.
DeleteStorage(p) ==
  /\ p \in storages
  /\ NewRequest
  /\ storages' = storages \ {p}
  /\ fridge' = [s \in Stock |->
                  IF s \in InFridge /\ fridge[s].storage = p THEN None ELSE fridge[s]]
  /\ UNCHANGED <<cart, carts, stocked, frequent, boughtVars, request, faults>>

\* createFrequentItem and updateFrequentItem: names are unique.
SetFrequent(f, name, autoAdd) ==
  /\ LinkOf(name) \in {None, f}
  /\ NewRequest
  /\ frequent' = [frequent EXCEPT ![f] = [name |-> name, autoAdd |-> autoAdd]]
  /\ UNCHANGED <<cart, carts, fridge, stocked, storages, boughtVars, request, faults>>

\* deleteFrequentItem: the links to it become NULL.
DeleteFrequent(f) ==
  /\ frequent[f] # None
  /\ NewRequest
  /\ frequent' = [frequent EXCEPT ![f] = None]
  /\ cart' = [c \in Items |->
       IF c \in InCart /\ cart[c].frequent = f THEN [cart[c] EXCEPT !.frequent = None]
       ELSE cart[c]]
  /\ fridge' = [s \in Stock |->
       IF s \in InFridge /\ fridge[s].frequent = f THEN [fridge[s] EXCEPT !.frequent = None]
       ELSE fridge[s]]
  /\ UNCHANGED <<carts, stocked, storages, boughtVars, request, faults>>

-----------------------------------------------------------------------------
Cart ==
  \/ \E n \in Names \cup {None}, gone \in SUBSET InCart :
       /\ n # None \/ gone # {}
       /\ SyncCart(n, gone)
  \/ \E c \in Items : RemoveCartItem(c) \/ (\E n \in Names : RenameCartItem(c, n))
  \/ \E h \in Handlers : \/ \E x \in SUBSET InCart, m \in {None} \cup InCart : CompleteRead(h, x, m)
                         \/ CompleteWrite(h)

Fridge ==
  \/ \E n \in Names : CreateFridgeItem(n)
  \/ \E s \in Stock, n \in Names : RenameFridgeItem(s, n)
  \/ \E h \in Handlers, gone \in SUBSET InFridge, b \in BOOLEAN : ConsumeRead(h, gone, b)
  \/ \E h \in Handlers : \/ ConsumeDelete(h) \/ RestockLook(h) \/ RestockCreate(h)
                         \/ RestockDone(h) \/ RestockCut(h)
  \/ \E p \in Storages : DeleteStorage(p)
  \/ \E f \in Frequents : \/ DeleteFrequent(f)
                          \/ \E n \in Names, a \in BOOLEAN : SetFrequent(f, n, a)

Next == Cart \/ Fridge

Spec == Init /\ [][Next]_vars

-----------------------------------------------------------------------------
Link == {None} \cup Frequents

CartItem   == [name : Names, frequent : Link]
FridgeItem == [name : Names, frequent : Link, storage : storages]
Entry      == [name : Names, frequent : Frequents]

Completion ==
  [op : {"complete"}, stage : {"read"}, excluded : SUBSET Items,
   items : UNION {[S -> CartItem] : S \in SUBSET Items}, moved : {None} \cup CartItem]
Consumption ==
  [op : {"consume"}, stage : {"read", "restock"}, gone : SUBSET Stock, bulk : BOOLEAN,
   todo : SUBSET Entry, next : {None}]
  \cup [op : {"consume"}, stage : {"create"}, gone : SUBSET Stock, bulk : BOOLEAN,
        todo : SUBSET Entry, next : Entry]

\* What the theorems assume of the constants.
ConstantsAssumption ==
  /\ None \notin [name : Names, autoAdd : BOOLEAN]
  /\ MaxItems \in Nat /\ MaxStock \in Nat /\ MaxRequests \in Nat /\ MaxFaults \in Nat

TypeOK ==
  /\ cart \in [Items -> {None} \cup CartItem]
  /\ fridge \in [Stock -> {None} \cup FridgeItem]
  /\ frequent \in [Frequents -> {None} \cup [name : Names, autoAdd : BOOLEAN]]
  /\ storages \subseteq Storages
  /\ carts \in 0..MaxItems /\ stocked \in 0..MaxStock
  /\ request \in [Handlers -> {None} \cup Completion \cup Consumption]
  /\ requests \in 0..MaxRequests /\ faults \in 0..MaxFaults
  /\ bought \in [Items -> Nat]
  /\ emptied \subseteq Items /\ late \subseteq Items /\ twice \subseteq Items

\* What a completion takes out of the cart was recorded as bought, once, and what
\* it excludes stays and is not recorded: but for items that came into the cart
\* after the completion had read it, and items that two completions read
\* (completeShopping; syncCartItems and the restock of deleteFridgeItem put items
\* in meanwhile).
BoughtOnce ==
  \A c \in Items :
    /\ c \in emptied \ late => bought[c] > 0
    /\ c \notin twice => bought[c] <= 1

=============================================================================
