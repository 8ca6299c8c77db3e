--------------------------- MODULE PaymasterQueue --------------------------
(***************************************************************************)
(* The offline queue of the client SDK (client/src/queue.ts).  The queue   *)
(* is an array in localStorage, shared by the pages (tabs) of an origin;   *)
(* each page has its own isFlushing flag and, while it flushes, its own    *)
(* copy of the items it found, with their retry counts.  The code of a     *)
(* page runs one handler at a time, but every change of the array is a     *)
(* getItem and a later setItem, and the pages share no lock: each access   *)
(* is a step of its own, so that another page may write in between.  The   *)
(* network, the age of an item, the closing and opening of pages, a full   *)
(* store and the callbacks given by the user are external.                 *)
(***************************************************************************)
EXTENDS Integers, Sequences, FiniteSets, Subsequences

CONSTANTS Tabs, Items, maxRetries,
          MaxPageFaults        \* bound: pages closed, writes and callbacks that throw

ASSUME OfflineQueueAssumption == maxRetries \in Nat \ {0} /\ MaxPageFaults \in Nat

VARIABLES storage,      \* the array: [id, retryCount]
          online,
          tab,          \* tab[t]: [at, isFlushing, todo, sending, copy]
          onlineEvent,  \* pages that are to handle an "online" event
          saved,        \* history: items whose add() wrote the array
          exposed,      \* history: items saved while another page was about to write
          tries,        \* history: tries[i], requests for i that ended in the catch block
          settled,      \* history: items that succeeded, failed, expired or were cleared
          pageFaults

pqVars == <<storage, online, tab, onlineEvent, saved, exposed, tries, settled, pageFaults>>

\* Between tasks a page is "idle", perhaps with a request under way (sending); at a
\* member of Writes it has read the array and is about to write copy.
Writes == {"save", "expire", "succeed", "giveUp", "retry"}
Writing(t) == tab[t].at \in Writes
NotFlushing == [at |-> "idle", isFlushing |-> FALSE, todo |-> <<>>, sending |-> FALSE, copy |-> <<>>]

\* Page t in another stage of its code, with the rest of its flush as it is.
PageAt(t, stage, request, array) ==
    [at |-> stage, isFlushing |-> tab[t].isFlushing, todo |-> tab[t].todo, sending |-> request, copy |-> array]

\* A page that flushes the items q.
Flushing(stage, q, request) ==
    [at |-> stage, isFlushing |-> TRUE, todo |-> q, sending |-> request, copy |-> <<>>]

\* flush() has no finally: an error leaves isFlushing set, for as long as the page lives.
Dead == Flushing("idle", <<>>, FALSE)

PQInit ==
    /\ storage = <<>> /\ online \in BOOLEAN
    /\ tab = [t \in Tabs |-> NotFlushing] /\ onlineEvent = {}
    /\ saved = {} /\ exposed = {} /\ settled = {} /\ pageFaults = 0
    /\ tries = [i \in Items |-> 0]

Page(t, r) == tab' = [tab EXCEPT ![t] = r]
PageFault == pageFaults < MaxPageFaults /\ pageFaults' = pageFaults + 1

\* The flush of page t goes on with the items q: the first is sent, or it is past
\* AGE_LIMIT_MS (of any age here), or there is none.
FlushGoesOn(t, q) ==
    \/ Page(t, Flushing("item", q, FALSE))
    \/ q # <<>> /\ Page(t, Flushing("idle", q, TRUE))

\* flush() of a page in state r: skipped while flushing and on an empty array.
FlushTo(t, r) ==
    IF r.isFlushing \/ storage = <<>> THEN Page(t, [r EXCEPT !.at = "idle"]) ELSE FlushGoesOn(t, storage)

Saving(t) == tab[t].copy[Len(tab[t].copy)].id

\* add(), of an item with an id of its own, up to the getItem of saveToStorage.
add(t, i) ==
    /\ tab[t].at = "idle" /\ i \notin saved
    /\ \A u \in Tabs : tab[u].at = "save" => Saving(u) # i
    /\ Page(t, PageAt(t, "save", tab[t].sending, Append(storage, [id |-> i, retryCount |-> 0])))
    /\ UNCHANGED <<storage, online, onlineEvent, saved, exposed, tries, settled, pageFaults>>

\* Its setItem; when that throws, add() does.
saveToStorage(t) ==
    LET i == Saving(t) IN
    /\ tab[t].at = "save"
    /\ \/ /\ storage' = tab[t].copy /\ saved' = saved \cup {i}
          /\ exposed' = IF \E u \in Tabs \ {t} : Writing(u) THEN exposed \cup {i} ELSE exposed
          /\ Page(t, PageAt(t, IF online /\ ~tab[t].isFlushing THEN "flush" ELSE "idle", tab[t].sending, <<>>))
          /\ UNCHANGED pageFaults
       \/ /\ PageFault /\ Page(t, PageAt(t, "idle", tab[t].sending, <<>>))
          /\ UNCHANGED <<storage, saved, exposed>>
    /\ UNCHANGED <<online, onlineEvent, tries, settled>>

\* The flush() of add().
flush(t) ==
    /\ tab[t].at = "flush" /\ FlushTo(t, tab[t])
    /\ UNCHANGED <<storage, online, onlineEvent, saved, exposed, tries, settled, pageFaults>>

GoOffline ==
    /\ online /\ online' = FALSE
    /\ UNCHANGED <<storage, tab, onlineEvent, saved, exposed, tries, settled, pageFaults>>

GoOnline ==
    /\ ~online /\ online' = TRUE /\ onlineEvent' = Tabs
    /\ UNCHANGED <<storage, tab, saved, exposed, tries, settled, pageFaults>>

onOnline(t) ==
    /\ tab[t].at = "idle" /\ t \in onlineEvent /\ onlineEvent' = onlineEvent \ {t}
    /\ FlushTo(t, tab[t])
    /\ UNCHANGED <<storage, online, saved, exposed, tries, settled, pageFaults>>

Item(t) == Head(tab[t].todo)

\* Mutant: the page writes back its own copy of the array.
RemoveFromCopy(t, i) == Picked(tab[t].todo, {k \in DOMAIN tab[t].todo : tab[t].todo[k].id # i})

\* What removeFromStorage and updateInStorage write, from the array they read.
RemoveFrom(t, i) == Picked(storage, {k \in DOMAIN storage : storage[k].id # i})

UpdateIn(x) == [k \in DOMAIN storage |-> IF storage[k].id = x.id THEN x ELSE storage[k]]

\* processItem of an item past AGE_LIMIT_MS, which is removed without a callback.
processItem(t) ==
    /\ tab[t].at = "item" /\ tab[t].todo # <<>>
    /\ Page(t, PageAt(t, "expire", FALSE, RemoveFrom(t, Item(t).id)))
    /\ UNCHANGED <<storage, online, onlineEvent, saved, exposed, tries, settled, pageFaults>>

requestSucceeds(t) ==
    /\ tab[t].at = "idle" /\ tab[t].sending
    /\ Page(t, PageAt(t, "succeed", FALSE, RemoveFrom(t, Item(t).id)))
    /\ UNCHANGED <<storage, online, onlineEvent, saved, exposed, tries, settled, pageFaults>>

\* Mutant: the retry that is being recorded is counted twice.
GivesUpEarly(n) == n + 1 >= maxRetries

OutOfRetries(n) == n >= maxRetries

\* The catch block up to its getItem: one more retry on this page's copy of the item,
\* which is then to be written to the array or removed from it.
Caught(t) ==
    LET x == [Item(t) EXCEPT !.retryCount = @ + 1] IN
    /\ tries' = [tries EXCEPT ![x.id] = IF @ < maxRetries THEN @ + 1 ELSE @]
    /\ IF OutOfRetries(x.retryCount)
       THEN Page(t, PageAt(t, "giveUp", FALSE, RemoveFrom(t, x.id)))
       ELSE Page(t, PageAt(t, "retry", FALSE, UpdateIn(x)))

requestFails(t) ==
    /\ tab[t].at = "idle" /\ tab[t].sending /\ Caught(t)
    /\ UNCHANGED <<storage, online, onlineEvent, saved, exposed, settled, pageFaults>>

NextItem(t) == FlushGoesOn(t, Tail(tab[t].todo))

\* The setItem of updateInStorage.
updateInStorage(t) ==
    /\ tab[t].at = "retry"
    /\ \/ storage' = tab[t].copy /\ NextItem(t) /\ UNCHANGED pageFaults
       \/ PageFault /\ Page(t, Dead) /\ UNCHANGED storage
    /\ UNCHANGED <<online, onlineEvent, saved, exposed, tries, settled>>

\* The setItem of removeFromStorage, for an item that expired, succeeded or failed
\* for the last time.  onSuccess and onError are called after it, and may throw:
\* onSuccess inside the try block.
removeFromStorage(t) ==
    /\ tab[t].at \in {"expire", "succeed", "giveUp"}
    /\ storage' = tab[t].copy /\ settled' = settled \cup {Item(t).id}
    /\ \/ NextItem(t) /\ UNCHANGED pageFaults
       \/ /\ tab[t].at # "expire" /\ PageFault
          /\ Page(t, IF tab[t].at = "succeed" THEN PageAt(t, "catch", FALSE, <<>>) ELSE Dead)
    /\ UNCHANGED <<online, onlineEvent, saved, exposed, tries>>

\* That setItem throws: inside the try block it counts as a failed request, elsewhere
\* it ends the flush.
RemoveThrows(t) ==
    /\ tab[t].at \in {"expire", "succeed", "giveUp"} /\ PageFault
    /\ IF tab[t].at = "succeed" THEN Caught(t) ELSE Page(t, Dead) /\ UNCHANGED tries
    /\ UNCHANGED <<storage, online, onlineEvent, saved, exposed, settled>>

\* onSuccess threw.
OnSuccessThrew(t) ==
    /\ tab[t].at = "catch" /\ Caught(t)
    /\ UNCHANGED <<storage, online, onlineEvent, saved, exposed, settled, pageFaults>>

\* The end of flush(): onQueueCleared, called on an empty array, may throw.
FlushEnds(t) ==
    /\ tab[t].at = "item" /\ tab[t].todo = <<>>
    /\ \/ Page(t, NotFlushing) /\ UNCHANGED pageFaults
       \/ storage = <<>> /\ PageFault /\ Page(t, Dead)
    /\ UNCHANGED <<storage, online, onlineEvent, saved, exposed, tries, settled>>

clear(t) ==
    /\ tab[t].at = "idle" /\ storage # <<>> /\ storage' = <<>>
    /\ settled' = settled \cup {storage[k].id : k \in DOMAIN storage}
    /\ UNCHANGED <<online, tab, onlineEvent, saved, exposed, tries, pageFaults>>

\* The page is closed, in the middle of a request or of a change perhaps, and opened
\* again: the constructor flushes when online.
Reload(t) ==
    /\ PageFault /\ onlineEvent' = onlineEvent \ {t}
    /\ IF online THEN FlushTo(t, NotFlushing) ELSE Page(t, NotFlushing)
    /\ UNCHANGED <<storage, online, saved, exposed, tries, settled>>

ItemStep(t) ==
    \/ saveToStorage(t) \/ flush(t) \/ processItem(t) \/ requestSucceeds(t) \/ requestFails(t)
    \/ updateInStorage(t) \/ removeFromStorage(t) \/ RemoveThrows(t) \/ OnSuccessThrew(t) \/ FlushEnds(t)

PQNext ==
    \/ GoOffline \/ GoOnline
    \/ \E i \in Items, t \in Tabs : add(t, i)
    \/ \E t \in Tabs : onOnline(t) \/ ItemStep(t) \/ clear(t) \/ Reload(t)

\* A page that stays open handles its events and goes on with its flush.
PQSpec ==
    /\ PQInit /\ [][PQNext]_pqVars
    /\ \A t \in Tabs : WF_pqVars(onOnline(t)) /\ WF_pqVars(ItemStep(t))
-----------------------------------------------------------------------------
PQTypeOK ==
    /\ \A k \in DOMAIN storage : storage[k].id \in Items /\ storage[k].retryCount \in 0 .. maxRetries
    /\ \A t \in Tabs : /\ tab[t].sending => tab[t].todo # <<>>
                       /\ tab[t].at \in Writes \cup {"idle", "flush", "item", "catch"}
    /\ onlineEvent \subseteq Tabs /\ settled \subseteq saved /\ saved \subseteq Items

Queued(i) == \E k \in DOMAIN storage : storage[k].id = i

\* An item is lost only when it was saved while another page was between its read
\* and its write of the array: any other is in the array, or it succeeded, ran out
\* of retries, expired or was cleared, whatever pages flush the same array, throw
\* or are closed at any moment.
NoItemVanishes ==
    \A i \in saved : Queued(i) \/ i \in settled \/ i \in exposed

\* An item is given up, and onError called, after at least maxRetries requests for
\* it that failed or whose removal or onSuccess threw, also when two pages count
\* retries on copies of their own and overwrite each other's counts.  (The history
\* stops there.)
ErrorAfterAllRetries ==
    \A t \in Tabs : tab[t].at = "giveUp" => tries[Item(t).id] = maxRetries

\* As long as a page whose flush did not throw hears again and again that the
\* network is back, every queued item leaves.
IsDead(t) == tab[t] = Dead
QueueDrains ==
    \A i \in Items :
      []<>(\E t \in onlineEvent : ~IsDead(t)) => (Queued(i) ~> ~Queued(i))

\* Two pages on one array give no item up too early, and lose one only to a write
\* that raced with its own.
PQInv == PQTypeOK /\ NoItemVanishes /\ ErrorAfterAllRetries
=============================================================================
