-------------------------------- MODULE OsalNv --------------------------------
(***************************************************************************)
(* The non-volatile memory of the OSAL (osal/mcu/cc2530/OSAL_Nv.c): items  *)
(* kept in pages of flash in which a bit can be cleared at any time but    *)
(* set only by erasing the whole page.  An item is never changed in place: *)
(* a new copy is appended and the old one is marked (its stat is cleared)  *)
(* and then zeroed (its id is cleared).  One page is kept in reserve, and  *)
(* a page with enough lost room is compacted onto it.                      *)
(*                                                                         *)
(* The power may fail between any two words that are written and while a   *)
(* word or a page is; osal_nv_init then has to make sense of what it       *)
(* finds.  Every action writes at most one thing in flash that a restart   *)
(* can tell apart: an item's data and its checksum are one action, for an  *)
(* item whose data or checksum is not complete has a bad checksum either   *)
(* way.                                                                    *)
(*                                                                         *)
(* Sizes count units of flash, headers included.  A flash that fails while *)
(* the voltage is good, and checksums that agree by accident, are left out.*)
(***************************************************************************)
EXTENDS Naturals, Sequences

CONSTANTS
    Items,      \* the ids in use, below 0x8000
    Values,     \* what an item can hold
    Missing,    \* what is read of an item that does not exist
    Erased,     \* the data of an item whose checksum does not match
    Zeroed,     \* the id of an item that was invalidated
    Torn,       \* an item header whose len was not completely written
    NumPages,   \* OSAL_NV_PAGES_USED
    PageSize,   \* the units of a page, its header left out
    Size,       \* the units of each item, its header included
    HotIds,     \* hotIds: the items whose place is kept in RAM
    TornErases  \* how far an erase that is interrupted may have got

ASSUME PagesAssumption == NumPages \in Nat /\ NumPages >= 2 /\ PageSize \in Nat
ASSUME SizeAssumption == Size \in [Items -> 1 .. PageSize]
ASSUME ValuesAssumption ==
    /\ Missing \notin Values \cup Items /\ Erased \notin Values
    /\ Zeroed \notin Items /\ Torn \notin Items /\ Zeroed # Torn
    /\ HotIds \subseteq Items /\ TornErases \subseteq {"header", "xfer"}

Pages == 1 .. NumPages
NoPage == 0   \* OSAL_NV_PAGE_NULL

VARIABLES
    flash,    \* each page: is its header's active or xfer cleared, and its items
    pgOff,    \* RAM: the first unused unit of each page
    pgLost,   \* RAM: the units of each page's zeroed items
    pgRes,    \* RAM: the reserve page
    hot,      \* RAM: where each hot item is, or NoPlace
    pc,       \* what osal_nv_ code does next
    op,       \* the operation and its locals
    scan      \* the locals of initNV's walk: findDups, page, item, lost

vars == <<flash, pgOff, pgLost, pgRes, hot, pc, op, scan>>

--------------------------------------------------------------------------------
(* What the flash holds. *)

Blank == [active |-> FALSE, xfer |-> FALSE, items |-> <<>>]

Header(id) == [id |-> id, len |-> Size[id], val |-> Erased, old |-> FALSE]
TornHeader == [id |-> Torn, len |-> 0, val |-> Erased, old |-> FALSE]
Zero(it) == [id |-> Zeroed, len |-> it.len, val |-> Erased, old |-> FALSE]

Live(it) == it.id \in Items
Good(it) == Live(it) /\ it.val # Erased   \* its checksum matches

(* The places of items, in the order in which initPage and findItem walk them. *)
Place == UNION {{p} \X (1 .. Len(flash[p].items)) : p \in Pages}
NoPlace == <<NoPage, 0>>
Before(a, b) == a[1] < b[1] \/ (a[1] = b[1] /\ a[2] < b[2])
First(S) == IF S = {} THEN NoPlace
            ELSE CHOOSE a \in S : \A b \in S \ {a} : Before(a, b)
At(a) == flash[a[1]].items[a[2]]

(* The sum of a sequence of numbers. *)
Total(s) == LET sum[i \in 0 .. Len(s)] == IF i = 0 THEN 0 ELSE sum[i - 1] + s[i]
            IN sum[Len(s)]
LenOf(items) == Total([i \in DOMAIN items |-> items[i].len])
LenOfZeroed(items) ==
    Total([i \in DOMAIN items |-> IF items[i].id = Zeroed THEN items[i].len ELSE 0])
IsTorn(items) == \E i \in DOMAIN items : items[i].id = Torn
(* A bad len blows away the rest of the page. *)
Used(items) == IF IsTorn(items) THEN PageSize ELSE LenOf(items)
Lost(items) == LenOfZeroed(items) + IF IsTorn(items) THEN PageSize - LenOf(items) ELSE 0

(* findItem with the MSB of the id set: the copy that a write has marked old. *)
FindOld(id) == First({a \in Place : At(a).id = id /\ At(a).old})
(* findItem: the first copy that is not old, else the old one. *)
FindItem(id) ==
    LET new == First({a \in Place : At(a).id = id /\ ~At(a).old})
    IN IF new # NoPlace THEN new ELSE FindOld(id)

(* osal_nv_read of an item that is not hot. *)
Read(id) == LET a == FindItem(id)
            IN IF a = NoPlace THEN Missing ELSE At(a).val

WithItem(a, it) == [flash EXCEPT ![a[1]].items[a[2]] = it]
Appended(p, it) == [flash EXCEPT ![p].items = Append(@, it)]
LastOf(p) == <<p, Len(flash[p].items)>>

--------------------------------------------------------------------------------
NoOp == [kind |-> "none", id |-> Missing, val |-> Missing,
         src |-> NoPlace, com |-> NoPage, dst |-> NoPage, k |-> 0]
NoScan == [dups |-> FALSE, pg |-> 1, i |-> 1, lost |-> 0]
NoneHot == [id \in HotIds |-> NoPlace]
AllZero == [p \in Pages |-> 0]

(* hotItemUpdate *)
HotItemUpdate(id, a) == IF id \in HotIds THEN [hot EXCEPT ![id] = a] ELSE hot

Init ==
    /\ flash = [p \in Pages |-> Blank]
    /\ pgOff = AllZero /\ pgLost = AllZero /\ pgRes = NoPage
    /\ hot = NoneHot /\ pc = "boot" /\ op = NoOp /\ scan = NoScan

--------------------------------------------------------------------------------
(* Operations: osal_nv_item_init, osal_nv_write, osal_nv_delete. *)

Fits(id, p) == Size[id] <= PageSize - pgOff[p]

(* initItem: the first page after the reserve page with room enough, the room that
   compacting the page would gain included. *)
RoomFor(id) == {p \in Pages \ {pgRes} : Size[id] <= PageSize - pgOff[p] + pgLost[p]}
Turn(p) == (p + NumPages - pgRes - 1) % NumPages
PageFor(id) == CHOOSE p \in RoomFor(id) : \A q \in RoomFor(id) : Turn(p) <= Turn(q)

(* initItem up to its first write.  With no room the operation returns NV_OPER_FAILED
   and has changed nothing. *)
InitItem(kind, id, v, src) ==
    /\ RoomFor(id) # {}
    /\ LET p == PageFor(id)
           fits == Fits(id, p)
       IN /\ op' = [kind |-> kind, id |-> id, val |-> v, src |-> src,
                    com |-> IF fits THEN NoPage ELSE p,
                    dst |-> IF fits THEN p ELSE pgRes, k |-> 1]
          /\ pc' = IF fits THEN "header" ELSE "markPage"
    /\ UNCHANGED <<flash, pgOff, pgLost, pgRes, hot, scan>>

ItemInitFinds(id) ==
    /\ pc = "idle" /\ FindItem(id) # NoPlace
    /\ hot' = HotItemUpdate(id, FindItem(id))
    /\ UNCHANGED <<flash, pgOff, pgLost, pgRes, pc, op, scan>>

ItemInit(id, v) ==
    /\ pc = "idle" /\ FindItem(id) = NoPlace
    /\ InitItem("init", id, v, NoPlace)

(* A write of what the item already holds returns at once. *)
Write(id, v) ==
    /\ pc = "idle" /\ FindItem(id) # NoPlace /\ Read(id) # v
    /\ InitItem("write", id, v, FindItem(id))

(* setItem with eNvZero, which is all that osal_nv_delete writes. *)
Delete(id) ==
    LET a == FindItem(id)
    IN /\ pc = "idle" /\ a # NoPlace
       /\ flash' = WithItem(a, Zero(At(a)))
       /\ pgLost' = [pgLost EXCEPT ![a[1]] = @ + At(a).len]
       /\ UNCHANGED <<pgOff, pgRes, hot, pc, op, scan>>

(* The page to be compacted is marked as such. *)
MarkPage ==
    /\ pc = "markPage"
    /\ flash' = [flash EXCEPT ![op.com].xfer = TRUE]
    /\ pc' = "compact"
    /\ UNCHANGED <<pgOff, pgLost, pgRes, hot, op, scan>>

--------------------------------------------------------------------------------
(* compactPage(op.com, op.id): every valid item but the one being written is marked
   old and copied to the reserve page. *)

ToCopy == {i \in op.k .. Len(flash[op.com].items) :
              LET it == flash[op.com].items[i] IN Good(it) /\ it.id # op.id}
Next1(S) == CHOOSE i \in S : \A j \in S : i <= j
Source == <<op.com, Next1(ToCopy)>>

CompactMark ==
    /\ pc = "compact" /\ ToCopy # {} /\ ~At(Source).old
    /\ flash' = WithItem(Source, [At(Source) EXCEPT !.old = TRUE])
    /\ UNCHANGED <<pgOff, pgLost, pgRes, hot, pc, op, scan>>

CompactHeader ==
    /\ pc = "compact" /\ ToCopy # {} /\ At(Source).old
    /\ flash' = Appended(pgRes, Header(At(Source).id))
    /\ pgOff' = [pgOff EXCEPT ![pgRes] = @ + At(Source).len]
    /\ pc' = "copy"
    /\ UNCHANGED <<pgLost, pgRes, hot, op, scan>>

CompactData ==
    /\ pc = "copy"
    /\ flash' = WithItem(LastOf(pgRes), [At(LastOf(pgRes)) EXCEPT !.val = At(Source).val])
    /\ hot' = HotItemUpdate(At(Source).id, LastOf(pgRes))
    /\ op' = [op EXCEPT !.k = Source[2] + 1]
    /\ pc' = "compact"
    /\ UNCHANGED <<pgOff, pgLost, pgRes, scan>>

(* initNV cleans up at once; initItem writes its new item first. *)
CompactEnds ==
    /\ pc = "compact" /\ ToCopy = {}
    /\ pc' = IF op.kind = "boot" THEN "use" ELSE "header"
    /\ UNCHANGED <<flash, pgOff, pgLost, pgRes, hot, op, scan>>

--------------------------------------------------------------------------------
(* The new copy, and what follows it. *)

(* A slip for WriteHeader: the old copy is not marked. *)
WriteHeaderUnmarked ==
    /\ pc = "header"
    /\ flash' = Appended(op.dst, Header(op.id))
    /\ pgOff' = [pgOff EXCEPT ![op.dst] = @ + Size[op.id]]
    /\ pc' = "data"
    /\ UNCHANGED <<pgLost, pgRes, hot, op, scan>>

WriteHeader ==
    /\ pc = "header"
    /\ flash' = Appended(op.dst, Header(op.id))
    /\ pgOff' = [pgOff EXCEPT ![op.dst] = @ + Size[op.id]]
    /\ pc' = IF op.kind = "write" THEN "markSource" ELSE "data"
    /\ UNCHANGED <<pgLost, pgRes, hot, op, scan>>

MarkSource ==
    /\ pc = "markSource"
    /\ flash' = WithItem(op.src, [At(op.src) EXCEPT !.old = TRUE])
    /\ pc' = "data"
    /\ UNCHANGED <<pgOff, pgLost, pgRes, hot, op, scan>>

Ends == pc' = "idle" /\ op' = NoOp

(* The old copy is zeroed last, and not at all when its page was erased. *)
ThenZeroes ==
    IF op.kind = "write" /\ op.src[1] # op.com THEN pc' = "zero" /\ UNCHANGED op ELSE Ends

WriteData ==
    /\ pc = "data"
    /\ flash' = WithItem(LastOf(op.dst), [At(LastOf(op.dst)) EXCEPT !.val = op.val])
    /\ hot' = HotItemUpdate(op.id, LastOf(op.dst))
    /\ IF op.com # NoPage THEN pc' = "use" /\ UNCHANGED op ELSE ThenZeroes
    /\ UNCHANGED <<pgOff, pgLost, pgRes, scan>>

ZeroSource ==
    /\ pc = "zero"
    /\ flash' = WithItem(op.src, Zero(At(op.src)))
    /\ pgLost' = [pgLost EXCEPT ![op.src[1]] = @ + At(op.src).len]
    /\ Ends
    /\ UNCHANGED <<pgOff, pgRes, hot, scan>>

(* COMPACT_PAGE_CLEANUP: the reserve page is put in use, then the compacted page
   is erased and becomes the reserve page. *)
PutInUse ==
    /\ pc = "use"
    /\ flash' = [flash EXCEPT ![pgRes].active = TRUE]
    /\ pc' = "erase"
    /\ UNCHANGED <<pgOff, pgLost, pgRes, hot, op, scan>>

ErasePage(p) ==
    /\ flash' = [flash EXCEPT ![p] = Blank]
    /\ pgOff' = [pgOff EXCEPT ![p] = 0]
    /\ pgLost' = [pgLost EXCEPT ![p] = 0]

EraseCompacted ==
    /\ pc = "erase"
    /\ ErasePage(op.com)
    /\ pgRes' = op.com
    /\ IF op.kind = "boot" THEN pc' = "scan" /\ UNCHANGED op ELSE ThenZeroes
    /\ UNCHANGED <<hot, scan>>

--------------------------------------------------------------------------------
(* initNV *)

InErasedState == {p \in Pages : ~flash[p].active}
MarkedPages == {p \in Pages : flash[p].active /\ flash[p].xfer}
Last1(S) == CHOOSE i \in S : \A j \in S : j <= i

(* Of the pages whose header is erased the first is the reserve page, and the
   others are put in use. *)
BootUses ==
    /\ pc = "boot" /\ \E p, q \in InErasedState : p # q
    /\ LET p == Next1(InErasedState \ {Next1(InErasedState)})
       IN flash' = [flash EXCEPT ![p].active = TRUE]
    /\ UNCHANGED <<pgOff, pgLost, pgRes, hot, pc, op, scan>>

(* A slip for BootHeaders: a reserve page is taken to be clean. *)
BootHeadersTrusting ==
    /\ pc = "boot" /\ \A p, q \in InErasedState : p = q
    /\ pgRes' = IF InErasedState = {} THEN NoPage ELSE Next1(InErasedState)
    /\ op' = [NoOp EXCEPT !.kind = "boot", !.k = 1,
                          !.com = IF MarkedPages = {} THEN NoPage ELSE Last1(MarkedPages)]
    /\ pc' = CASE InErasedState # {} /\ MarkedPages # {} -> "eraseRes"
               [] InErasedState = {} /\ MarkedPages # {} -> "erase"
               [] OTHER -> "scan"
    /\ UNCHANGED <<flash, pgOff, pgLost, hot, scan>>

BootHeaders ==
    /\ pc = "boot" /\ \A p, q \in InErasedState : p = q
    /\ pgRes' = IF InErasedState = {} THEN NoPage ELSE Next1(InErasedState)
    /\ op' = [NoOp EXCEPT !.kind = "boot", !.k = 1,
                          !.com = IF MarkedPages = {} THEN NoPage ELSE Last1(MarkedPages)]
    /\ pc' = CASE InErasedState # {} -> "eraseRes"
               [] InErasedState = {} /\ MarkedPages # {} -> "erase"
               [] OTHER -> "scan"
    /\ UNCHANGED <<flash, pgOff, pgLost, hot, scan>>

EraseReserve ==
    /\ pc = "eraseRes"
    /\ ErasePage(pgRes)
    /\ CASE op.kind = "pick" -> Ends
         [] op.kind = "boot" /\ op.com # NoPage -> pc' = "compact" /\ UNCHANGED op
         [] OTHER -> pc' = "scan" /\ UNCHANGED op
    /\ UNCHANGED <<pgRes, hot, scan>>

(* initNV's walk through all pages by initPage: bad items are zeroed, and once an
   old item was found the walk starts again and zeroes the old copy of every item
   that has a newer one. *)
ScanAt == <<scan.pg, scan.i>>
(* A slip for ScanEndOfPage: the last item is left out. *)
ScanEndOfPageEarly == LET items == flash[scan.pg].items
                      IN scan.i \notin {i \in DOMAIN items : i # Len(items)}
ScanEndOfPage == LET items == flash[scan.pg].items
                 IN scan.i \notin {i \in DOMAIN items : items[i].id # Torn}
(* A slip for StartAgain: findDups is not set. *)
StartAgainPlain == scan' = NoScan
StartAgain == scan' = [NoScan EXCEPT !.dups = TRUE]
Duplicated(it) == scan.dups /\ ~it.old /\ FindOld(it.id) # NoPlace
NextItem(lost) == scan' = [scan EXCEPT !.i = @ + 1, !.lost = @ + lost]

ScanItem ==
    /\ pc = "scan" /\ scan.pg \in Pages /\ ~ScanEndOfPage
    /\ UNCHANGED <<pgOff, pgRes, hot, pc, op>>
    /\ LET it == At(ScanAt)
       IN \/ /\ it.id = Zeroed
             /\ NextItem(it.len)
             /\ UNCHANGED <<flash, pgLost>>
          \/ /\ Live(it) /\ ~Good(it)   \* mark a bad checksum as invalid
             /\ flash' = WithItem(ScanAt, Zero(it))
             /\ pgLost' = [pgLost EXCEPT ![scan.pg] = @ + it.len]
             /\ NextItem(it.len)
          \/ /\ Good(it) /\ Duplicated(it)
             /\ flash' = WithItem(FindOld(it.id), Zero(it))
             /\ pgLost' = [pgLost EXCEPT ![FindOld(it.id)[1]] = @ + it.len]
             /\ NextItem(0)
          \/ /\ Good(it) /\ ~Duplicated(it) /\ (scan.dups \/ ~it.old)
             /\ NextItem(0)
             /\ UNCHANGED <<flash, pgLost>>
          \/ /\ Good(it) /\ ~scan.dups /\ it.old
             /\ StartAgain
             /\ UNCHANGED <<flash, pgLost>>

ScanPage ==
    /\ pc = "scan" /\ scan.pg \in Pages /\ ScanEndOfPage
    /\ LET items == flash[scan.pg].items
       IN /\ pgOff' = [pgOff EXCEPT ![scan.pg] = Used(items)]
          /\ pgLost' = [pgLost EXCEPT ![scan.pg] =
                            scan.lost + IF IsTorn(items) THEN PageSize - LenOf(items) ELSE 0]
    /\ scan' = [scan EXCEPT !.pg = @ + 1, !.i = 1, !.lost = 0]
    /\ UNCHANGED <<flash, pgRes, hot, pc, op>>

(* The final pass calls initPage without findDups: on a page with an old item left
   it returns before it stores what it counted. *)
HasOld(p) == \E i \in DOMAIN flash[p].items :
                LET it == flash[p].items[i] IN Good(it) /\ it.old
Counted(p) == IF scan.dups /\ ~HasOld(p) THEN Lost(flash[p].items) ELSE pgLost[p]

MostLost == CHOOSE p \in Pages :
                \A q \in Pages \ {p} : \/ Counted(p) > Counted(q)
                                       \/ Counted(p) = Counted(q) /\ p < q

(* Without a reserve page the one with the most lost room is taken for it. *)
ScanEnds ==
    /\ pc = "scan" /\ scan.pg \notin Pages
    /\ pgLost' = [p \in Pages |-> Counted(p)]
    /\ scan' = NoScan
    /\ IF pgRes # NoPage
       THEN Ends /\ UNCHANGED pgRes
       ELSE /\ pgRes' = MostLost
            /\ pc' = "eraseRes" /\ op' = [op EXCEPT !.kind = "pick"]
    /\ UNCHANGED <<flash, pgOff, hot>>

--------------------------------------------------------------------------------
(* A reset or a power failure.  A page whose erasing it interrupts may be as it was,
   or have lost its header, or the xfer word of it; a header that was being written
   may have a bad len. *)
Erasing == CASE pc = "erase" -> {op.com} [] pc = "eraseRes" -> {pgRes} [] OTHER -> {}

Interrupted ==
    {flash}
      \cup {[flash EXCEPT ![p].active = FALSE, ![p].xfer = FALSE] :
              p \in IF "header" \in TornErases THEN Erasing ELSE {}}
      \cup {[flash EXCEPT ![p].xfer = FALSE] :
              p \in IF "xfer" \in TornErases THEN Erasing ELSE {}}
      \cup {Appended(op.dst, TornHeader) : x \in IF pc = "header" THEN {0} ELSE {}}

Reset ==
    /\ flash' \in Interrupted
    /\ pgOff' = AllZero /\ pgLost' = AllZero /\ pgRes' = NoPage
    /\ hot' = NoneHot /\ pc' = "boot" /\ op' = NoOp /\ scan' = NoScan

Boot == BootUses \/ BootHeaders \/ EraseReserve \/ ScanItem \/ ScanPage \/ ScanEnds
Compaction == CompactMark \/ CompactHeader \/ CompactData \/ CompactEnds
              \/ PutInUse \/ EraseCompacted
NewCopy == MarkPage \/ WriteHeader \/ MarkSource \/ WriteData \/ ZeroSource
Calls == \E id \in Items : \/ ItemInitFinds(id) \/ Delete(id)
                           \/ \E v \in Values : ItemInit(id, v) \/ Write(id, v)

Next == Calls \/ NewCopy \/ Compaction \/ Boot \/ Reset

Spec == Init /\ [][Next]_vars

(* osal_nv_ functions run to their end when the power stays on. *)
Runs == NewCopy \/ Compaction \/ Boot
FairSpec == Spec /\ WF_vars(Runs)

--------------------------------------------------------------------------------
(* Properties. *)

(* Type correctness; no page is written past its end. *)
TypeOK ==
    /\ flash \in [Pages -> [active : BOOLEAN, xfer : BOOLEAN,
                            items : Seq([id : Items \cup {Zeroed, Torn}, len : 0 .. PageSize,
                                         val : Values \cup {Erased}, old : BOOLEAN])]]
    /\ \A p \in Pages : Used(flash[p].items) <= PageSize /\ LenOf(flash[p].items) <= PageSize
    /\ pgOff \in [Pages -> 0 .. PageSize] /\ pgLost \in [Pages -> 0 .. PageSize]
    /\ pgRes \in Pages \cup {NoPage}
    /\ hot \in [HotIds -> (Pages \X Nat) \cup {NoPlace}]
    /\ pc \in {"idle", "markPage", "compact", "copy", "header", "markSource", "data",
               "use", "erase", "zero", "boot", "eraseRes", "scan"}
    /\ scan.pg \in 1 .. NumPages + 1 /\ scan.i \in Nat /\ scan.lost \in 0 .. PageSize

(* What a restart would make of the flash: pages it would erase do not count, and of
   an item's valid copies the one that is not old. *)
Doomed == IF InErasedState # {} THEN InErasedState ELSE MarkedPages
CopiesOn(p, id) == {i \in 1 .. Len(flash[p].items) :
                      LET it == flash[p].items[i] IN it.id = id /\ Good(it)}
Recovered(id) ==
    LET valid == UNION {{p} \X CopiesOn(p, id) : p \in Pages \ Doomed}
        new == {a \in valid : ~At(a).old}
    IN IF valid = {} THEN Missing ELSE At(First(IF new # {} THEN new ELSE valid)).val

Nv == INSTANCE NvStore WITH
        store <- [id \in Items |-> Recovered(id)],
        busy <- IF op.kind \in {"init", "write"}
                THEN [id |-> op.id, val |-> op.val] ELSE [id |-> Missing, val |-> Missing],
        up <- pc # "boot" /\ op.kind \notin {"boot", "pick"}

(* Without a reserve page and without a marked one, the page that initNV picks by what
   it has lost is erased with what is on it. *)
PickedItems == {At(a).id : a \in {b \in Place : b[1] = pgRes /\ Good(At(b))}}
ErasesPicked == pc = "eraseRes" /\ op.kind = "pick" /\ Nv!Loses(PickedItems)

(* However often the power fails, at whatever word, an item holds what the last
   operation on it that returned wrote, or what one that was interrupted was writing;
   it is not changed by an operation on another item and does not come back with an
   older value (initNV, compactPage, osal_nv_write).  Nothing loses an item but one
   step of initNV: what is on the page it picks is gone (OSAL_Nv.c:306-331). *)
ImplementsNvStore == Nv!StoreInit /\ [][Nv!StoreNext \/ ErasesPicked]_(Nv!storeVars)

(* What the comments at OSAL_Nv.c:292 and :331 say of that page: it is the one that was
   compacted and contains duplicates only, so that none of its items is needed. *)
OnlyDuplicatesPicked ==
    pc = "eraseRes" /\ op.kind = "pick" => \A a \in Place : a[1] = pgRes => ~Live(At(a))

(* Between operations there is exactly one erased page, the reserve, and no page is
   marked as being compacted (COMPACT_PAGE_CLEANUP, initNV). *)
OneReservePage ==
    pc = "idle" => /\ pgRes \in Pages /\ flash[pgRes] = Blank
                   /\ \A p \in Pages \ {pgRes} : flash[p].active /\ ~flash[p].xfer

(* Between operations the offsets kept in RAM are where the used part of each page
   ends, and no more room is counted as lost than a compaction would gain. *)
BookkeepingSafe ==
    pc = "idle" => \A p \in Pages : /\ pgOff[p] = Used(flash[p].items)
                                    /\ pgLost[p] <= Lost(flash[p].items)

(* osal_nv_init, osal_nv_write: the pages and what RAM holds of them are in order. *)
PagesSound == TypeOK /\ OneReservePage /\ BookkeepingSafe

(* Once osal_nv_init has returned and between operations, findItem finds the copy
   that a restart would keep, for no half written or zeroed copy is in its way; and
   the place kept in RAM for a hot item that exists is where findItem would find it,
   however often its page was compacted (hotItemUpdate). *)
ReadsWhatIsStored ==
    pc = "idle" =>
        /\ \A id \in Items : Read(id) = Recovered(id)
        /\ \A id \in HotIds :
              hot[id] # NoPlace /\ Recovered(id) # Missing => hot[id] = FindItem(id)

(* Every operation, and every osal_nv_init, ends unless it is interrupted: the walk
   that starts again when it finds an old item starts again once. *)
Ended == []<>(pc = "idle") \/ []<><<Reset>>_vars

=============================================================================
