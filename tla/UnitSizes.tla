----------------------------- MODULE UnitSizes -----------------------------
(***************************************************************************)
(* The arithmetic of units: which size group a request falls into, how a   *)
(* page is cut into units, how large a unit really is, and which unit of a *)
(* page an arbitrary address belongs to.  Each function is called with     *)
(* every argument and its result is compared with what it stands for.      *)
(*                                                                         *)
(* Sizes and offsets are in bytes; offsets count from the start of a page. *)
(***************************************************************************)
EXTENDS Integers, Sequences, FiniteSetsExt

CONSTANTS
    HugeSizes,   \* the requests above MAX_IN_PAGE_UNIT_SIZE that are tried
    None

ASSUME HugeAssumption == HugeSizes \subseteq {s \in Nat : s > 16360}

NORMAL_PAGE_SIZE == 32768
PageHeadSize == 24
PageUnitAllocSize == 8
UnitHeadSize == 8
MAX_SMALL_UNIT_SIZE == 1048
MAX_IN_PAGE_UNIT_SIZE == 16360

GROUP_SIZE_LOOKUP_TABLE ==
    <<16, 40, 88, 168, 344, 520, 736, 1048, 2720, 5448, 8176, 10904, 16360>>
Groups == DOMAIN GROUP_SIZE_LOOKUP_TABLE

\* SMALL_UNIT_GROUP_FAST_LOOKUP_TABLE: the index of the last entry of each group.
LastEntry == <<2, 5, 11, 21, 43, 65, 92, 131>>
FastLookup(i) ==
    LET found == {g \in DOMAIN LastEntry : i <= LastEntry[g]}
    IN  IF found = {} THEN None ELSE Min(found)

\* Mutation: sizes are rounded down.
IndexRoundedDown(size) == size \div 8

\* WOOMEM_FAST_LOOKUP_GROUP_INDEX.
FastLookupIndex(size) == (size + 7) \div 8

\* eval_group_by_small_unit_size: the tests for the groups of medium size are
\* made in turn, the last group takes the rest.
EvalGroup(size) ==
    IF size <= MAX_SMALL_UNIT_SIZE
    THEN FastLookup(FastLookupIndex(size))
    ELSE Min({g \in 9 .. 13 : g = 13 \/ size <= GROUP_SIZE_LOOKUP_TABLE[g]})

-----------------------------------------------------------------------------
(* The layout of a page *)

StorageBegin == PageHeadSize + PageUnitAllocSize
UnitSizeWithHead(g) == GROUP_SIZE_LOOKUP_TABLE[g] + UnitHeadSize
UnitCount(g) == (NORMAL_PAGE_SIZE - StorageBegin) \div UnitSizeWithHead(g)

\* init_page_for_unit_allocating makes a unit head at this offset.
IsUnitHead(g, offset) ==
    /\ offset >= StorageBegin
    /\ (offset - StorageBegin) % UnitSizeWithHead(g) = 0
    /\ (offset - StorageBegin) \div UnitSizeWithHead(g) < UnitCount(g)

\* Mutation: the unit heads are forgotten.
ValidateWithoutHeads(g, addr) ==
    IF addr < StorageBegin THEN None
    ELSE StorageBegin
         + ((addr - StorageBegin) \div GROUP_SIZE_LOOKUP_TABLE[g]) * GROUP_SIZE_LOOKUP_TABLE[g]

\* woomem_validate_addr for an address in an initialised normal page; whether the
\* unit is alive is tested afterwards.
ValidateAddr(g, addr) ==
    IF addr < StorageBegin THEN None
    ELSE StorageBegin + ((addr - StorageBegin) \div UnitSizeWithHead(g)) * UnitSizeWithHead(g)

\* allocate_huge_page, as woomem_allocate_begin calls it.
HugePages(size) ==
    (PageHeadSize + UnitHeadSize + size + NORMAL_PAGE_SIZE - 1) \div NORMAL_PAGE_SIZE

\* get_unit_available_size.
AvailableSize(unit) ==
    IF unit.huge THEN unit.pages * NORMAL_PAGE_SIZE - (PageHeadSize + UnitHeadSize)
    ELSE GROUP_SIZE_LOOKUP_TABLE[unit.group]

\* The choice woomem_allocate_begin makes.
UnitFor(size) ==
    IF size <= MAX_IN_PAGE_UNIT_SIZE
    THEN [huge |-> FALSE, group |-> EvalGroup(size), pages |-> 1]
    ELSE [huge |-> TRUE, group |-> None, pages |-> HugePages(size)]

-----------------------------------------------------------------------------
(* One call at a time *)

VARIABLES call, answer

sizesVars == <<call, answer>>

NoCall == [name |-> "none"]

SizesInit == call = NoCall /\ answer = None

AllocateBegin ==
    /\ call = NoCall
    /\ \E size \in 0 .. MAX_IN_PAGE_UNIT_SIZE \cup HugeSizes :
        /\ call' = [name |-> "allocate_begin", size |-> size]
        /\ answer' = UnitFor(size)

ValidateCall ==
    /\ call = NoCall
    /\ \E g \in Groups, addr \in 0 .. NORMAL_PAGE_SIZE - 1 :
        /\ call' = [name |-> "validate_addr", group |-> g, addr |-> addr]
        /\ answer' = ValidateAddr(g, addr)

Return ==
    /\ call # NoCall
    /\ call' = NoCall
    /\ answer' = None

SizesNext == AllocateBegin \/ ValidateCall \/ Return

SizesSpec == SizesInit /\ [][SizesNext]_sizesVars

-----------------------------------------------------------------------------
(* Properties *)

\* Every request is given a group, or a run of pages, that is large enough, and
\* no smaller group or shorter run would be: the fast table is never read past
\* its end, and the hand-written table, the chain of tests and the page arithmetic
\* of allocation and of get_unit_available_size agree at every boundary.
SmallestFit ==
    call.name = "allocate_begin" =>
        IF answer.huge
        THEN /\ AvailableSize(answer) >= call.size
             /\ PageHeadSize + UnitHeadSize + AvailableSize(answer) <= answer.pages * NORMAL_PAGE_SIZE
             /\ PageHeadSize + UnitHeadSize + call.size > (answer.pages - 1) * NORMAL_PAGE_SIZE
        ELSE /\ answer.group \in Groups
             /\ AvailableSize(answer) >= call.size
             /\ \A g \in Groups : g < answer.group => GROUP_SIZE_LOOKUP_TABLE[g] < call.size

\* An address in a page is resolved to the unit whose head or payload it points
\* into, always one that init_page_for_unit_allocating has made: there is no
\* rest at the end of a page that would be taken for one more unit.
UnitFound ==
    call.name = "validate_addr" =>
        IF call.addr < StorageBegin THEN answer = None
        ELSE /\ IsUnitHead(call.group, answer)
             /\ call.addr \in answer .. answer + UnitSizeWithHead(call.group) - 1

=============================================================================
