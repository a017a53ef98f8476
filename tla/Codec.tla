------------------------------- MODULE Codec --------------------------------
(***************************************************************************)
(* What the off-chain code writes into cell data and lock args, and what   *)
(* it reads back: serializer.ts of the transaction builder, parser.ts of   *)
(* the indexer, serialization.ts of the web application.                   *)
(*                                                                         *)
(* Data is a sequence of bytes.  A 32-byte hash is one element of it, and  *)
(* a u64 takes Width bytes of two digits each, so an offset here is the    *)
(* source's with the hash counted as one and the u64 as Width.  A function *)
(* that may throw returns the set of what it returns: nothing, or one.     *)
(***************************************************************************)
EXTENDS Integers, Sequences, Functions

CONSTANTS
    Base,     \* of a digit: 16 in the code
    Width     \* bytes of a u64: 8 in the code

ASSUME BaseAssumption == Base \in Nat /\ Base > 1
ASSUME WidthAssumption == Width \in Nat /\ Width > 0

Byte == Base * Base

\* Of Base, to the n-th.
Power[n \in Nat] == IF n = 0 THEN 1 ELSE Base * Power[n - 1]

-----------------------------------------------------------------------------
(* Integers                                                                 *)

\* Digits of toString(16).
HexLength(v) == CHOOSE n \in 1 .. v + 1 : v < Power[n] /\ (n = 1 \/ v >= Power[n - 1])

AtLeast(a, b) == IF a >= b THEN a ELSE b

\* Padded to a full field, never cut to one: a longer number gives a longer
\* field, and loses its first digit if it has an odd number of them.
U64ToHexLE(v) ==
    [i \in 1 .. (AtLeast(HexLength(v), 2 * Width) \div 2) |-> (v \div Power[2 * (i - 1)]) % Byte]

\* Two bytes; of a longer number, its first four digits.
U16ToHexLE(v) ==
    LET first == v \div Power[AtLeast(HexLength(v), 4) - 4]
    IN  <<first % Byte, first \div Byte>>

FromLE(field) == SumFunction([i \in 1 .. Len(field) |-> field[i] * Power[2 * (i - 1)]])

\* JavaScript's slice: what there is of the range.
Slice(data, from, to) == SubSeq(data, from + 1, IF to <= Len(data) THEN to ELSE Len(data))

\* hexToU64LE throws unless the field is whole.
U64At(data, offset) ==
    LET field == Slice(data, offset, offset + Width)
    IN  {FromLE(f) : f \in {g \in {field} : Len(g) = Width}}

-----------------------------------------------------------------------------
(* Campaign data: creator, goal, deadline, total, status, reserved bytes,   *)
(* then the title and the description, each after its length in two bytes   *)

GoalAt == 1
DeadlineAt == GoalAt + Width
TotalAt == DeadlineAt + Width
StatusAt == TotalAt + Width
HeaderSize == StatusAt + 1 + Width

Statuses == <<"Active", "Success", "Failed">>
StatusByte(status) == CHOOSE b \in 0 .. 2 : Statuses[b + 1] = status

\* Anything but 0 and 1 reads as Failed.
StatusOf(byte) == IF byte \in {0, 1} THEN Statuses[byte + 1] ELSE "Failed"

SerializeMetadata(title, description) ==
    U16ToHexLE(Len(title)) \o title \o U16ToHexLE(Len(description)) \o description

Metadata(title, description) ==
    IF title = <<>> /\ description = <<>> THEN <<>> ELSE SerializeMetadata(title, description)

\* serializeCampaignDataWithStatus; a new campaign has total 0 and is Active.
SerializeCampaignDataWithStatus(c, total, status, title, description) ==
    <<c.creator>> \o U64ToHexLE(c.goal) \o U64ToHexLE(c.deadline) \o U64ToHexLE(total)
        \o <<StatusByte(status)>> \o [i \in 1 .. Width |-> 0] \o Metadata(title, description)

SerializeCampaignData(c, title, description) ==
    SerializeCampaignDataWithStatus(c, 0, "Active", title, description)

\* Readers of the builder and of the page.
ReadTotalPledged(data) == FromLE(Slice(data, TotalAt, StatusAt))
ReadFundingGoal(data) == FromLE(Slice(data, GoalAt, DeadlineAt))
ReadCampaignStatus(data) == StatusOf(data[StatusAt + 1])

\* requireCampaignData
HasHeader(data) == Len(data) >= HeaderSize

\* Mutant: the data is serialized afresh, without its metadata.
Reserialized(data, total) ==
    {SubSeq(data, 1, TotalAt) \o f \o SubSeq(data, StatusAt + 1, HeaderSize) :
        f \in {g \in {U64ToHexLE(total)} : HasHeader(data)}}

\* At a fixed offset: a field of another length would shift the tail.
SpliceTotal(data, field) ==
    SubSeq(data, 1, TotalAt) \o field \o SubSeq(data, StatusAt + 1, Len(data))

WithTotalPledged(data, total) ==
    {SpliceTotal(data, f) :
        f \in {g \in {U64ToHexLE(total)} : HasHeader(data) /\ Len(g) = Width}}

WithCampaignStatus(data, status) ==
    {[d EXCEPT ![StatusAt + 1] = StatusByte(status)] : d \in {e \in {data} : HasHeader(e)}}

-----------------------------------------------------------------------------
(* The indexer's parsers                                                    *)

\* A text at `offset`: its length, then that many bytes if there are so many.
LengthAt(data, offset) == FromLE(Slice(data, offset, offset + 2))
TextFits(data, offset) ==
    LengthAt(data, offset) > 0 /\ offset + 2 + LengthAt(data, offset) <= Len(data)
TextAt(data, offset) ==
    IF TextFits(data, offset)
    THEN Slice(data, offset + 2, offset + 2 + LengthAt(data, offset)) ELSE <<>>

\* The title if there is more than a length; the description after it.
TitleIn(data) == IF Len(data) > HeaderSize + 2 THEN TextAt(data, HeaderSize) ELSE <<>>

DescriptionIn(data) ==
    LET offset == HeaderSize + 2 + Len(TitleIn(data))
    IN  IF Len(data) > HeaderSize + 2 /\ offset + 2 <= Len(data)
        THEN TextAt(data, offset) ELSE <<>>

ParseCampaignData(data) ==
    {[creator |-> d[1], goal |-> FromLE(Slice(d, GoalAt, DeadlineAt)),
      deadline |-> FromLE(Slice(d, DeadlineAt, TotalAt)), total |-> ReadTotalPledged(d),
      status |-> StatusOf(d[StatusAt + 1]), title |-> TitleIn(d),
      description |-> DescriptionIn(d)] : d \in {e \in {data} : HasHeader(e)}}

-----------------------------------------------------------------------------
(* Pledges, receipts and pledge locks                                       *)

SerializePledgeData(campaign, backer, amount) == <<campaign, backer>> \o U64ToHexLE(amount)

ReadPledgeAmount(data) == U64At(data, 2)

ParsePledgeData(data) ==
    {[campaign |-> data[1], backer |-> data[2], amount |-> a] : a \in U64At(data, 2)}

SerializeReceiptData(amount, backer, campaign, deadline) ==
    U64ToHexLE(amount) \o <<backer, campaign>> \o U64ToHexLE(deadline)

\* The indexer reads the first half of it.
ParseReceiptData(data) ==
    {[amount |-> a, backer |-> data[Width + 1]] :
        a \in {x \in U64At(data, 0) : Len(data) > Width}}

SerializePledgeLockArgs(campaign, deadline, backer) ==
    <<campaign>> \o U64ToHexLE(deadline) \o <<backer>>

ParsePledgeLockArgs(args) ==
    {[campaign |-> args[1], deadline |-> d, backer |-> args[Width + 2]] :
        d \in {x \in U64At(args, 1) : Len(args) > Width + 1}}

-----------------------------------------------------------------------------
(* Capacity, in CKB: the bytes the cell is thought to take and a fifth more *)

CellCapacity(dataSize, lockSize, typeArgsSize) ==
    AtLeast((6 * (8 + dataSize + 33 + typeArgsSize + lockSize) + 4) \div 5, 61)

\* What the chain counts, from the real size of the lock: a cell has to hold it.
OccupiedCapacity(dataSize, lockArgsSize, typeArgsSize) ==
    8 + dataSize + (33 + typeArgsSize) + (33 + lockArgsSize)

=============================================================================
