------------------------- MODULE DevnetSuitesProofs -------------------------
(***************************************************************************)
(* Proofs about DevnetSuites, for all values of its constants: every       *)
(* account's balance adds up, by double entry, and the bytes of every cell *)
(* say what the cell says, because each splice writes what a serialization *)
(* would.                                                                  *)
(***************************************************************************)
EXTENDS DevnetSuites, CrowdfundProofs, CodecProofs

-----------------------------------------------------------------------------
(* What cells are worth to a wallet                                         *)

OfCreator(C, w) == {c \in C : c.creator = w}

\* The capacity of w's receipts in R, pledges in P and campaigns in C.
Worth(R, P, C, w) ==
    ReceiptCapacity * Cardinality(OfBacker(R, w))
        + Capacity(OfBacker(P, w)) + Capacity(OfCreator(C, w))

WorthIn(tx, w) == Worth(tx.receiptIn, tx.pledgeIn, tx.campIn, w)
WorthOut(tx, w) == Worth(tx.receiptOut, tx.pledgeOut, tx.campOut, w)

LEMMA ReceiptCapacityNat == ReceiptCapacity \in Nat
  BY DEF ReceiptCapacity, CKB, CellCapacity, AtLeast

LEMMA CardinalityMoved ==
    ASSUME NEW R, IsFiniteSet(R), NEW I \in SUBSET R, NEW O, IsFiniteSet(O), O \cap R = {}
    PROVE  /\ Cardinality((R \ I) \cup O) = Cardinality(R) - Cardinality(I) + Cardinality(O)
           /\ Cardinality(R) \in Nat /\ Cardinality(I) \in Nat /\ Cardinality(O) \in Nat
<1>1. IsFiniteSet(I) /\ IsFiniteSet(R \ I) /\ R \cap I = I /\ (R \ I) \cap O = {}
  BY FS_Subset
<1>2. /\ Cardinality(R) \in Nat /\ Cardinality(I) \in Nat /\ Cardinality(O) \in Nat
      /\ Cardinality(R \ I) \in Nat
  BY <1>1, FS_CardinalityType
<1>3. Cardinality(R \ I) = Cardinality(R) - Cardinality(I)
  BY <1>1, FS_Difference
<1>4. Cardinality((R \ I) \cup O) = Cardinality(R \ I) + Cardinality(O) - Cardinality((R \ I) \cap O)
  BY <1>1, FS_Union
<1>5. Cardinality((R \ I) \cap O) = 0
  BY <1>1, FS_EmptySet
<1>. QED BY <1>2, <1>3, <1>4, <1>5

\* Cells that can be summed up.
Countable(R, P, C) ==
    /\ IsFiniteSet(R)
    /\ IsFiniteSet(P) /\ \A p \in P : p.capacity \in Nat
    /\ IsFiniteSet(C) /\ \A c \in C : c.capacity \in Nat

LEMMA WorthInt ==
    ASSUME NEW R, NEW P, NEW C, Countable(R, P, C), NEW w
    PROVE  Worth(R, P, C, w) \in Int
<1>1. /\ IsFiniteSet(OfBacker(R, w)) /\ IsFiniteSet(OfBacker(P, w))
      /\ IsFiniteSet(OfCreator(C, w))
      /\ \A p \in OfBacker(P, w) : p.capacity \in Nat
      /\ \A c \in OfCreator(C, w) : c.capacity \in Nat
  BY FS_Subset DEF Countable, OfBacker, OfCreator
<1>2. /\ Cardinality(OfBacker(R, w)) \in Nat /\ Capacity(OfBacker(P, w)) \in Nat
      /\ Capacity(OfCreator(C, w)) \in Nat
  BY <1>1, FS_CardinalityType, CapacityNat
<1>. QED BY <1>2, ReceiptCapacityNat DEF Worth

\* A transaction takes cells RI, PI and CI, and makes RO, PO and CO.
TakesAndMakes(R, P, C, RI, PI, CI, RO, PO, CO) ==
    /\ Countable(R, P, C)
    /\ RI \subseteq R /\ PI \subseteq P /\ CI \subseteq C
    /\ Countable(RO, PO, CO)
    /\ RO \cap R = {} /\ PO \cap P = {} /\ CO \cap C = {}

WorthMoves(R, P, C, RI, PI, CI, RO, PO, CO, w) ==
    /\ Worth((R \ RI) \cup RO, (P \ PI) \cup PO, (C \ CI) \cup CO, w) =
          Worth(R, P, C, w) - Worth(RI, PI, CI, w) + Worth(RO, PO, CO, w)
    /\ Worth(R, P, C, w) \in Int /\ Worth(RI, PI, CI, w) \in Int
    /\ Worth(RO, PO, CO, w) \in Int

LEMMA WorthMoved ==
    ASSUME NEW R, NEW P, NEW C, NEW RI, NEW PI, NEW CI, NEW RO, NEW PO, NEW CO,
           TakesAndMakes(R, P, C, RI, PI, CI, RO, PO, CO), NEW w
    PROVE  WorthMoves(R, P, C, RI, PI, CI, RO, PO, CO, w)
<1>. USE DEF TakesAndMakes
<1>1. /\ OfBacker((R \ RI) \cup RO, w) = (OfBacker(R, w) \ OfBacker(RI, w)) \cup OfBacker(RO, w)
      /\ OfBacker((P \ PI) \cup PO, w) = (OfBacker(P, w) \ OfBacker(PI, w)) \cup OfBacker(PO, w)
      /\ OfCreator((C \ CI) \cup CO, w)
            = (OfCreator(C, w) \ OfCreator(CI, w)) \cup OfCreator(CO, w)
  BY DEF OfBacker, OfCreator
<1>2. /\ OfBacker(RI, w) \in SUBSET OfBacker(R, w) /\ OfBacker(RO, w) \cap OfBacker(R, w) = {}
      /\ OfBacker(PI, w) \in SUBSET OfBacker(P, w) /\ OfBacker(PO, w) \cap OfBacker(P, w) = {}
      /\ OfCreator(CI, w) \in SUBSET OfCreator(C, w)
      /\ OfCreator(CO, w) \cap OfCreator(C, w) = {}
  BY DEF OfBacker, OfCreator
<1>3. /\ IsFiniteSet(OfBacker(R, w)) /\ IsFiniteSet(OfBacker(RO, w))
      /\ IsFiniteSet(OfBacker(P, w)) /\ IsFiniteSet(OfBacker(PO, w))
      /\ IsFiniteSet(OfCreator(C, w)) /\ IsFiniteSet(OfCreator(CO, w))
      /\ \A p \in OfBacker(P, w) \cup OfBacker(PO, w) : p.capacity \in Nat
      /\ \A c \in OfCreator(C, w) \cup OfCreator(CO, w) : c.capacity \in Nat
  BY FS_Subset DEF Countable, OfBacker, OfCreator
<1>4. Countable(RI, PI, CI)
  BY FS_Subset DEF Countable
<1>5. /\ Worth(R, P, C, w) \in Int /\ Worth(RI, PI, CI, w) \in Int
      /\ Worth(RO, PO, CO, w) \in Int
  BY <1>4, WorthInt
<1>6. /\ Cardinality(OfBacker((R \ RI) \cup RO, w)) =
            Cardinality(OfBacker(R, w)) - Cardinality(OfBacker(RI, w))
                + Cardinality(OfBacker(RO, w))
      /\ Cardinality(OfBacker(R, w)) \in Nat /\ Cardinality(OfBacker(RI, w)) \in Nat
      /\ Cardinality(OfBacker(RO, w)) \in Nat
  <2>. DEFINE a == OfBacker(R, w)
              i == OfBacker(RI, w)
              o == OfBacker(RO, w)
  <2>1. IsFiniteSet(a) /\ i \in SUBSET a /\ IsFiniteSet(o) /\ o \cap a = {}
    BY <1>2, <1>3
  <2>2. OfBacker((R \ RI) \cup RO, w) = (a \ i) \cup o
    BY <1>1
  <2>. HIDE DEF a, i, o
  <2>3. /\ Cardinality((a \ i) \cup o) = Cardinality(a) - Cardinality(i) + Cardinality(o)
        /\ Cardinality(a) \in Nat /\ Cardinality(i) \in Nat /\ Cardinality(o) \in Nat
    BY <2>1, CardinalityMoved
  <2>. QED BY <2>2, <2>3, Zenon DEF a, i, o
<1>7. Capacity(OfBacker((P \ PI) \cup PO, w)) =
          Capacity(OfBacker(P, w)) - Capacity(OfBacker(PI, w)) + Capacity(OfBacker(PO, w))
  <2>. DEFINE a == OfBacker(P, w)
              i == OfBacker(PI, w)
              o == OfBacker(PO, w)
  <2>1. /\ IsFiniteSet(a) /\ i \in SUBSET a /\ IsFiniteSet(o) /\ o \cap a = {}
        /\ \A x \in a \cup o : x.capacity \in Nat
    BY <1>2, <1>3
  <2>2. OfBacker((P \ PI) \cup PO, w) = (a \ i) \cup o
    BY <1>1
  <2>. HIDE DEF a, i, o
  <2>3. Capacity((a \ i) \cup o) = Capacity(a) - Capacity(i) + Capacity(o)
    BY <2>1, CapacityMoved
  <2>. QED BY <2>2, <2>3, Zenon DEF a, i, o
<1>8. Capacity(OfCreator((C \ CI) \cup CO, w)) =
          Capacity(OfCreator(C, w)) - Capacity(OfCreator(CI, w)) + Capacity(OfCreator(CO, w))
  <2>. DEFINE a == OfCreator(C, w)
              i == OfCreator(CI, w)
              o == OfCreator(CO, w)
  <2>1. /\ IsFiniteSet(a) /\ i \in SUBSET a /\ IsFiniteSet(o) /\ o \cap a = {}
        /\ \A x \in a \cup o : x.capacity \in Nat
    BY <1>2, <1>3
  <2>2. OfCreator((C \ CI) \cup CO, w) = (a \ i) \cup o
    BY <1>1
  <2>. HIDE DEF a, i, o
  <2>3. Capacity((a \ i) \cup o) = Capacity(a) - Capacity(i) + Capacity(o)
    BY <2>1, CapacityMoved
  <2>. QED BY <2>2, <2>3, Zenon DEF a, i, o
<1>9. /\ Capacity(OfBacker(P, w)) \in Nat /\ Capacity(OfBacker(PI, w)) \in Nat
      /\ Capacity(OfBacker(PO, w)) \in Nat
      /\ Capacity(OfCreator(C, w)) \in Nat /\ Capacity(OfCreator(CI, w)) \in Nat
      /\ Capacity(OfCreator(CO, w)) \in Nat
  BY <1>2, <1>3, FS_Subset, CapacityNat
<1>10. \A k \in Nat : /\ ReceiptCapacity * k \in Int
                      /\ \A i, o \in Nat : ReceiptCapacity * (k - i + o) =
                            ReceiptCapacity * k - ReceiptCapacity * i + ReceiptCapacity * o
  BY ReceiptCapacityNat
<1>11. /\ ReceiptCapacity * Cardinality(OfBacker((R \ RI) \cup RO, w)) =
            ReceiptCapacity * Cardinality(OfBacker(R, w))
                - ReceiptCapacity * Cardinality(OfBacker(RI, w))
                + ReceiptCapacity * Cardinality(OfBacker(RO, w))
       /\ ReceiptCapacity * Cardinality(OfBacker(R, w)) \in Int
       /\ ReceiptCapacity * Cardinality(OfBacker(RI, w)) \in Int
       /\ ReceiptCapacity * Cardinality(OfBacker(RO, w)) \in Int
  BY <1>6, <1>10
<1>. QED BY <1>5, <1>7, <1>8, <1>9, <1>11 DEF Worth, WorthMoves

-----------------------------------------------------------------------------
(* Balances                                                                 *)

\* What releases of the pledges in S took from w, less what they brought w.
Lost(S, w) == Amount(OfBacker(S, w)) - IF w = Creator THEN Amount(S) ELSE 0

\* Pledges whose amounts can be summed up.
Summable(S) == IsFiniteSet(S) /\ \A p \in S : p.amount \in Nat

LEMMA LostInt ==
    ASSUME NEW S, Summable(S), NEW w
    PROVE  /\ Amount(OfBacker(S, w)) \in Nat /\ Amount(S) \in Nat
           /\ Lost(S, w) \in Int
<1>1. IsFiniteSet(OfBacker(S, w)) /\ \A p \in OfBacker(S, w) : p.amount \in Nat
  BY FS_Subset DEF Summable, OfBacker
<1>2. Amount(OfBacker(S, w)) \in Nat /\ Amount(S) \in Nat
  BY <1>1, AmountNat DEF Summable
<1>. QED BY <1>2 DEF Lost

\* BalancesExact of account books s and f, cells R, P and C, and releases of S.
Balanced(s, f, R, P, C, S) ==
    \A w \in Wallets : s[w] + f[w] + Worth(R, P, C, w) = Purse - Lost(S, w)

Books(s, f) == s \in [Wallets -> Int] /\ f \in [Wallets -> Int]

LEMMA BalancedForm ==
    ASSUME NEW s, NEW f, Books(s, f), NEW R, NEW P, NEW C, Countable(R, P, C),
           NEW S, Summable(S)
    PROVE  Balanced(s, f, R, P, C, S) <=>
           \A w \in Wallets :
              s[w] + f[w] + ReceiptCapacity * Cardinality(OfBacker(R, w))
                + Capacity(OfBacker(P, w)) + Capacity(OfCreator(C, w))
              = Purse - Amount(OfBacker(S, w)) + IF w = Creator THEN Amount(S) ELSE 0
<1>. SUFFICES ASSUME NEW w \in Wallets
     PROVE  s[w] + f[w] + Worth(R, P, C, w) = Purse - Lost(S, w) <=>
              s[w] + f[w] + ReceiptCapacity * Cardinality(OfBacker(R, w))
                + Capacity(OfBacker(P, w)) + Capacity(OfCreator(C, w))
              = Purse - Amount(OfBacker(S, w)) + IF w = Creator THEN Amount(S) ELSE 0
  BY Zenon DEF Balanced
<1>1. s[w] \in Int /\ f[w] \in Int /\ Purse \in Int
  BY AccountsAssumption DEF Books
<1>2. /\ IsFiniteSet(OfBacker(R, w)) /\ IsFiniteSet(OfBacker(P, w))
      /\ IsFiniteSet(OfCreator(C, w))
      /\ \A p \in OfBacker(P, w) : p.capacity \in Nat
      /\ \A c \in OfCreator(C, w) : c.capacity \in Nat
  BY FS_Subset DEF Countable, OfBacker, OfCreator
<1>3. /\ Cardinality(OfBacker(R, w)) \in Nat /\ Capacity(OfBacker(P, w)) \in Nat
      /\ Capacity(OfCreator(C, w)) \in Nat
  BY <1>2, FS_CardinalityType, CapacityNat
<1>4. ReceiptCapacity * Cardinality(OfBacker(R, w)) \in Int
  BY <1>3, ReceiptCapacityNat
<1>5. Amount(OfBacker(S, w)) \in Nat /\ Amount(S) \in Nat
  BY LostInt
<1>. QED BY <1>1, <1>3, <1>4, <1>5 DEF Worth, Lost

\* BalancesExact is that, of a state and of the one after it.
LEMMA BalancesForm ==
    /\ BalancesExact <=>
          \A w \in Wallets :
              spendable[w] + fees[w] + ReceiptCapacity * Cardinality(OfBacker(receipts, w))
                + Capacity(OfBacker(pledges, w)) + Capacity(OfCreator(campaigns, w))
              = Purse - Amount(OfBacker(Released, w)) + IF w = Creator THEN Amount(Released) ELSE 0
    /\ BalancesExact' <=>
          \A w \in Wallets :
              spendable'[w] + fees'[w] + ReceiptCapacity * Cardinality(OfBacker(receipts', w))
                + Capacity(OfBacker(pledges', w)) + Capacity(OfCreator(campaigns', w))
              = Purse - Amount(OfBacker(Released', w)) + IF w = Creator THEN Amount(Released') ELSE 0
  BY Zenon DEF BalancesExact, OfBacker, OfCreator

\* completeFeeBy and the fees cut out of an output: what a transaction changes
\* in the money of w, which may bear the fee.
Flow(tx, bearer, w) == tx.pay[w] + IF w = bearer THEN Into(tx) - OutOf(tx) ELSE 0

LEMMA BookedMoney ==
    ASSUME Books(spendable, fees), NEW tx \in Transaction, NEW signer, NEW funds \in Int,
           NEW bearer, funds = 0 \/ signer = bearer,
           Into(tx) \in Int, OutOf(tx) \in Int, Booked(tx, signer, funds, bearer)
    PROVE  /\ Books(spendable', fees')
           /\ \A w \in Wallets :
                 spendable'[w] + fees'[w] = spendable[w] + fees[w] + Flow(tx, bearer, w)
<1>1. /\ spendable' = [w \in Wallets |->
             spendable[w] + tx.pay[w] - IF w = signer THEN funds ELSE 0]
      /\ fees' = [fees EXCEPT ![bearer] = @ + Into(tx) + funds - OutOf(tx)]
  BY DEF Booked
<1>2. \A w \in Wallets : tx.pay[w] \in Int /\ spendable[w] \in Int /\ fees[w] \in Int
  BY U64Assumption DEF Transaction, U64, Books
<1>3. \A w \in Wallets :
         /\ spendable'[w] = spendable[w] + tx.pay[w] - (IF w = signer THEN funds ELSE 0)
         /\ fees'[w] = IF w = bearer THEN fees[w] + Into(tx) + funds - OutOf(tx) ELSE fees[w]
  BY <1>1 DEF Books
<1>4. \A w \in Wallets : spendable'[w] \in Int /\ fees'[w] \in Int
  BY <1>2, <1>3
<1>5. /\ spendable' = [w \in Wallets |-> spendable'[w]]
      /\ fees' = [w \in Wallets |-> fees'[w]]
  BY <1>1 DEF Books
<1>6. Books(spendable', fees')
  BY <1>4, <1>5 DEF Books
<1>7. \A w \in Wallets :
         spendable'[w] + fees'[w] = spendable[w] + fees[w] + Flow(tx, bearer, w)
  BY <1>2, <1>3 DEF Flow
<1>. QED BY <1>6, <1>7

-----------------------------------------------------------------------------
(* One transaction, by double entry                                         *)

LEMMA ReleasedCells ==
    ASSUME LedgerInv
    PROVE  /\ Summable(Released)
           /\ Released \cap pledges = {}
<1>1. Released \subseteq UNION {s.pledges : s \in settlements}
  BY DEF Released
<1>2. IsFiniteSet(Released)
  BY <1>1, FS_Subset DEF LedgerInv, LedgerFinite
<1>3. \A p \in Released : p.amount \in Nat
  BY U64Assumption DEF Released, LedgerInv, IInv, TypeOK, Settlement, PledgeCell, U64
<1>4. Released \cap pledges = {}
  BY <1>1 DEF LedgerInv, SettledOnce
<1>. QED BY <1>2, <1>3, <1>4 DEF Summable

LEMMA ReleasedAfter ==
    ASSUME NEW tx, ClientCommit(tx)
    PROVE  Released' = IF SettlesPledges(tx) /\ HowSettled(tx) = "released"
                       THEN Released \cup tx.pledgeIn ELSE Released
<1>1. settlements' = IF SettlesPledges(tx) THEN settlements \cup {SettlementOf(tx)}
                                           ELSE settlements
  BY SettlementsAfter
<1>2. SettlementOf(tx).pledges = tx.pledgeIn /\ SettlementOf(tx).how = HowSettled(tx)
  BY DEF SettlementOf
<1>. QED BY <1>1, <1>2 DEF Released

LEMMA LedgerCells ==
    ASSUME LedgerInv, IsFiniteSet(campaigns)
    PROVE  Countable(receipts, pledges, campaigns)
<1>1. /\ \A p \in pledges : p.capacity \in Nat
      /\ \A c \in campaigns : c.capacity \in Nat
  BY U64Assumption DEF LedgerInv, IInv, TypeOK, PledgeCell, CampaignCell, U64
<1>. QED BY <1>1 DEF Countable, LedgerInv, LedgerFinite

\* What a client's transaction creates is new, and can be summed up.
LEMMA OutputCells ==
    ASSUME LedgerInv, NEW tx, ClientCommit(tx)
    PROVE  Countable(tx.receiptOut, tx.pledgeOut, tx.campOut)
<1>1. /\ tx.pledgeOut \subseteq PledgeCell /\ IsFiniteSet(tx.pledgeOut)
      /\ IsFiniteSet(tx.receiptOut) /\ tx.campOut \subseteq CampaignCell
  BY CommitEffect DEF LedgerInv, IInv
<1>2. tx.campOut = {} \/ \E c : tx.campOut = {c}
  BY DEF ClientCommit, Kind, MovesCampaign, MakesPledge, MergesPledges, SettlesPledges,
         TakesReceipts, AtMostOne
<1>3. IsFiniteSet(tx.campOut)
  BY <1>2, FS_EmptySet, FS_Singleton
<1>4. /\ \A p \in tx.pledgeOut : p.capacity \in Nat
      /\ \A c \in tx.campOut : c.capacity \in Nat
  BY <1>1, U64Assumption DEF PledgeCell, CampaignCell, U64
<1>. QED BY <1>1, <1>3, <1>4 DEF Countable

\* Both sides of the books of a transaction are figures.
LEMMA FlowFigures ==
    ASSUME LedgerInv, IsFiniteSet(campaigns), NEW tx, ClientCommit(tx)
    PROVE  Into(tx) \in Int /\ OutOf(tx) \in Int
<1>1. /\ tx.receiptIn \subseteq receipts /\ tx.pledgeIn \subseteq pledges
      /\ tx.campIn \subseteq campaigns
  BY CommitEffect DEF LedgerInv, IInv
<1>2. Countable(tx.receiptIn, tx.pledgeIn, tx.campIn)
  BY <1>1, LedgerCells, FS_Subset DEF Countable
<1>3. Countable(tx.receiptOut, tx.pledgeOut, tx.campOut)
  BY OutputCells
<1>4. /\ Cardinality(tx.receiptIn) \in Nat /\ Cardinality(tx.receiptOut) \in Nat
      /\ Capacity(tx.pledgeIn) \in Nat /\ Capacity(tx.pledgeOut) \in Nat
      /\ Capacity(tx.campIn) \in Nat /\ Capacity(tx.campOut) \in Nat
  BY <1>2, <1>3, FS_CardinalityType, CapacityNat DEF Countable
<1>5. SumFunction(tx.pay) \in Nat
  <2>1. tx.pay \in [Wallets -> Nat]
    BY U64Assumption DEF ClientCommit, Transaction, U64
  <2>. QED BY <2>1, SumFunctionNat, AccountsAssumption
<1>6. /\ ReceiptCapacity * Cardinality(tx.receiptIn) \in Int
      /\ ReceiptCapacity * Cardinality(tx.receiptOut) \in Int
  BY <1>4, ReceiptCapacityNat
<1>. QED BY <1>4, <1>5, <1>6 DEF Into, OutOf

\* Every wallet's money changes by what its cells lose, but for what the
\* transaction releases.
DoubleEntry(tx, bearer) ==
    LET S == IF SettlesPledges(tx) /\ HowSettled(tx) = "released" THEN tx.pledgeIn ELSE {}
    IN  \A w \in Wallets : Flow(tx, bearer, w) = WorthIn(tx, w) - WorthOut(tx, w) - Lost(S, w)

LEMMA LostAfter ==
    ASSUME LedgerInv, NEW S \in SUBSET pledges, NEW w
    PROVE  /\ Lost(Released \cup S, w) = Lost(Released, w) + Lost(S, w)
           /\ Summable(Released \cup S) /\ Summable(S)
<1>1. Summable(Released) /\ Released \cap S = {}
  BY ReleasedCells
<1>2. Summable(S)
  <2>1. \A p \in pledges : p.amount \in Nat
    BY U64Assumption DEF LedgerInv, IInv, TypeOK, PledgeCell, U64
  <2>. QED BY <2>1, FS_Subset DEF Summable, LedgerInv, LedgerFinite
<1>. DEFINE a == OfBacker(Released, w)
            b == OfBacker(S, w)
<1>3. /\ OfBacker(Released \cup S, w) = a \cup b /\ a \cap b = {}
      /\ IsFiniteSet(a) /\ IsFiniteSet(b) /\ \A p \in a \cup b : p.amount \in Nat
  BY <1>1, <1>2, FS_Subset DEF OfBacker, Summable
<1>. HIDE DEF a, b
<1>4. Amount(a \cup b) = Amount(a) + Amount(b)
  BY <1>3, AmountOfParts
<1>5. Amount(Released \cup S) = Amount(Released) + Amount(S)
  BY <1>1, <1>2, AmountOfParts DEF Summable
<1>6. /\ Amount(a) \in Nat /\ Amount(b) \in Nat
      /\ Amount(Released) \in Nat /\ Amount(S) \in Nat
  BY <1>1, <1>2, LostInt DEF a, b
<1>7. Lost(Released \cup S, w) = Lost(Released, w) + Lost(S, w)
  <2>1. /\ Lost(Released \cup S, w) =
              Amount(a \cup b) - IF w = Creator THEN Amount(Released \cup S) ELSE 0
        /\ Lost(Released, w) = Amount(a) - IF w = Creator THEN Amount(Released) ELSE 0
        /\ Lost(S, w) = Amount(b) - IF w = Creator THEN Amount(S) ELSE 0
    BY <1>3, Zenon DEF Lost, a, b
  <2>2. CASE w = Creator
    BY <1>4, <1>5, <1>6, <2>1, <2>2
  <2>3. CASE w # Creator
    BY <1>4, <1>6, <2>1, <2>3
  <2>. QED BY <2>2, <2>3
<1>8. Summable(Released \cup S)
  BY <1>1, <1>2, FS_Union DEF Summable
<1>. QED BY <1>2, <1>7, <1>8

\* The sum of the next step: everything that the transaction moved cancels out.
LEMMA SumsAgree ==
    ASSUME NEW plain \in Int, NEW paid \in Int, NEW before \in Int, NEW went \in Int,
           NEW came \in Int, NEW lost \in Int, NEW more \in Int, NEW purse \in Int, NEW now,
           plain + paid + before = purse - lost,
           now = plain + paid + (went - came - more)
    PROVE  now + (before - went + came) = purse - (lost + more)
  OBVIOUS

LEMMA BalanceStep ==
    ASSUME LedgerInv, LedgerInv', IsFiniteSet(campaigns), Books(spendable, fees), BalancesExact,
           NEW tx, ClientCommit(tx), tx.campOut \cap campaigns = {},
           NEW bearer, DoubleEntry(tx, bearer),
           NEW signer, NEW funds \in Int, funds = 0 \/ signer = bearer,
           Booked(tx, signer, funds, bearer)
    PROVE  BalancesExact' /\ Books(spendable', fees') /\ IsFiniteSet(campaigns')
<1>. DEFINE S == IF SettlesPledges(tx) /\ HowSettled(tx) = "released" THEN tx.pledgeIn ELSE {}
<1>1. /\ tx.receiptIn \subseteq receipts /\ tx.pledgeIn \subseteq pledges
      /\ tx.campIn \subseteq campaigns
      /\ pledges' = (pledges \ tx.pledgeIn) \cup tx.pledgeOut
      /\ receipts' = (receipts \ tx.receiptIn) \cup tx.receiptOut
      /\ campaigns' = (campaigns \ tx.campIn) \cup tx.campOut
      /\ tx.pledgeOut \cap pledges = {} /\ tx.receiptOut \cap receipts = {}
  BY CommitEffect DEF LedgerInv, IInv
<1>2. /\ Countable(receipts, pledges, campaigns)
      /\ Countable(tx.receiptOut, tx.pledgeOut, tx.campOut)
  BY LedgerCells, OutputCells
<1>3. /\ Books(spendable', fees')
      /\ \A w \in Wallets :
            spendable'[w] + fees'[w] = spendable[w] + fees[w] + Flow(tx, bearer, w)
  <2>1. Into(tx) \in Int /\ OutOf(tx) \in Int /\ tx \in Transaction
    BY FlowFigures DEF ClientCommit
  <2>. QED BY <2>1, BookedMoney
<1>4. IsFiniteSet(campaigns')
  BY <1>1, <1>2, FS_Subset, FS_Union DEF Countable
<1>5. Countable(receipts', pledges', campaigns')
  <2>1. /\ \A p \in pledges' : p.capacity \in Nat
        /\ \A c \in campaigns' : c.capacity \in Nat
    BY <1>1, <1>2 DEF Countable
  <2>. QED BY <1>4, <2>1 DEF Countable, LedgerInv, LedgerFinite
<1>6. Released' = Released \cup S /\ S \in SUBSET pledges
  BY <1>1, ReleasedAfter
<1>7. Summable(Released) /\ Summable(Released \cup S)
  BY <1>6, ReleasedCells, LostAfter
<1>8. Balanced(spendable, fees, receipts, pledges, campaigns, Released)
  BY <1>2, <1>7, BalancesForm, BalancedForm
<1>. HIDE DEF S
<1>9. ASSUME NEW w \in Wallets
      PROVE  spendable'[w] + fees'[w] + Worth(receipts', pledges', campaigns', w)
                 = Purse - Lost(Released \cup S, w)
  <2>1. Flow(tx, bearer, w) = WorthIn(tx, w) - WorthOut(tx, w) - Lost(S, w)
    BY DEF DoubleEntry, S
  <2>2. Lost(Released \cup S, w) = Lost(Released, w) + Lost(S, w)
    BY <1>6, LostAfter
  <2>3. Lost(Released, w) \in Int /\ Lost(S, w) \in Int
    BY <1>6, <1>7, LostAfter, LostInt
  <2>4. /\ Worth(receipts', pledges', campaigns', w) =
              Worth(receipts, pledges, campaigns, w) - WorthIn(tx, w) + WorthOut(tx, w)
        /\ Worth(receipts, pledges, campaigns, w) \in Int
        /\ WorthIn(tx, w) \in Int /\ WorthOut(tx, w) \in Int
    <3>1. TakesAndMakes(receipts, pledges, campaigns, tx.receiptIn, tx.pledgeIn, tx.campIn,
                    tx.receiptOut, tx.pledgeOut, tx.campOut)
      BY <1>1, <1>2 DEF TakesAndMakes
    <3>2. WorthMoves(receipts, pledges, campaigns, tx.receiptIn, tx.pledgeIn, tx.campIn,
                     tx.receiptOut, tx.pledgeOut, tx.campOut, w)
      BY <3>1, WorthMoved
    <3>. QED BY <1>1, <3>2, Zenon DEF WorthMoves, WorthIn, WorthOut
  <2>5. spendable'[w] + fees'[w] = spendable[w] + fees[w] + Flow(tx, bearer, w)
    BY <1>3
  <2>6. spendable[w] + fees[w] + Worth(receipts, pledges, campaigns, w)
            = Purse - Lost(Released, w)
    BY <1>8 DEF Balanced
  <2>7. spendable[w] \in Int /\ fees[w] \in Int /\ Purse \in Int
    BY AccountsAssumption DEF Books
  <2>. DEFINE plain == spendable[w]
              paid == fees[w]
              before == Worth(receipts, pledges, campaigns, w)
              went == WorthIn(tx, w)
              came == WorthOut(tx, w)
              lost == Lost(Released, w)
              more == Lost(S, w)
              now == spendable'[w] + fees'[w]
              after == Worth(receipts', pledges', campaigns', w)
  <2>8. now = plain + paid + (went - came - more)
    BY <2>1, <2>5, Zenon
  <2>9. Purse - Lost(Released \cup S, w) = Purse - (lost + more)
    BY <2>2, Zenon
  <2>10. /\ before \in Int /\ went \in Int /\ came \in Int /\ lost \in Int /\ more \in Int
         /\ plain \in Int /\ paid \in Int /\ Purse \in Int
         /\ after = before - went + came
         /\ plain + paid + before = Purse - lost
    BY <2>3, <2>4, <2>6, <2>7, Zenon
  <2>. HIDE DEF plain, paid, before, went, came, lost, more, now, after
  <2>11. now + (before - went + came) = Purse - (lost + more)
    BY <2>8, <2>10, SumsAgree
  <2>12. now + after = Purse - Lost(Released \cup S, w)
    BY <2>9, <2>10, <2>11, Zenon
  <2>. QED BY <2>12, Zenon DEF now, after
<1>10. Balanced(spendable', fees', receipts', pledges', campaigns', Released \cup S)
  BY <1>9 DEF Balanced
<1>11. BalancesExact'
  <2>1. Balanced(spendable', fees', receipts', pledges', campaigns', Released')
    BY <1>6, <1>10
  <2>2. Summable(Released')
    BY <1>6, <1>7
  <2>. QED BY <1>3, <1>5, <2>1, <2>2, BalancesForm, BalancedForm
<1>. QED BY <1>3, <1>4, <1>11

-----------------------------------------------------------------------------
(* The inductive invariant                                                  *)

\* Each campaign's bytes are what serializeCampaignDataWithStatus would write.
BytesAsWritten ==
    \A c \in campaigns :
        data[c.id] = SerializeCampaignDataWithStatus(c, c.total, c.status,
                                                     text.title, text.description)

\* Inductive: the ledger's own invariant, the suites' accounts that only one of
\* them creates campaigns and that no pledge is as small as a fee, the books and
\* the bytes.
SuitesInv ==
    /\ LedgerInv
    /\ IsFiniteSet(campaigns)
    /\ \A c \in campaigns : c.creator = Creator
    /\ \A p \in pledges : p.amount > MAX_FEE
    /\ Books(spendable, fees)
    /\ BalancesExact
    /\ text \in [title : Texts, description : Texts]
    /\ DOMAIN data = Campaigns
    /\ BytesAsWritten

-----------------------------------------------------------------------------
(* The books of each kind of transaction                                    *)

LEMMA WorthOfNothing ==
    ASSUME NEW w
    PROVE  /\ Worth({}, {}, {}, w) = 0
           /\ Lost({}, w) = 0
           /\ OfBacker({}, w) = {} /\ OfCreator({}, w) = {}
           /\ ReceiptCapacity * Cardinality({}) = 0
<1>1. OfBacker({}, w) = {} /\ OfCreator({}, w) = {}
  BY DEF OfBacker, OfCreator
<1>2. Cardinality({}) = 0
  BY FS_EmptySet
<1>3. ReceiptCapacity * Cardinality({}) = 0
  BY <1>2, ReceiptCapacityNat
<1>4. Worth({}, {}, {}, w) = 0
  BY <1>1, <1>3, CapacityEmpty DEF Worth
<1>5. Lost({}, w) = 0
  BY <1>1, AmountEmpty DEF Lost
<1>. QED BY <1>1, <1>3, <1>4, <1>5

LEMMA WorthOfOne ==
    ASSUME NEW w
    PROVE  /\ \A r : ReceiptCapacity * Cardinality(OfBacker({r}, w)) =
                        IF r.backer = w THEN ReceiptCapacity ELSE 0
           /\ \A r : ReceiptCapacity * Cardinality({r}) = ReceiptCapacity
           /\ \A p : p.capacity \in Nat =>
                 Capacity(OfBacker({p}, w)) = IF p.backer = w THEN p.capacity ELSE 0
           /\ \A c : c.capacity \in Nat =>
                 Capacity(OfCreator({c}, w)) = IF c.creator = w THEN c.capacity ELSE 0
           /\ \A p : p.amount \in Nat =>
                 Amount(OfBacker({p}, w)) = IF p.backer = w THEN p.amount ELSE 0
<1>1. /\ \A x : OfBacker({x}, w) = IF x.backer = w THEN {x} ELSE {}
      /\ \A x : OfCreator({x}, w) = IF x.creator = w THEN {x} ELSE {}
  BY DEF OfBacker, OfCreator
<1>2. Cardinality({}) = 0 /\ \A x : Cardinality({x}) = 1
  BY FS_EmptySet, FS_Singleton
<1>3. /\ ReceiptCapacity * Cardinality({}) = 0
      /\ \A x : ReceiptCapacity * Cardinality({x}) = ReceiptCapacity
  <2>1. ReceiptCapacity * 0 = 0 /\ ReceiptCapacity * 1 = ReceiptCapacity
    BY ReceiptCapacityNat
  <2>. QED BY <1>2, <2>1, Zenon
<1>. QED BY <1>1, <1>3, CapacityEmpty, CapacitySingle, AmountEmpty, AmountSingle

LEMMA NothingPaid == SumFunction(NoPay) = 0 /\ \A w \in Wallets : NoPay[w] = 0
<1>1. DOMAIN NoPay = Wallets /\ \A w \in Wallets : NoPay[w] = 0
  BY DEF NoPay
<1>2. SumFunction(NoPay) = SumFunctionOnSet(NoPay, Wallets)
  BY <1>1 DEF SumFunction
<1>. QED BY <1>1, <1>2, SumZero, AccountsAssumption

\* A transaction that pays nobody and settles nothing: what goes in comes out
\* again in the bearer's cells, or at the bearer's expense.
LEMMA BearerEntry ==
    ASSUME NEW tx, tx.pay = NoPay, ~SettlesPledges(tx), NEW bearer,
           Into(tx) \in Int, OutOf(tx) \in Int,
           \A w \in Wallets : /\ WorthIn(tx, w) \in Int /\ WorthOut(tx, w) \in Int
                              /\ WorthIn(tx, w) - WorthOut(tx, w) =
                                    IF w = bearer THEN Into(tx) - OutOf(tx) ELSE 0
    PROVE  DoubleEntry(tx, bearer)
<1>. SUFFICES ASSUME NEW w \in Wallets
              PROVE  Flow(tx, bearer, w) = WorthIn(tx, w) - WorthOut(tx, w) - Lost({}, w)
  BY Zenon DEF DoubleEntry
<1>1. tx.pay[w] = 0 /\ Lost({}, w) = 0
  BY NothingPaid, WorthOfNothing
<1>. QED BY <1>1 DEF Flow

\* serializeCampaignData into a cell of the creator.
LEMMA CreateEntry ==
    ASSUME NEW id, NEW goal, NEW deadline,
           ClientCommit(CreateTx(id, Creator, goal, deadline)), TypeOK
    PROVE  DoubleEntry(CreateTx(id, Creator, goal, deadline), Creator)
<1>. DEFINE tx == CreateTx(id, Creator, goal, deadline)
            c == [id |-> id, creator |-> Creator, goal |-> goal, deadline |-> deadline,
                  total |-> 0, status |-> "Active", capacity |-> CampaignCapacity]
<1>1. /\ tx.campIn = {} /\ tx.campOut = {c} /\ tx.pledgeIn = {} /\ tx.pledgeOut = {}
      /\ tx.receiptIn = {} /\ tx.receiptOut = {} /\ tx.pay = NoPay
  BY DEF CreateTx, EmptyTx
<1>2. c.capacity = CampaignCapacity /\ c.creator = Creator /\ CampaignCapacity \in Nat
  BY FormsAssumption, U64Assumption DEF U64
<1>. HIDE DEF tx, c
<1>3. Into(tx) = 0 /\ OutOf(tx) = CampaignCapacity
  BY <1>1, <1>2, CapacityEmpty, CapacitySingle, WorthOfNothing, NothingPaid DEF Into, OutOf
<1>4. ASSUME NEW w \in Wallets
      PROVE  WorthIn(tx, w) = 0 /\ WorthOut(tx, w) = IF w = Creator THEN CampaignCapacity ELSE 0
  <2>1. WorthIn(tx, w) = 0
    BY <1>1, WorthOfNothing DEF WorthIn
  <2>2. WorthOut(tx, w) = ReceiptCapacity * Cardinality(OfBacker({}, w))
                            + Capacity(OfBacker({}, w)) + Capacity(OfCreator({c}, w))
    BY <1>1, Zenon DEF WorthOut, Worth
  <2>3. Capacity(OfCreator({c}, w)) = IF w = Creator THEN CampaignCapacity ELSE 0
    BY <1>2, WorthOfOne
  <2>4. ReceiptCapacity * Cardinality(OfBacker({}, w)) = 0 /\ Capacity(OfBacker({}, w)) = 0
    BY WorthOfNothing, CapacityEmpty
  <2>. QED BY <1>2, <2>1, <2>2, <2>3, <2>4
<1>5. ~SettlesPledges(tx)
  BY <1>1 DEF SettlesPledges
<1>6. DoubleEntry(tx, Creator)
  BY <1>1, <1>2, <1>3, <1>4, <1>5, BearerEntry
<1>. QED BY <1>6 DEF tx

\* A pledge and its receipt at the expense of the backer; the campaign cell
\* keeps its capacity.
LEMMA PledgeEntry ==
    ASSUME TypeOK, NEW old \in campaigns, NEW id, NEW backer, NEW amount, NEW capacity, NEW total,
           ClientCommit(PledgeTx(old, id, backer, amount, capacity, total))
    PROVE  DoubleEntry(PledgeTx(old, id, backer, amount, capacity, total), backer)
<1>. DEFINE tx == PledgeTx(old, id, backer, amount, capacity, total)
            new == [old EXCEPT !.total = total]
            p == [id |-> id, campaign |-> old.id, deadline |-> old.deadline,
                  backer |-> backer, amount |-> amount, capacity |-> capacity]
            r == [id |-> id, campaign |-> old.id, deadline |-> old.deadline,
                  backer |-> backer, amount |-> amount]
            k == old.capacity
            o == old.creator
<1>1. /\ tx.campIn = {old} /\ tx.campOut = {new} /\ tx.pledgeIn = {} /\ tx.pledgeOut = {p}
      /\ tx.receiptIn = {} /\ tx.receiptOut = {r} /\ tx.pay = NoPay
  BY DEF PledgeTx, EmptyTx
<1>2. /\ p.backer = backer /\ p.capacity = capacity /\ r.backer = backer
      /\ new.creator = o /\ new.capacity = k
  <2>1. old \in CampaignCell
    BY DEF TypeOK
  <2>. QED BY <2>1 DEF CampaignCell
<1>3. p \in PledgeCell /\ k \in Nat
  <2>1. tx \in Transaction /\ old \in CampaignCell
    BY DEF ClientCommit, TypeOK
  <2>. HIDE DEF tx, p
  <2>. QED BY <1>1, <2>1, U64Assumption DEF Transaction, CampaignCell, U64
<1>4. capacity \in Nat
  <2>. HIDE DEF p
  <2>. QED BY <1>2, <1>3, U64Assumption DEF PledgeCell, U64
<1>. HIDE DEF tx, new, p, r
<1>5. Into(tx) = k /\ OutOf(tx) = k + capacity + ReceiptCapacity
  <2>1. /\ Capacity({old}) = k /\ Capacity({new}) = k /\ Capacity({p}) = capacity
        /\ Capacity({}) = 0
    BY <1>2, <1>3, <1>4, CapacitySingle, CapacityEmpty
  <2>2. /\ ReceiptCapacity * Cardinality({r}) = ReceiptCapacity
        /\ ReceiptCapacity * Cardinality({}) = 0
    BY WorthOfOne, WorthOfNothing
  <2>. QED BY <1>1, <1>3, <1>4, <2>1, <2>2, NothingPaid, ReceiptCapacityNat DEF Into, OutOf
<1>6. ASSUME NEW w \in Wallets
      PROVE  /\ WorthIn(tx, w) = IF o = w THEN k ELSE 0
             /\ WorthOut(tx, w) = (IF backer = w THEN ReceiptCapacity + capacity ELSE 0)
                                    + IF o = w THEN k ELSE 0
  <2>1. /\ WorthIn(tx, w) = ReceiptCapacity * Cardinality(OfBacker({}, w))
                              + Capacity(OfBacker({}, w)) + Capacity(OfCreator({old}, w))
        /\ WorthOut(tx, w) = ReceiptCapacity * Cardinality(OfBacker({r}, w))
                              + Capacity(OfBacker({p}, w)) + Capacity(OfCreator({new}, w))
    BY <1>1, Zenon DEF WorthIn, WorthOut, Worth
  <2>2. ReceiptCapacity * Cardinality(OfBacker({}, w)) = 0 /\ Capacity(OfBacker({}, w)) = 0
    BY WorthOfNothing, CapacityEmpty
  <2>3. /\ Capacity(OfCreator({old}, w)) = IF o = w THEN k ELSE 0
        /\ Capacity(OfCreator({new}, w)) = IF o = w THEN k ELSE 0
        /\ Capacity(OfBacker({p}, w)) = IF backer = w THEN capacity ELSE 0
        /\ ReceiptCapacity * Cardinality(OfBacker({r}, w)) =
              IF backer = w THEN ReceiptCapacity ELSE 0
    BY <1>2, <1>3, <1>4, WorthOfOne
  <2>. QED BY <1>3, <1>4, <2>1, <2>2, <2>3, ReceiptCapacityNat
<1>7. ~SettlesPledges(tx)
  BY <1>1 DEF SettlesPledges
<1>8. DoubleEntry(tx, backer)
  BY <1>1, <1>3, <1>4, <1>5, <1>6, <1>7, BearerEntry, ReceiptCapacityNat
<1>. QED BY <1>8 DEF tx

\* The campaign cell keeps its capacity whoever finalizes.
LEMMA FinalizeEntry ==
    ASSUME TypeOK, NEW old \in campaigns, NEW status, NEW since, NEW bearer,
           ClientCommit(FinalizeTx(old, status, old.capacity, since))
    PROVE  DoubleEntry(FinalizeTx(old, status, old.capacity, since), bearer)
<1>. DEFINE tx == FinalizeTx(old, status, old.capacity, since)
            new == [old EXCEPT !.status = status, !.capacity = old.capacity]
            k == old.capacity
            o == old.creator
<1>1. /\ tx.campIn = {old} /\ tx.campOut = {new} /\ tx.pledgeIn = {} /\ tx.pledgeOut = {}
      /\ tx.receiptIn = {} /\ tx.receiptOut = {} /\ tx.pay = NoPay
  BY DEF FinalizeTx, EmptyTx
<1>2. new.creator = o /\ new.capacity = k /\ k \in Nat
  <2>1. old \in CampaignCell
    BY DEF TypeOK
  <2>. QED BY <2>1, U64Assumption DEF CampaignCell, U64
<1>. HIDE DEF tx, new
<1>3. Into(tx) = k /\ OutOf(tx) = k
  <2>1. Capacity({old}) = k /\ Capacity({new}) = k /\ Capacity({}) = 0
    BY <1>2, CapacitySingle, CapacityEmpty
  <2>2. ReceiptCapacity * Cardinality({}) = 0
    BY WorthOfNothing
  <2>. QED BY <1>1, <1>2, <2>1, <2>2, NothingPaid DEF Into, OutOf
<1>4. ASSUME NEW w \in Wallets
      PROVE  /\ WorthIn(tx, w) = IF o = w THEN k ELSE 0
             /\ WorthOut(tx, w) = IF o = w THEN k ELSE 0
  <2>1. /\ WorthIn(tx, w) = ReceiptCapacity * Cardinality(OfBacker({}, w))
                              + Capacity(OfBacker({}, w)) + Capacity(OfCreator({old}, w))
        /\ WorthOut(tx, w) = ReceiptCapacity * Cardinality(OfBacker({}, w))
                              + Capacity(OfBacker({}, w)) + Capacity(OfCreator({new}, w))
    BY <1>1, Zenon DEF WorthIn, WorthOut, Worth
  <2>2. ReceiptCapacity * Cardinality(OfBacker({}, w)) = 0 /\ Capacity(OfBacker({}, w)) = 0
    BY WorthOfNothing, CapacityEmpty
  <2>3. /\ Capacity(OfCreator({old}, w)) = IF o = w THEN k ELSE 0
        /\ Capacity(OfCreator({new}, w)) = IF o = w THEN k ELSE 0
    BY <1>2, WorthOfOne
  <2>. QED BY <1>2, <2>1, <2>2, <2>3
<1>5. ~SettlesPledges(tx)
  BY <1>1 DEF SettlesPledges
<1>6. DoubleEntry(tx, bearer)
  BY <1>1, <1>2, <1>3, <1>4, <1>5, BearerEntry
<1>. QED BY <1>6 DEF tx

\* A merge moves the capacity of one backer's cells into another of the same.
LEMMA MergeEntry ==
    ASSUME TypeOK, NEW tx, ClientCommit(tx), MergesPledges(tx), tx.pay = NoPay,
           IsFiniteSet(pledges), NEW bearer
    PROVE  DoubleEntry(tx, bearer)
<1>1. PICK m \in PledgeCell :
        /\ tx.pledgeOut = {m} /\ tx.pledgeIn # {}
        /\ \A p \in tx.pledgeIn : LockOf(p) = LockOf(m)
        /\ m.capacity = Capacity(tx.pledgeIn)
  BY MergeScript
<1>. DEFINE k == m.capacity
<1>2. /\ tx.campIn = {} /\ tx.campOut = {} /\ tx.receiptIn = {} /\ tx.receiptOut = {}
  BY DEF MergesPledges
<1>3. k \in Nat
  BY U64Assumption DEF PledgeCell, U64
<1>4. Into(tx) = k /\ OutOf(tx) = k
  <2>1. Capacity(tx.pledgeIn) = k /\ Capacity({m}) = k /\ Capacity({}) = 0
    BY <1>1, <1>3, CapacitySingle, CapacityEmpty
  <2>2. ReceiptCapacity * Cardinality({}) = 0
    BY WorthOfNothing
  <2>. QED BY <1>1, <1>2, <1>3, <2>1, <2>2, NothingPaid DEF Into, OutOf
<1>5. ASSUME NEW w \in Wallets
      PROVE  /\ WorthIn(tx, w) = IF m.backer = w THEN k ELSE 0
             /\ WorthOut(tx, w) = IF m.backer = w THEN k ELSE 0
  <2>1. /\ WorthIn(tx, w) = ReceiptCapacity * Cardinality(OfBacker({}, w))
                              + Capacity(OfBacker(tx.pledgeIn, w)) + Capacity(OfCreator({}, w))
        /\ WorthOut(tx, w) = ReceiptCapacity * Cardinality(OfBacker({}, w))
                              + Capacity(OfBacker({m}, w)) + Capacity(OfCreator({}, w))
    BY <1>1, <1>2, Zenon DEF WorthIn, WorthOut, Worth
  <2>2. ReceiptCapacity * Cardinality(OfBacker({}, w)) = 0 /\ Capacity(OfCreator({}, w)) = 0
    BY WorthOfNothing, CapacityEmpty
  <2>3. Capacity(OfBacker({m}, w)) = IF m.backer = w THEN k ELSE 0
    BY <1>3, WorthOfOne
  <2>4. Capacity(OfBacker(tx.pledgeIn, w)) = IF m.backer = w THEN k ELSE 0
    <3>1. \A p \in tx.pledgeIn : p.backer = m.backer
      BY <1>1 DEF LockOf
    <3>2. OfBacker(tx.pledgeIn, w) = IF m.backer = w THEN tx.pledgeIn ELSE {}
      BY <3>1 DEF OfBacker
    <3>. QED BY <1>1, <3>2, CapacityEmpty
  <2>. QED BY <1>3, <2>1, <2>2, <2>3, <2>4
<1>6. ~SettlesPledges(tx)
  BY <1>1 DEF SettlesPledges
<1>. QED BY <1>3, <1>4, <1>5, <1>6, BearerEntry

\* A payout from the cell of p: the amount to the creator and the rest to the
\* backer, or all to the backer.
PaysBoth(pay, p, fee) ==
    /\ \A w \in Wallets :
          pay[w] = (IF w = p.backer THEN p.capacity - p.amount - fee ELSE 0)
                     + IF w = Creator THEN p.amount ELSE 0
    /\ SumFunction(pay) = p.capacity - fee

PaysBacker(pay, p, fee) ==
    /\ \A w \in Wallets : pay[w] = IF w = p.backer THEN p.capacity - fee ELSE 0
    /\ SumFunction(pay) = p.capacity - fee

LEMMA PaidOutOfRelease ==
    ASSUME LedgerInv, NEW p \in pledges, NEW fee \in Nat
    PROVE  PaysBoth(ReleasePay({p}, Creator, p.amount, fee), p, fee)
<1>. DEFINE pay  == ReleasePay({p}, Creator, p.amount, fee)
            rest == p.capacity - p.amount - fee
<1>1. Holds(p)
  BY PledgeHolds
<1>2. /\ p.backer \in Wallets /\ Creator \in Wallets
      /\ p.amount \in Nat /\ p.capacity \in Nat /\ rest \in Int
  BY <1>1, AccountsAssumption DEF Holds
<1>3. ASSUME NEW w \in Wallets
      PROVE  OverheadTo({p}, w, fee) = IF w = p.backer THEN rest ELSE 0
  <2>1. CASE w = p.backer
    <3>1. OfBacker({p}, w) = {p}
      BY <2>1, OneBacker
    <3>. QED BY <1>1, <2>1, <3>1 DEF Holds, OverheadTo
  <2>2. CASE w # p.backer
    BY <2>2, OneBacker DEF OverheadTo
  <2>. QED BY <2>1, <2>2
<1>4. DOMAIN pay = Wallets /\ \A w \in Wallets :
         pay[w] = (IF w = p.backer THEN rest ELSE 0) + IF w = Creator THEN p.amount ELSE 0
  BY <1>3 DEF ReleasePay
<1>5. SumFunction(pay) = SumFunctionOnSet(pay, Wallets)
  BY <1>4 DEF SumFunction
<1>6. rest + p.amount = p.capacity - fee
  BY <1>2
<1>. HIDE DEF pay, rest
<1>7. SumFunction(pay) = p.capacity - fee
  <2>1. CASE p.backer = Creator
    <3>1. pay[Creator] = rest + p.amount /\ \A w \in Wallets : w # Creator => pay[w] = 0
      BY <1>2, <1>4, <2>1
    <3>2. pay[Creator] \in Int
      BY <1>2, <3>1
    <3>. QED BY <1>2, <1>5, <1>6, <3>1, <3>2, SumAtOne, AccountsAssumption
  <2>2. CASE p.backer # Creator
    <3>1. /\ pay[p.backer] = rest /\ pay[Creator] = p.amount
          /\ \A w \in Wallets : w # p.backer /\ w # Creator => pay[w] = 0
      BY <1>2, <1>4, <2>2
    <3>2. SumFunctionOnSet(pay, Wallets) = pay[p.backer] + pay[Creator]
      BY <1>2, <2>2, <3>1, SumAtTwo, AccountsAssumption
    <3>. QED BY <1>5, <1>6, <3>1, <3>2
  <2>. QED BY <2>1, <2>2
<1>. QED BY <1>4, <1>7 DEF pay, rest, PaysBoth

LEMMA PaidOutOfRefund ==
    ASSUME LedgerInv, NEW p \in pledges, NEW fee \in Nat
    PROVE  PaysBacker(RefundPay({p}, fee), p, fee)
<1>. DEFINE pay == RefundPay({p}, fee)
<1>1. Holds(p)
  BY PledgeHolds
<1>2. p.backer \in Wallets /\ p.capacity - fee \in Int
  BY <1>1 DEF Holds
<1>3. ASSUME NEW w \in Wallets
      PROVE  (IF OfBacker({p}, w) = {} THEN 0 ELSE Capacity(OfBacker({p}, w)) - fee)
             = IF w = p.backer THEN p.capacity - fee ELSE 0
  <2>1. CASE w = p.backer
    <3>1. OfBacker({p}, w) = {p}
      BY <2>1, OneBacker
    <3>. QED BY <1>1, <2>1, <3>1 DEF Holds
  <2>2. CASE w # p.backer
    BY <2>2, OneBacker
  <2>. QED BY <2>1, <2>2
<1>4. /\ DOMAIN pay = Wallets
      /\ \A w \in Wallets : pay[w] = IF w = p.backer THEN p.capacity - fee ELSE 0
  BY <1>3 DEF RefundPay
<1>5. SumFunction(pay) = SumFunctionOnSet(pay, Wallets)
  BY <1>4 DEF SumFunction
<1>. HIDE DEF pay
<1>6. SumFunctionOnSet(pay, Wallets) = pay[p.backer]
  BY <1>2, <1>4, SumAtOne, AccountsAssumption
<1>7. SumFunction(pay) = p.capacity - fee
  BY <1>2, <1>4, <1>5, <1>6
<1>. QED BY <1>4, <1>7 DEF pay, PaysBacker

\* A settlement of one pledge: by what the campaign decided, or at a loss to
\* nobody because the backer is the creator.
LEMMA SettleEntry ==
    ASSUME LedgerInv, \A c \in campaigns : c.creator = Creator,
           NEW tx, ClientCommit(tx), SettlesPledges(tx),
           NEW p \in pledges, tx.pledgeIn = {p}, p.amount > MAX_FEE, NEW fee \in 1 .. MAX_FEE,
           \/ tx.pay = ReleasePay({p}, Creator, p.amount, fee)
           \/ tx.pay = RefundPay({p}, fee)
    PROVE  DoubleEntry(tx, p.backer)
<1>. DEFINE b == p.backer
            k == p.capacity
            a == p.amount
<1>1. /\ k \in Nat /\ a \in Nat /\ a > 0 /\ b \in Wallets
      /\ Amount({p}) = a /\ Capacity({p}) = k
  BY PledgeHolds DEF Holds
<1>2. fee \in Nat /\ fee > 0 /\ MAX_FEE \in Nat
  BY LimitsAssumption
<1>3. /\ tx.campIn = {} /\ tx.campOut = {} /\ tx.pledgeOut = {}
      /\ tx.receiptIn = {} /\ tx.receiptOut = {}
  BY DEF SettlesPledges
<1>4. PaysBoth(tx.pay, p, fee) \/ PaysBacker(tx.pay, p, fee)
  <2>1. CASE tx.pay = ReleasePay({p}, Creator, p.amount, fee)
    BY <1>2, <2>1, PaidOutOfRelease, Zenon
  <2>2. CASE tx.pay = RefundPay({p}, fee)
    BY <1>2, <2>2, PaidOutOfRefund, Zenon
  <2>. QED BY <2>1, <2>2
<1>5. /\ SumFunction(tx.pay) = k - fee
       /\ \/ \A w \in Wallets : tx.pay[w] = (IF w = b THEN k - a - fee ELSE 0)
                                              + IF w = Creator THEN a ELSE 0
          \/ \A w \in Wallets : tx.pay[w] = IF w = b THEN k - fee ELSE 0
  BY <1>4, Zenon DEF PaysBoth, PaysBacker
<1>6. Into(tx) = k /\ OutOf(tx) = k - fee
  <2>1. Capacity({}) = 0 /\ ReceiptCapacity * Cardinality({}) = 0
    BY CapacityEmpty, WorthOfNothing
  <2>. QED BY <1>1, <1>2, <1>3, <1>5, <2>1 DEF Into, OutOf
<1>7. ASSUME NEW w \in Wallets
      PROVE  /\ WorthIn(tx, w) = IF w = b THEN k ELSE 0
             /\ WorthOut(tx, w) = 0
             /\ Lost({p}, w) = (IF w = b THEN a ELSE 0) - IF w = Creator THEN a ELSE 0
             /\ Lost({}, w) = 0
             /\ Flow(tx, b, w) = tx.pay[w] + IF w = b THEN fee ELSE 0
  <2>1. WorthIn(tx, w) = ReceiptCapacity * Cardinality(OfBacker({}, w))
                              + Capacity(OfBacker({p}, w)) + Capacity(OfCreator({}, w))
    BY <1>3, Zenon DEF WorthIn, Worth
  <2>2. WorthOut(tx, w) = 0
    BY <1>3, WorthOfNothing DEF WorthOut
  <2>3. /\ ReceiptCapacity * Cardinality(OfBacker({}, w)) = 0
        /\ Capacity(OfCreator({}, w)) = 0 /\ Lost({}, w) = 0
    BY WorthOfNothing, CapacityEmpty
  <2>4. /\ Capacity(OfBacker({p}, w)) = IF w = b THEN k ELSE 0
        /\ Amount(OfBacker({p}, w)) = IF w = b THEN a ELSE 0
    BY <1>1, WorthOfOne
  <2>5. Lost({p}, w) = (IF w = b THEN a ELSE 0) - IF w = Creator THEN a ELSE 0
    BY <1>1, <2>4, Zenon DEF Lost
  <2>6. Flow(tx, b, w) = tx.pay[w] + IF w = b THEN fee ELSE 0
    <3>1. Into(tx) - OutOf(tx) = fee
      BY <1>1, <1>2, <1>6
    <3>. QED BY <3>1, Zenon DEF Flow
  <2>7. WorthIn(tx, w) = IF w = b THEN k ELSE 0
    BY <1>1, <2>1, <2>3, <2>4
  <2>. QED BY <2>2, <2>3, <2>5, <2>6, <2>7
<1>8. HowSettled(tx) = "released" /\ b # Creator => tx.pay[Creator] >= a
  BY SettlementPays, <1>1 DEF LedgerInv
<1>9. HowSettled(tx) # "released" => tx.pay[b] >= k - MAX_FEE
  BY SettlementPays, <1>1 DEF LedgerInv
<1>10. Creator \in Wallets
  BY AccountsAssumption
<1>. HIDE DEF b, k, a
<1>11. CASE HowSettled(tx) = "released"
  <2>. SUFFICES ASSUME NEW w \in Wallets
                PROVE  Flow(tx, b, w) = WorthIn(tx, w) - WorthOut(tx, w) - Lost({p}, w)
    BY <1>11, Zenon DEF DoubleEntry, b
  <2>1. tx.pay[w] + (IF w = b THEN fee ELSE 0) =
          (IF w = b THEN k ELSE 0) - ((IF w = b THEN a ELSE 0) - IF w = Creator THEN a ELSE 0)
    BY <1>1, <1>2, <1>5, <1>8, <1>10, <1>11
  <2>2. WorthIn(tx, w) - WorthOut(tx, w) - Lost({p}, w) =
          (IF w = b THEN k ELSE 0) - ((IF w = b THEN a ELSE 0) - IF w = Creator THEN a ELSE 0)
    <3>1. \A x, y, z \in Int : x - 0 - (y - z) = x - (y - z)
      OBVIOUS
    <3>2. /\ (IF w = b THEN k ELSE 0) \in Int /\ (IF w = b THEN a ELSE 0) \in Int
          /\ (IF w = Creator THEN a ELSE 0) \in Int
      BY <1>1
    <3>3. (IF w = b THEN k ELSE 0) - 0 - ((IF w = b THEN a ELSE 0) - IF w = Creator THEN a ELSE 0)
            = (IF w = b THEN k ELSE 0) - ((IF w = b THEN a ELSE 0) - IF w = Creator THEN a ELSE 0)
      BY <3>1, <3>2
    <3>. QED BY <1>7, <3>3, Zenon
  <2>. QED BY <1>7, <2>1, <2>2, Zenon
<1>12. CASE HowSettled(tx) # "released"
  <2>. SUFFICES ASSUME NEW w \in Wallets
                PROVE  Flow(tx, b, w) = WorthIn(tx, w) - WorthOut(tx, w) - Lost({}, w)
    BY <1>12, Zenon DEF DoubleEntry, b
  <2>1. tx.pay[w] + (IF w = b THEN fee ELSE 0) = IF w = b THEN k ELSE 0
    BY <1>1, <1>2, <1>5, <1>9, <1>10, <1>12 DEF a
  <2>. QED BY <1>1, <1>7, <2>1
<1>. QED BY <1>11, <1>12

\* A receipt's cell goes back to its backer, less the fee.
LEMMA ReclaimEntry ==
    ASSUME NEW tx, TakesReceipts(tx), NEW r, tx.receiptIn = {r}, r.backer \in Wallets,
           NEW fee \in Nat,
           tx.pay = [NoPay EXCEPT ![r.backer] = ReceiptCapacity - fee]
    PROVE  DoubleEntry(tx, r.backer)
<1>. DEFINE b == r.backer
<1>1. /\ tx.campIn = {} /\ tx.campOut = {} /\ tx.pledgeIn = {} /\ tx.pledgeOut = {}
      /\ tx.receiptOut = {}
  BY DEF TakesReceipts
<1>2. /\ DOMAIN tx.pay = Wallets
      /\ \A w \in Wallets : tx.pay[w] = IF w = b THEN ReceiptCapacity - fee ELSE 0
  BY DEF NoPay
<1>3. ReceiptCapacity \in Nat
  BY ReceiptCapacityNat
<1>. HIDE DEF b
<1>4. SumFunction(tx.pay) = ReceiptCapacity - fee
  <2>1. b \in Wallets
    BY DEF b
  <2>2. SumFunction(tx.pay) = SumFunctionOnSet(tx.pay, Wallets)
    BY <1>2 DEF SumFunction
  <2>3. SumFunctionOnSet(tx.pay, Wallets) = tx.pay[b]
    <3>. DEFINE pay == tx.pay
    <3>1. pay[b] \in Int /\ \A w \in Wallets : w # b => pay[w] = 0
      BY <1>2, <1>3, <2>1
    <3>. HIDE DEF pay
    <3>2. SumFunctionOnSet(pay, Wallets) = pay[b]
      BY <2>1, <3>1, SumAtOne, AccountsAssumption
    <3>. QED BY <3>2 DEF pay
  <2>. QED BY <1>2, <2>1, <2>2, <2>3
<1>5. Into(tx) = ReceiptCapacity /\ OutOf(tx) = ReceiptCapacity - fee
  <2>1. /\ Capacity({}) = 0 /\ ReceiptCapacity * Cardinality({}) = 0
        /\ ReceiptCapacity * Cardinality({r}) = ReceiptCapacity
    BY CapacityEmpty, WorthOfNothing, WorthOfOne
  <2>. QED BY <1>1, <1>3, <1>4, <2>1 DEF Into, OutOf
<1>. SUFFICES ASSUME NEW w \in Wallets
              PROVE  Flow(tx, b, w) = WorthIn(tx, w) - WorthOut(tx, w) - Lost({}, w)
  <2>1. ~SettlesPledges(tx)
    BY <1>1 DEF SettlesPledges
  <2>. QED BY <2>1, Zenon DEF DoubleEntry, b
<1>6. WorthIn(tx, w) = IF w = b THEN ReceiptCapacity ELSE 0
  <2>1. WorthIn(tx, w) = ReceiptCapacity * Cardinality(OfBacker({r}, w))
                              + Capacity(OfBacker({}, w)) + Capacity(OfCreator({}, w))
    BY <1>1, Zenon DEF WorthIn, Worth
  <2>2. Capacity(OfBacker({}, w)) = 0 /\ Capacity(OfCreator({}, w)) = 0
    BY WorthOfNothing, CapacityEmpty
  <2>3. ReceiptCapacity * Cardinality(OfBacker({r}, w)) = IF w = b THEN ReceiptCapacity ELSE 0
    BY WorthOfOne DEF b
  <2>. QED BY <1>3, <2>1, <2>2, <2>3
<1>7. WorthOut(tx, w) = 0 /\ Lost({}, w) = 0
  BY <1>1, WorthOfNothing DEF WorthOut
<1>8. Flow(tx, b, w) = tx.pay[w] + IF w = b THEN fee ELSE 0
  <2>1. Into(tx) - OutOf(tx) = fee
    BY <1>3, <1>5
  <2>. QED BY <2>1, Zenon DEF Flow
<1>. QED BY <1>2, <1>3, <1>6, <1>7, <1>8

-----------------------------------------------------------------------------
(* The bytes of a campaign cell                                             *)

TextsTyped == text \in [title : Texts, description : Texts]

WrittenOut(c) ==
    SerializeCampaignDataWithStatus(c, c.total, c.status, text.title, text.description)

LEMMA U64Fits == \A v \in U64 : Fits(v)
<1>1. Power[2 * Width] \in Nat
  BY PowerNat, WidthAssumption
<1>. QED BY <1>1, U64Assumption, FieldAssumption DEF U64, Fits

LEMMA TextsFit == \A t \in Texts : t \in Seq(Int) /\ LengthFits(Len(t))
<1>1. Byte \in Nat /\ Byte > 1
  BY Digits
<1>2. Byte + 1 < Byte * Byte
  <2>1. Byte * Byte >= 4 * Byte
    <3>1. Byte >= 4
      <4>1. Base \in Nat /\ Base >= 2
        BY BaseAssumption
      <4>2. Base * Base >= 2 * Base
        BY <4>1
      <4>. QED BY <4>1, <4>2 DEF Byte
    <3>. HIDE DEF Byte
    <3>. QED BY <1>1, <3>1
  <2>. QED BY <1>1, <2>1
<1>3. <<>> \in Seq(Int) /\ Len(<<>>) = 0
  OBVIOUS
<1>4. <<3, 1>> \in Seq(Int) /\ Len(<<3, 1>>) = 2
  OBVIOUS
<1>5. [i \in 1 .. Byte + 1 |-> 2] \in Seq(Int) /\ Len([i \in 1 .. Byte + 1 |-> 2]) = Byte + 1
  BY <1>1
<1>6. LengthFits(0) /\ LengthFits(2) /\ LengthFits(Byte + 1)
  BY <1>1, <1>2 DEF LengthFits
<1>. QED BY <1>3, <1>4, <1>5, <1>6, Zenon DEF Texts

LEMMA CellTerms ==
    ASSUME TextsTyped, NEW c \in CampaignCell
    PROVE  /\ Terms(Int \cup {c.creator}, c, text.title, text.description)
           /\ Fits(c.total) /\ c.status \in StatusNames
<1>. DEFINE V == Int \cup {c.creator}
<1>1. text.title \in Texts /\ text.description \in Texts
  BY DEF TextsTyped
<1>2. Int \subseteq V /\ c.creator \in V
  OBVIOUS
<1>. HIDE DEF V
<1>3. Seq(Int) \subseteq Seq(V)
  BY <1>2, SeqMonotonic
<1>4. /\ text.title \in Seq(V) /\ LengthFits(Len(text.title))
      /\ text.description \in Seq(V) /\ LengthFits(Len(text.description))
  BY <1>1, <1>3, TextsFit
<1>5. Fits(c.goal) /\ Fits(c.deadline) /\ Fits(c.total) /\ c.status \in StatusNames
  BY U64Fits DEF CampaignCell, CampaignStatus, StatusNames
<1>6. Terms(V, c, text.title, text.description)
  BY <1>2, <1>4, <1>5, Zenon DEF Terms
<1>. QED BY <1>5, <1>6 DEF V

\* The parser and the builder's readers find in a cell's bytes what the cell says.
LEMMA CellReadsBack ==
    ASSUME TextsTyped, NEW c \in CampaignCell
    PROVE  /\ ParseCampaignData(WrittenOut(c)) =
                 {[creator |-> c.creator, goal |-> c.goal, deadline |-> c.deadline,
                   total |-> c.total, status |-> c.status,
                   title |-> text.title, description |-> text.description]}
           /\ ReadTotalPledged(WrittenOut(c)) = c.total
           /\ ReadCampaignStatus(WrittenOut(c)) = c.status
<1>. DEFINE V == Int \cup {c.creator}
            bytes == WrittenOut(c)
            says == [creator |-> c.creator, goal |-> c.goal, deadline |-> c.deadline,
                     total |-> c.total, status |-> c.status,
                     title |-> text.title, description |-> text.description]
            reads(d) == [creator |-> d[1], goal |-> FromLE(Slice(d, GoalAt, DeadlineAt)),
                         deadline |-> FromLE(Slice(d, DeadlineAt, TotalAt)),
                         total |-> ReadTotalPledged(d),
                         status |-> StatusOf(d[StatusAt + 1]), title |-> TitleIn(d),
                         description |-> DescriptionIn(d)]
<1>1. ParseCampaignData(bytes) = {says}
  <2>1. /\ Terms(V, c, text.title, text.description)
        /\ Fits(c.total) /\ c.status \in StatusNames
    BY CellTerms
  <2>. HIDE DEF V
  <2>. QED BY <2>1, CampaignReadsBack DEF WrittenOut
<1>2. ParseCampaignData(bytes) = {reads(d) : d \in {e \in {bytes} : HasHeader(e)}}
  BY Zenon DEF ParseCampaignData
<1>. HIDE DEF reads, says, bytes
<1>3. says = reads(bytes)
  BY <1>1, <1>2
<1>4. /\ says.total = c.total /\ says.status = c.status
      /\ reads(bytes).total = ReadTotalPledged(bytes)
      /\ reads(bytes).status = StatusOf(bytes[StatusAt + 1])
  BY DEF says, reads
<1>5. ReadTotalPledged(bytes) = c.total /\ ReadCampaignStatus(bytes) = c.status
  BY <1>3, <1>4, Zenon DEF ReadCampaignStatus
<1>. QED BY <1>1, <1>5 DEF bytes, says

\* withTotalPledged and withCampaignStatus make of a cell's bytes those of the
\* cell with the other total or status.
LEMMA CellRewritten ==
    ASSUME TextsTyped, NEW c \in CampaignCell, NEW d \in CampaignCell, ImmutableFields(c, d)
    PROVE  /\ d.status = c.status => WithTotalPledged(WrittenOut(c), d.total) = {WrittenOut(d)}
           /\ d.total = c.total => WithCampaignStatus(WrittenOut(c), d.status) = {WrittenOut(d)}
<1>. DEFINE V == Int \cup {c.creator}
            t == text.title
            u == text.description
<1>1. /\ Terms(V, c, t, u) /\ Fits(c.total) /\ c.status \in StatusNames
      /\ Fits(d.total) /\ d.status \in StatusNames
  BY CellTerms
<1>2. WrittenOut(d) = SerializeCampaignDataWithStatus(c, d.total, d.status, t, u)
  BY Zenon DEF WrittenOut, SerializeCampaignDataWithStatus, ImmutableFields
<1>. HIDE DEF V
<1>3. WithTotalPledged(WrittenOut(c), d.total) =
          {SerializeCampaignDataWithStatus(c, d.total, c.status, t, u)}
  BY <1>1, TotalSpliceRewrites DEF WrittenOut
<1>4. WithCampaignStatus(WrittenOut(c), d.status) =
          {SerializeCampaignDataWithStatus(c, c.total, d.status, t, u)}
  BY <1>1, StatusSpliceRewrites DEF WrittenOut
<1>. QED BY <1>2, <1>3, <1>4, Zenon

\* The bytes of the cells there are stay with them, those of a new one with it.
LEMMA BytesStay ==
    ASSUME BytesAsWritten, text' = text, data' = data, campaigns' \subseteq campaigns
    PROVE  BytesAsWritten'
BY DEF BytesAsWritten

LEMMA BytesFollow ==
    ASSUME BytesAsWritten, OneCampaignCell, text' = text, DOMAIN data = Campaigns,
           NEW In \in SUBSET campaigns, NEW c, c.id \in Campaigns,
           \A d \in campaigns \ In : d.id # c.id,
           campaigns' = (campaigns \ In) \cup {c},
           data' = [data EXCEPT ![c.id] = WrittenOut(c)]
    PROVE  BytesAsWritten' /\ DOMAIN data' = Campaigns
<1>1. data'[c.id] = WrittenOut(c) /\ \A d \in campaigns \ In : data'[d.id] = data[d.id]
  BY DEF BytesAsWritten
<1>2. DOMAIN data' = Campaigns
  OBVIOUS
<1>3. \A d \in campaigns' : data'[d.id] = WrittenOut(d)
  BY <1>1 DEF BytesAsWritten, WrittenOut
<1>. QED BY <1>2, <1>3, Zenon DEF BytesAsWritten, WrittenOut

-----------------------------------------------------------------------------
(* A step of a suite                                                        *)

LEMMA TheInvariant ==
    ASSUME SuitesInv
    PROVE  /\ LedgerInv /\ IInv /\ TypeOK /\ OneCampaignCell /\ CampaignsMinted
           /\ LedgerFinite /\ IsFiniteSet(campaigns)
           /\ \A c \in campaigns : c.creator = Creator /\ c \in CampaignCell /\ c.id \in Campaigns
           /\ \A p \in pledges : p.amount > MAX_FEE
           /\ Books(spendable, fees) /\ BalancesExact
           /\ TextsTyped /\ DOMAIN data = Campaigns /\ BytesAsWritten
           /\ \A c \in campaigns : data[c.id] = WrittenOut(c)
<1>1. /\ LedgerInv /\ IInv /\ TypeOK /\ OneCampaignCell /\ CampaignsMinted /\ LedgerFinite
  BY DEF SuitesInv, LedgerInv, IInv
<1>2. \A c \in campaigns : c \in CampaignCell /\ c.id \in Campaigns
  BY <1>1 DEF TypeOK, CampaignCell
<1>. QED BY <1>1, <1>2 DEF SuitesInv, TextsTyped, BytesAsWritten, WrittenOut

\* What a step does but for the money.
KeepsCells(tx) ==
    /\ ClientCommit(tx)
    /\ tx.campOut \cap campaigns = {}
    /\ \A c \in tx.campOut : c.creator = Creator
    /\ \A p \in tx.pledgeOut : p.amount > MAX_FEE
    /\ text' = text
    /\ BytesAsWritten' /\ DOMAIN data' = Campaigns

LEMMA SuiteStep ==
    ASSUME SuitesInv, NEW tx, KeepsCells(tx), NEW bearer, DoubleEntry(tx, bearer),
           NEW signer, NEW funds \in Int, funds = 0 \/ signer = bearer,
           Booked(tx, signer, funds, bearer)
    PROVE  SuitesInv'
<1>1. /\ LedgerInv /\ TypeOK /\ IsFiniteSet(campaigns) /\ Books(spendable, fees) /\ BalancesExact
      /\ TextsTyped /\ ClientCommit(tx) /\ tx.campOut \cap campaigns = {}
  BY TheInvariant DEF KeepsCells
<1>2. LedgerInv'
  BY <1>1, LedgerInvCommit
<1>3. BalancesExact' /\ Books(spendable', fees') /\ IsFiniteSet(campaigns')
  BY <1>1, <1>2, BalanceStep
<1>4. Books(spendable, fees)'
  BY <1>3 DEF Books
<1>5. /\ \A c \in campaigns' : c.creator = Creator
      /\ \A p \in pledges' : p.amount > MAX_FEE
  <2>1. /\ campaigns' = (campaigns \ tx.campIn) \cup tx.campOut
        /\ pledges' = (pledges \ tx.pledgeIn) \cup tx.pledgeOut
    BY <1>1, CommitEffect
  <2>. QED BY <2>1 DEF SuitesInv, KeepsCells
<1>6. /\ text' \in [title : Texts, description : Texts]
      /\ DOMAIN data' = Campaigns /\ BytesAsWritten'
  BY <1>1 DEF TextsTyped, KeepsCells
<1>. QED BY <1>2, <1>3, <1>4, <1>5, <1>6 DEF SuitesInv

LEMMA FundedStep ==
    ASSUME SuitesInv, NEW tx, KeepsCells(tx), NEW signer, DoubleEntry(tx, signer),
           Funded(tx, signer)
    PROVE  SuitesInv'
<1>1. Into(tx) \in Int /\ OutOf(tx) \in Int
  BY TheInvariant, FlowFigures DEF KeepsCells
<1>2. PICK fee \in 1 .. MAX_FEE : Booked(tx, signer, OutOf(tx) + fee - Into(tx), signer)
  BY DEF Funded
<1>. DEFINE funds == OutOf(tx) + fee - Into(tx)
<1>3. funds \in Int
  BY <1>1, LimitsAssumption
<1>4. Booked(tx, signer, funds, signer)
  BY <1>2
<1>. HIDE DEF funds
<1>. QED BY <1>3, <1>4, SuiteStep

LEMMA SelfPaidStep ==
    ASSUME SuitesInv, NEW tx, KeepsCells(tx), NEW bearer, DoubleEntry(tx, bearer),
           SelfPaid(tx, bearer)
    PROVE  SuitesInv'
BY SuiteStep DEF SelfPaid

LEMMA Quiet ==
    ASSUME SuitesInv, LedgerInv',
           campaigns' = campaigns, pledges' = pledges, receipts' = receipts,
           settlements' = settlements, text' = text, data' = data,
           spendable' = spendable, fees' = fees
    PROVE  SuitesInv'
<1>1. Released' = Released
  BY DEF Released
<1>2. BalancesExact'
  BY <1>1, Zenon DEF SuitesInv, BalancesExact
<1>3. Books(spendable, fees)' /\ BytesAsWritten'
  BY DEF SuitesInv, Books, BytesAsWritten
<1>. QED BY <1>2, <1>3 DEF SuitesInv

-----------------------------------------------------------------------------
(* Creating, pledging, finalizing                                           *)

LEMMA CreateKeeps ==
    ASSUME SuitesInv, text' = text, NEW id, NEW goal, NEW deadline,
           Funded(CreateTx(id, Creator, goal, deadline), Creator),
           data' = [data EXCEPT ![id] =
                       SerializeCampaignData(
                           [creator |-> Creator, goal |-> goal, deadline |-> deadline],
                           text.title, text.description)]
    PROVE  SuitesInv'
<1>. DEFINE tx == CreateTx(id, Creator, goal, deadline)
            c == [id |-> id, creator |-> Creator, goal |-> goal, deadline |-> deadline,
                  total |-> 0, status |-> "Active", capacity |-> CampaignCapacity]
<1>1. Commit(tx)
  BY DEF Funded, Booked
<1>2. ClientCommit(tx)
  BY <1>1, CreateKind
<1>3. DoubleEntry(tx, Creator)
  BY <1>2, TheInvariant, CreateEntry
<1>4. tx.campIn = {} /\ tx.campOut = {c} /\ tx.pledgeOut = {}
  BY DEF CreateTx, EmptyTx
<1>5. c.id = id /\ c.creator = Creator
  OBVIOUS
<1>6. data' = [data EXCEPT ![c.id] = WrittenOut(c)]
  <2>1. WrittenOut(c) = SerializeCampaignData(
              [creator |-> Creator, goal |-> goal, deadline |-> deadline],
              text.title, text.description)
    BY DEF WrittenOut, SerializeCampaignData, SerializeCampaignDataWithStatus
  <2>. QED BY <2>1, Zenon
<1>. HIDE DEF tx, c
<1>7. c.id \in Campaigns
  <2>1. c \in CampaignCell
    BY <1>2, <1>4 DEF ClientCommit, Transaction
  <2>. QED BY <2>1 DEF CampaignCell
<1>8. \A d \in campaigns : d.id # c.id
  <2>1. CampaignType(tx, c.id, minted)
    BY <1>1, <1>4 DEF Commit, Valid, ScriptsAccept
  <2>2. c.id \notin minted
    BY <1>4, <2>1 DEF CampaignType
  <2>. QED BY <2>2, TheInvariant DEF CampaignsMinted
<1>9. campaigns' = (campaigns \ {}) \cup {c}
  BY <1>1, <1>4 DEF Commit
<1>10. BytesAsWritten' /\ DOMAIN data' = Campaigns
  BY <1>6, <1>7, <1>8, <1>9, TheInvariant, BytesFollow
<1>11. KeepsCells(tx)
  BY <1>2, <1>4, <1>5, <1>8, <1>10 DEF KeepsCells
<1>. QED BY <1>3, <1>11, FundedStep DEF tx

LEMMA PledgeKeeps ==
    ASSUME SuitesInv, text' = text, NEW cell \in campaigns, NEW id, NEW backer, NEW amount,
           NEW capacity,
           NEW new \in WithTotalPledged(data[cell.id], ReadTotalPledged(data[cell.id]) + amount),
           Funded(PledgeTx(cell, id, backer, amount, capacity, ReadTotalPledged(new)), backer),
           data' = [data EXCEPT ![cell.id] = new]
    PROVE  SuitesInv'
<1>. DEFINE t == ReadTotalPledged(new)
            tx == PledgeTx(cell, id, backer, amount, capacity, t)
            c == [cell EXCEPT !.total = t]
            p == [id |-> id, campaign |-> cell.id, deadline |-> cell.deadline,
                  backer |-> backer, amount |-> amount, capacity |-> capacity]
<1>1. Commit(tx)
  BY DEF Funded, Booked
<1>2. ClientCommit(tx) /\ MakesPledge(tx)
  BY <1>1, PledgeKind
<1>3. DoubleEntry(tx, backer)
  BY <1>2, TheInvariant, PledgeEntry
<1>4. tx.campIn = {cell} /\ tx.campOut = {c} /\ tx.pledgeOut = {p}
  BY DEF PledgeTx, EmptyTx
<1>5. /\ cell \in CampaignCell /\ cell.creator = Creator /\ cell.id \in Campaigns
      /\ data[cell.id] = WrittenOut(cell)
  BY TheInvariant
<1>6. p.amount = amount
  OBVIOUS
<1>. HIDE DEF tx, c, p
<1>7. /\ c \in CampaignCell /\ c.id = cell.id /\ c.status = cell.status
      /\ ImmutableFields(cell, c)
      /\ c.total = cell.total + amount /\ amount > 0 /\ amount >= MIN_PLEDGE_AMOUNT
      /\ p \in PledgeCell
  <2>1. PICK old \in campaigns, n \in CampaignCell, q \in PledgeCell :
              /\ tx.campIn = {old} /\ tx.campOut = {n} /\ tx.pledgeOut = {q}
              /\ n.id = old.id /\ old.status = "Active" /\ n.status = "Active"
              /\ ImmutableFields(old, n)
              /\ n.total = old.total + q.amount
              /\ q.amount > 0 /\ q.amount >= MIN_PLEDGE_AMOUNT
    BY <1>2, TheInvariant, PledgeScript
  <2>2. old = cell /\ n = c /\ q = p
    BY <1>4, <2>1
  <2>. QED BY <1>6, <2>1, <2>2
<1>8. new = WrittenOut(c)
  <2>1. ReadTotalPledged(data[cell.id]) = cell.total
    BY <1>5, TheInvariant, CellReadsBack
  <2>2. new \in WithTotalPledged(WrittenOut(cell), c.total)
    BY <1>5, <1>7, <2>1, Zenon
  <2>3. WithTotalPledged(WrittenOut(cell), c.total) = {WrittenOut(c)}
    BY <1>5, <1>7, TheInvariant, CellRewritten
  <2>. QED BY <2>2, <2>3
<1>9. \A d \in campaigns : d.id = cell.id => d = cell
  BY TheInvariant DEF OneCampaignCell
<1>10. c \notin campaigns
  <2>1. cell.total \in Nat /\ amount \in Nat
    BY <1>5, <1>6, <1>7, U64Assumption DEF CampaignCell, PledgeCell, U64
  <2>2. c.total # cell.total
    BY <1>7, <2>1
  <2>. QED BY <1>7, <1>9, <2>2
<1>11. BytesAsWritten' /\ DOMAIN data' = Campaigns
  <2>1. campaigns' = (campaigns \ {cell}) \cup {c}
    BY <1>1, <1>4 DEF Commit
  <2>2. \A d \in campaigns \ {cell} : d.id # c.id
    BY <1>7, <1>9
  <2>3. data' = [data EXCEPT ![c.id] = WrittenOut(c)] /\ c.id \in Campaigns
    BY <1>5, <1>7, <1>8, Zenon
  <2>4. {cell} \in SUBSET campaigns
    OBVIOUS
  <2>. QED BY <2>1, <2>2, <2>3, <2>4, TheInvariant, BytesFollow
<1>12. p.amount > MAX_FEE
  <2>1. amount \in Nat
    BY <1>6, <1>7, U64Assumption DEF PledgeCell, U64
  <2>. QED BY <1>6, <1>7, <2>1, MinimumAssumption, LimitsAssumption
<1>13. c.creator = Creator
  BY <1>5, <1>7 DEF ImmutableFields
<1>14. KeepsCells(tx)
  BY <1>2, <1>4, <1>10, <1>11, <1>12, <1>13 DEF KeepsCells
<1>. QED BY <1>3, <1>14, FundedStep DEF tx

LEMMA FinalizeKeeps ==
    ASSUME SuitesInv, text' = text, NEW cell \in campaigns, NEW outcome \in {"Success", "Failed"},
           NEW new \in WithCampaignStatus(data[cell.id], outcome), NEW since, NEW signer,
           Funded(FinalizeTx(cell, ReadCampaignStatus(new), cell.capacity, since), signer),
           data' = [data EXCEPT ![cell.id] = new]
    PROVE  SuitesInv'
<1>. DEFINE st == ReadCampaignStatus(new)
            tx == FinalizeTx(cell, st, cell.capacity, since)
            c == [cell EXCEPT !.status = st, !.capacity = cell.capacity]
            d == [cell EXCEPT !.status = outcome]
<1>1. Commit(tx)
  BY DEF Funded, Booked
<1>2. ClientCommit(tx)
  BY <1>1, FinalizeKind
<1>3. DoubleEntry(tx, signer)
  BY <1>2, TheInvariant, FinalizeEntry
<1>4. tx.campIn = {cell} /\ tx.campOut = {c} /\ tx.pledgeOut = {}
  BY DEF FinalizeTx, EmptyTx
<1>5. /\ cell \in CampaignCell /\ cell.creator = Creator /\ cell.id \in Campaigns
      /\ data[cell.id] = WrittenOut(cell)
  BY TheInvariant
<1>6. /\ d \in CampaignCell /\ ImmutableFields(cell, d)
      /\ d.total = cell.total /\ d.status = outcome
  BY <1>5 DEF CampaignCell, CampaignStatus, ImmutableFields
<1>7. new = WrittenOut(d)
  <2>. HIDE DEF d
  <2>1. WithCampaignStatus(WrittenOut(cell), d.status) = {WrittenOut(d)}
    BY <1>5, <1>6, TheInvariant, CellRewritten
  <2>2. new \in WithCampaignStatus(WrittenOut(cell), d.status)
    BY <1>5, <1>6, Zenon
  <2>. QED BY <2>1, <2>2
<1>8. st = outcome
  <2>. HIDE DEF d
  <2>1. ReadCampaignStatus(WrittenOut(d)) = outcome
    BY <1>6, TheInvariant, CellReadsBack
  <2>. QED BY <1>7, <2>1, Zenon
<1>9. c = d
  BY <1>5, <1>8 DEF CampaignCell
<1>10. c.id = cell.id /\ c.creator = Creator /\ c.status # "Active" /\ c.status = outcome
  BY <1>5, <1>8 DEF CampaignCell
<1>. HIDE DEF st, tx, c, d
<1>11. \A x \in campaigns : x.id = cell.id => x = cell
  BY TheInvariant DEF OneCampaignCell
<1>12. c \notin campaigns
  <2>1. CampaignType(tx, cell.id, minted)
    BY <1>1, <1>4 DEF Commit, Valid, ScriptsAccept
  <2>2. Finalization(cell, c, tx)
    BY <1>4, <1>10, <2>1 DEF CampaignType
  <2>. QED BY <1>10, <1>11, <2>2 DEF Finalization
<1>13. BytesAsWritten' /\ DOMAIN data' = Campaigns
  <2>1. campaigns' = (campaigns \ {cell}) \cup {c}
    BY <1>1, <1>4 DEF Commit
  <2>2. \A x \in campaigns \ {cell} : x.id # c.id
    BY <1>10, <1>11
  <2>3. data' = [data EXCEPT ![c.id] = WrittenOut(c)] /\ c.id \in Campaigns
    BY <1>5, <1>7, <1>9, <1>10, Zenon
  <2>4. {cell} \in SUBSET campaigns
    OBVIOUS
  <2>. QED BY <2>1, <2>2, <2>3, <2>4, TheInvariant, BytesFollow
<1>14. KeepsCells(tx)
  BY <1>2, <1>4, <1>10, <1>12, <1>13 DEF KeepsCells
<1>. QED BY <1>3, <1>14, FundedStep DEF st, tx

-----------------------------------------------------------------------------
(* Settling, merging, reclaiming                                            *)

\* A transaction without campaign outputs leaves the bytes alone.
LEMMA KeepsBytes ==
    ASSUME SuitesInv, text' = text, data' = data, NEW tx, ClientCommit(tx),
           tx.campOut = {}, \A p \in tx.pledgeOut : p.amount > MAX_FEE
    PROVE  KeepsCells(tx)
<1>1. campaigns' \subseteq campaigns
  BY DEF ClientCommit, Commit
<1>2. BytesAsWritten'
  BY <1>1, TheInvariant, BytesStay
<1>. QED BY <1>2, TheInvariant DEF KeepsCells

LEMMA SettleKeeps ==
    ASSUME SuitesInv, text' = text, data' = data, NEW p \in pledges, NEW deps, NEW since,
           NEW fee \in 1 .. MAX_FEE, NEW pay,
           pay = ReleasePay({p}, Creator, p.amount, fee) \/ pay = RefundPay({p}, fee),
           SelfPaid(SettleTx({p}, deps, since, pay), p.backer)
    PROVE  SuitesInv'
<1>. DEFINE tx == SettleTx({p}, deps, since, pay)
<1>1. Commit(tx)
  BY DEF SelfPaid, Booked
<1>2. ClientCommit(tx)
  BY <1>1, SettleKind
<1>3. SettlesPledges(tx) /\ tx.pledgeIn = {p} /\ tx.pay = pay
  BY DEF SettleTx, EmptyTx, SettlesPledges
<1>. HIDE DEF tx
<1>4. tx.campOut = {} /\ tx.pledgeOut = {}
  BY <1>3 DEF SettlesPledges
<1>5. DoubleEntry(tx, p.backer)
  <2>1. \/ tx.pay = ReleasePay({p}, Creator, p.amount, fee)
        \/ tx.pay = RefundPay({p}, fee)
    BY <1>3
  <2>2. p.amount > MAX_FEE /\ LedgerInv /\ \A c \in campaigns : c.creator = Creator
    BY TheInvariant
  <2>. QED BY <1>2, <1>3, <2>1, <2>2, SettleEntry
<1>6. KeepsCells(tx)
  BY <1>2, <1>4, KeepsBytes
<1>. QED BY <1>5, <1>6, SelfPaidStep DEF tx

\* Nothing and a single cell do not merge: the type script finds no amount, the
\* lock script no second cell.
LEMMA MergesSeveral ==
    ASSUME NEW P, NEW lock, NEW id, NEW capacity, Commit(MergeTx(P, lock, id, Amount(P), capacity))
    PROVE  ~AtMostOne(P)
<1>. DEFINE tx == MergeTx(P, lock, id, Amount(P), capacity)
            m == [id |-> id, campaign |-> lock.campaign, deadline |-> lock.deadline,
                  backer |-> lock.backer, amount |-> Amount(P), capacity |-> capacity]
<1>1. tx.since = 0 /\ tx.pledgeIn = P /\ tx.pledgeOut = {m} /\ m.amount = Amount(P)
  BY DEF MergeTx, EmptyTx
<1>2. ScriptsAccept(tx, minted)
  BY DEF Commit, Valid
<1>. HIDE DEF tx, m
<1>3. P # {}
  <2>. SUFFICES ASSUME P = {} PROVE FALSE
    OBVIOUS
  <2>1. PledgeType(tx)
    BY <1>2 DEF ScriptsAccept
  <2>2. m.amount > 0
    BY <1>1, <2>1 DEF PledgeType
  <2>3. m.amount = 0
    BY <1>1, AmountEmpty
  <2>. QED BY <2>2, <2>3
<1>4. PICK q \in P : TRUE
  BY <1>3
<1>5. MergeLock(tx, LockOf(q))
  BY <1>1, <1>2, <1>4 DEF ScriptsAccept, PledgeLock
<1>. QED BY <1>1, <1>5 DEF MergeLock, Group, AtMostOne

LEMMA MergeKeeps ==
    ASSUME SuitesInv, text' = text, data' = data, NEW P \in SUBSET pledges, NEW lock, NEW id,
           NEW signer, Funded(MergeTx(P, lock, id, Amount(P), Capacity(P)), signer)
    PROVE  SuitesInv'
<1>. DEFINE tx == MergeTx(P, lock, id, Amount(P), Capacity(P))
<1>1. Commit(tx)
  BY DEF Funded, Booked
<1>2. ClientCommit(tx) /\ MergesPledges(tx)
  BY <1>1, MergesSeveral, MergeKind
<1>3. tx.pay = NoPay /\ tx.pledgeIn = P /\ tx.campOut = {}
  BY DEF MergeTx, EmptyTx
<1>. HIDE DEF tx
<1>4. DoubleEntry(tx, signer)
  BY <1>2, <1>3, TheInvariant, MergeEntry DEF LedgerFinite
<1>5. PICK m \in PledgeCell : /\ tx.pledgeOut = {m} /\ P # {} /\ m.amount = Amount(P)
  BY <1>2, <1>3, TheInvariant, MergeScript
<1>6. m.amount > MAX_FEE
  <2>1. PICK q \in P : TRUE
    BY <1>5
  <2>2. /\ IsFiniteSet(P) /\ IsFiniteSet(P \ {q}) /\ IsFiniteSet({q})
        /\ \A p \in P : p.amount \in Nat /\ p.amount > MAX_FEE
    <3>1. IsFiniteSet(pledges) /\ \A p \in pledges : p.amount \in Nat /\ p.amount > MAX_FEE
      BY TheInvariant, U64Assumption DEF LedgerFinite, TypeOK, PledgeCell, U64
    <3>. QED BY <3>1, FS_Subset, FS_Singleton
  <2>3. P = (P \ {q}) \cup {q} /\ (P \ {q}) \cap {q} = {}
    BY <2>1
  <2>4. Amount((P \ {q}) \cup {q}) = Amount(P \ {q}) + Amount({q})
    BY <2>1, <2>2, <2>3, AmountOfParts
  <2>5. Amount(P \ {q}) \in Nat /\ Amount({q}) = q.amount
    BY <2>1, <2>2, AmountNat, AmountSingle
  <2>6. Amount(P) = Amount(P \ {q}) + q.amount
    BY <2>3, <2>4, <2>5, Zenon
  <2>. QED BY <1>5, <2>1, <2>2, <2>5, <2>6, LimitsAssumption
<1>7. KeepsCells(tx)
  BY <1>2, <1>3, <1>5, <1>6, KeepsBytes
<1>. QED BY <1>4, <1>7, FundedStep DEF tx

LEMMA ReclaimKeeps ==
    ASSUME SuitesInv, text' = text, data' = data, NEW r \in receipts, NEW deps, NEW fee \in Nat,
           SelfPaid([ReclaimTx({r}, deps, 0) EXCEPT
                         !.pay = [NoPay EXCEPT ![r.backer] = ReceiptCapacity - fee]], r.backer)
    PROVE  SuitesInv'
<1>. DEFINE pay == [NoPay EXCEPT ![r.backer] = ReceiptCapacity - fee]
            tx == [ReclaimTx({r}, deps, 0) EXCEPT !.pay = pay]
<1>1. Commit(tx)
  BY DEF SelfPaid, Booked
<1>2. TakesReceipts(tx) /\ tx.receiptIn = {r} /\ tx.pay = pay
  <2>. HIDE DEF pay
  <2>. QED BY DEF ReclaimTx, EmptyTx, TakesReceipts
<1>. HIDE DEF tx
<1>3. ClientCommit(tx)
  BY <1>1, <1>2, ReclaimKind
<1>4. r.backer \in Wallets
  BY TheInvariant DEF TypeOK, ReceiptCell
<1>5. DoubleEntry(tx, r.backer)
  BY <1>2, <1>4, ReclaimEntry
<1>6. KeepsCells(tx)
  BY <1>2, <1>3, KeepsBytes DEF TakesReceipts
<1>. QED BY <1>5, <1>6, SelfPaidStep DEF tx

-----------------------------------------------------------------------------
(* The invariant holds                                                      *)

LEMMA LedgerInvAtStart ==
    ASSUME Start
    PROVE  LedgerInv
<1>1. TypeOK
  <2>1. height \in 0 .. Horizon
    BY AccountsAssumption, FormsAssumption, U64Assumption DEF Start, U64
  <2>. QED BY <2>1 DEF Start, TypeOK
<1>2. IInv
  BY <1>1 DEF Start, IInv, OneCampaignCell, CampaignsMinted, OutcomeJustified,
              DeadlinesAgree, SettledByStatus, AllOrNothing, EscrowUntilDeadline, NoLockout
<1>3. UNION {s.pledges : s \in settlements} = {}
  BY DEF Start
<1>4. LedgerFinite
  BY <1>3, FS_EmptySet DEF Start, LedgerFinite
<1>. QED BY <1>2, <1>4 DEF LedgerInv, Start, SettledOnce, EscrowBacked, HistoryAgrees,
                           AccumulatorExact, ReceiptsMatchPledges, PaidInFull

LEMMA SuitesInvInitial == Start => SuitesInv
<1>. SUFFICES ASSUME Start PROVE SuitesInv
  OBVIOUS
<1>1. /\ campaigns = {} /\ pledges = {} /\ receipts = {} /\ settlements = {}
      /\ text \in [title : Texts, description : Texts]
      /\ data = [c \in Campaigns |-> <<>>]
      /\ spendable = [w \in Wallets |-> Purse] /\ fees = [w \in Wallets |-> 0]
  BY DEF Start
<1>2. Books(spendable, fees)
  BY <1>1, AccountsAssumption DEF Books
<1>3. BalancesExact
  <2>1. Released = {}
    BY <1>1 DEF Released
  <2>2. Countable(receipts, pledges, campaigns) /\ Summable(Released)
    BY <1>1, <2>1, FS_EmptySet DEF Countable, Summable
  <2>3. \A w \in Wallets :
           spendable[w] + fees[w] + Worth({}, {}, {}, w) = Purse - Lost({}, w)
    BY <1>1, WorthOfNothing, AccountsAssumption
  <2>4. Balanced(spendable, fees, receipts, pledges, campaigns, Released)
    BY <1>1, <2>1, <2>3, Zenon DEF Balanced
  <2>. QED BY <1>2, <2>2, <2>4, BalancesForm, BalancedForm
<1>4. BytesAsWritten /\ DOMAIN data = Campaigns
  BY <1>1 DEF BytesAsWritten
<1>5. IsFiniteSet(campaigns)
  BY <1>1, FS_EmptySet
<1>. QED BY <1>1, <1>2, <1>3, <1>4, <1>5, LedgerInvAtStart DEF SuitesInv

LEMMA PlayKeeps ==
    ASSUME SuitesInv, Play
    PROVE  SuitesInv'
<1>0. Advance => text' = text
  BY DEF Advance
<1>1. CASE SuiteCreates
  <2>1. PICK id, goal, deadline : id = Now.campaign /\ goal = Now.goal /\ deadline = Deadline
    OBVIOUS
  <2>2. /\ Funded(CreateTx(id, Creator, goal, deadline), Creator)
        /\ data' = [data EXCEPT ![id] =
                       SerializeCampaignData(
                           [creator |-> Creator, goal |-> goal, deadline |-> deadline],
                           text.title, text.description)]
        /\ text' = text
    BY <1>0, <1>1, <2>1, Zenon DEF SuiteCreates
  <2>. QED BY <2>2, CreateKeeps
<1>2. CASE SuitePledges
  <2>1. PICK cell \in campaigns :
          \E new \in WithTotalPledged(data[cell.id],
                                      ReadTotalPledged(data[cell.id]) + Now.amount) :
             /\ Funded(PledgeOn(cell, new, Now.pledge, Now.backer, Now.amount), Now.backer)
             /\ data' = [data EXCEPT ![cell.id] = new]
    BY <1>2 DEF SuitePledges, LiveCells
  <2>2. PICK id, backer, amount, capacity :
          /\ id = Now.pledge /\ backer = Now.backer /\ amount = Now.amount
          /\ capacity = PledgeOverhead + amount
    OBVIOUS
  <2>3. PICK new \in WithTotalPledged(data[cell.id], ReadTotalPledged(data[cell.id]) + amount) :
             /\ Funded(PledgeTx(cell, id, backer, amount, capacity, ReadTotalPledged(new)), backer)
             /\ data' = [data EXCEPT ![cell.id] = new]
    BY <2>1, <2>2, Zenon DEF PledgeOn
  <2>4. text' = text
    BY <1>0, <1>2 DEF SuitePledges
  <2>. QED BY <2>3, <2>4, PledgeKeeps
<1>3. CASE SuiteAwaits
  <2>1. UNCHANGED <<vars, text, data, spendable, fees>>
    BY <1>3 DEF SuiteAwaits, Advance
  <2>2. LedgerInv'
    BY <2>1, TheInvariant, LedgerInvStep
  <2>. QED BY <2>1, <2>2, Quiet DEF vars
<1>4. CASE SuiteFinalizes
  <2>1. PICK cell \in campaigns :
          \E new \in WithCampaignStatus(data[cell.id], Outcome(data[cell.id])) :
             /\ Funded(FinalizeOn(cell, new, Deadline), Now.signer)
             /\ data' = [data EXCEPT ![cell.id] = new]
    BY <1>4 DEF SuiteFinalizes, LiveCells
  <2>2. PICK outcome, since, signer :
          outcome = Outcome(data[cell.id]) /\ since = Deadline /\ signer = Now.signer
    OBVIOUS
  <2>3. outcome \in {"Success", "Failed"}
    BY <2>2 DEF Outcome
  <2>4. PICK new \in WithCampaignStatus(data[cell.id], outcome) :
             /\ Funded(FinalizeTx(cell, ReadCampaignStatus(new), cell.capacity, since), signer)
             /\ data' = [data EXCEPT ![cell.id] = new]
    BY <2>1, <2>2, Zenon DEF FinalizeOn
  <2>5. text' = text
    BY <1>0, <1>4 DEF SuiteFinalizes
  <2>. QED BY <2>3, <2>4, <2>5, FinalizeKeeps
<1>5. CASE SuiteReleases
  <2>1. PICK p \in pledges, cell \in campaigns, fee \in 1 .. MAX_FEE :
          SelfPaid(SettleTx({p}, {cell}, Deadline, ReleasePay({p}, Creator, p.amount, fee)),
                   p.backer)
    BY <1>5 DEF SuiteReleases, LiveAs, LiveCells
  <2>2. PICK deps, since, pay :
          /\ deps = {cell} /\ since = Deadline
          /\ pay = ReleasePay({p}, Creator, p.amount, fee)
    OBVIOUS
  <2>3. SelfPaid(SettleTx({p}, deps, since, pay), p.backer)
    BY <2>1, <2>2, Zenon
  <2>4. text' = text /\ data' = data
    BY <1>0, <1>5 DEF SuiteReleases
  <2>. QED BY <2>2, <2>3, <2>4, SettleKeeps
<1>6. CASE SuiteRefunds
  <2>1. PICK p \in pledges, cell \in campaigns, fee \in 1 .. MAX_FEE :
          SelfPaid(SettleTx({p}, {cell}, Deadline, RefundPay({p}, fee)), p.backer)
    BY <1>6 DEF SuiteRefunds, LiveAs, LiveCells
  <2>2. PICK deps, since, pay :
          deps = {cell} /\ since = Deadline /\ pay = RefundPay({p}, fee)
    OBVIOUS
  <2>3. SelfPaid(SettleTx({p}, deps, since, pay), p.backer)
    BY <2>1, <2>2, Zenon
  <2>4. text' = text /\ data' = data
    BY <1>0, <1>6 DEF SuiteRefunds
  <2>. QED BY <2>2, <2>3, <2>4, SettleKeeps
<1>7. CASE SuiteMerges
  <2>1. PICK P, id : P = {p \in pledges : p.id \in Now.pledges} /\ id = Now.pledge
    OBVIOUS
  <2>2. PICK lock : Funded(MergeTx(P, lock, id, Amount(P), Capacity(P)), Backer)
    BY <1>7, <2>1, Zenon DEF SuiteMerges
  <2>3. P \in SUBSET pledges
    BY <2>1
  <2>4. text' = text /\ data' = data
    BY <1>0, <1>7 DEF SuiteMerges
  <2>. QED BY <2>2, <2>3, <2>4, MergeKeeps
<1>8. CASE SuiteReclaims
  <2>1. PICK r \in receipts, cell \in campaigns, fee \in 1 .. MAX_FEE :
          SelfPaid([ReclaimTx({r}, {cell}, 0) EXCEPT
                        !.pay = [NoPay EXCEPT ![r.backer] = ReceiptCapacity - fee]], r.backer)
    BY <1>8 DEF SuiteReclaims, ReceiptsOf, LiveCells
  <2>2. fee \in Nat
    BY LimitsAssumption
  <2>3. text' = text /\ data' = data
    BY <1>0, <1>8 DEF SuiteReclaims
  <2>. QED BY <2>1, <2>2, <2>3, ReclaimKeeps
<1>9. CASE SuiteIsRefused
  <2>1. UNCHANGED <<vars, text, data, spendable, fees>>
    BY <1>9 DEF SuiteIsRefused, Advance
  <2>2. LedgerInv'
    BY <2>1, TheInvariant, LedgerInvStep
  <2>. QED BY <2>1, <2>2, Quiet DEF vars
<1>. QED BY <1>1, <1>2, <1>3, <1>4, <1>5, <1>6, <1>7, <1>8, <1>9 DEF Play

LEMMA SuitesInvStep == SuitesInv /\ [SuiteNext]_allVars => SuitesInv'
<1>. SUFFICES ASSUME SuitesInv, [SuiteNext]_allVars
              PROVE  SuitesInv'
  OBVIOUS
<1>1. CASE UNCHANGED allVars
  <2>1. UNCHANGED <<vars, text, data, spendable, fees>>
    BY <1>1 DEF allVars, suiteVars
  <2>2. LedgerInv'
    BY <2>1, TheInvariant, LedgerInvStep
  <2>. QED BY <2>1, <2>2, Quiet DEF vars
<1>2. CASE BlockComes
  <2>1. LedgerInv'
    BY <1>2, TheInvariant, LedgerInvBlock DEF BlockComes
  <2>. QED BY <1>2, <2>1, Quiet DEF BlockComes, NewBlock, suiteVars
<1>. QED BY <1>1, <1>2, PlayKeeps DEF SuiteNext

\* The inductive invariant of the suites, whatever the suites are: no step of
\* its proof looks into Suites (all steps of module DevnetSuites).
THEOREM SuitesInvHolds == SuiteSpec => []SuitesInv
  BY SuitesInvInitial, SuitesInvStep, PTL DEF SuiteSpec

\* Every wallet's money is accounted for after every step, to the shannon: in
\* plain cells, fees, receipts, pledges, campaign cells and released pledges
\* (test-accounting.ts, completeFeeBy and the fee cuts of the builder).
THEOREM BalancesAddUp == SuiteSpec => []BalancesExact
<1>1. SuitesInv => BalancesExact
  BY DEF SuitesInv
<1>. QED BY <1>1, SuitesInvHolds, PTL

LEMMA CellsSayTheirData == SuitesInv => DataMatchesCell
<1>. SUFFICES ASSUME SuitesInv PROVE DataMatchesCell
  OBVIOUS
<1>1. ASSUME NEW c \in campaigns
      PROVE  ParseCampaignData(data[c.id]) =
                 {[creator |-> c.creator, goal |-> c.goal, deadline |-> c.deadline,
                   total |-> c.total, status |-> c.status,
                   title |-> text.title, description |-> text.description]}
  <2>1. TextsTyped /\ c \in CampaignCell /\ data[c.id] = WrittenOut(c)
    BY TheInvariant
  <2>2. ParseCampaignData(WrittenOut(c)) =
                 {[creator |-> c.creator, goal |-> c.goal, deadline |-> c.deadline,
                   total |-> c.total, status |-> c.status,
                   title |-> text.title, description |-> text.description]}
    BY <2>1, CellReadsBack
  <2>. QED BY <2>1, <2>2, Zenon
<1>2. ASSUME NEW p \in pledges
      PROVE  LET bytes == SerializePledgeData(p.campaign, p.backer, p.amount)
             IN  /\ ReadPledgeAmount(bytes) = {p.amount}
                 /\ ParsePledgeData(bytes) =
                       {[campaign |-> p.campaign, backer |-> p.backer, amount |-> p.amount]}
                 /\ ParsePledgeLockArgs(SerializePledgeLockArgs(p.campaign, p.deadline, p.backer))
                       = {LockOf(p)}
  <2>1. Fits(p.amount) /\ Fits(p.deadline)
    BY TheInvariant, U64Fits DEF TypeOK, PledgeCell
  <2>2. LET bytes == SerializePledgeData(p.campaign, p.backer, p.amount)
        IN  /\ ReadPledgeAmount(bytes) = {p.amount}
            /\ ParsePledgeData(bytes) =
                  {[campaign |-> p.campaign, backer |-> p.backer, amount |-> p.amount]}
    BY <2>1, PledgeReadsBack
  <2>3. ParsePledgeLockArgs(SerializePledgeLockArgs(p.campaign, p.deadline, p.backer))
            = {LockOf(p)}
    BY <2>1, LockArgsReadBack DEF LockOf
  <2>. QED BY <2>2, <2>3, Zenon
<1>3. ASSUME NEW r \in receipts
      PROVE  ParseReceiptData(SerializeReceiptData(r.amount, r.backer, r.campaign, r.deadline)) =
                 {[amount |-> r.amount, backer |-> r.backer]}
  <2>1. Fits(r.amount) /\ Fits(r.deadline)
    BY TheInvariant, U64Fits DEF TypeOK, ReceiptCell
  <2>. QED BY <2>1, ReceiptReadsBack
<1>. QED BY <1>1, <1>2, <1>3, Zenon DEF DataMatchesCell

\* After any number of splices the bytes of a campaign cell, title and
\* description included, say what the cell says, and so do those of a pledge, a
\* receipt and a pledge lock (withTotalPledged, withCampaignStatus, parser.ts).
THEOREM DataSaysWhatCellsSay == SuiteSpec => []DataMatchesCell
  BY CellsSayTheirData, SuitesInvHolds, PTL

=============================================================================
