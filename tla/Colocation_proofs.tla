-------------------------- MODULE Colocation_proofs --------------------------
(***************************************************************************)
(* Proofs about the colocation ring, for every ring, every choice of       *)
(* FALLBACK members, every bound and both readings of the timeout.         *)
(***************************************************************************)
EXTENDS Colocation, TLAPS

-----------------------------------------------------------------------------
(* The data types.                                                         *)

LEMMA LedgerCopy ==
  ASSUME NEW s \in Seq(Row)
  PROVE  /\ s \in [DOMAIN s -> Row]
         /\ DOMAIN s = 1..Len(s) /\ Len(s) \in Nat /\ DOMAIN s \subseteq Nat
  OBVIOUS

LEMMA LedgerAppend ==
  ASSUME NEW s \in Seq(Row), NEW r \in Row
  PROVE  /\ Append(s, r) \in Seq(Row)
         /\ DOMAIN Append(s, r) = DOMAIN s \cup {Len(s) + 1}
         /\ Len(s) + 1 \notin DOMAIN s
         /\ Append(s, r)[Len(s) + 1] = r
         /\ \A i \in DOMAIN s : Append(s, r)[i] = s[i]
  OBVIOUS

LEMMA LedgerExcept ==
  ASSUME NEW s \in Seq(Row), NEW i \in DOMAIN s, NEW r \in Row
  PROVE  /\ [s EXCEPT ![i] = r] \in Seq(Row)
         /\ DOMAIN [s EXCEPT ![i] = r] = DOMAIN s
         /\ [s EXCEPT ![i] = r][i] = r
         /\ \A j \in DOMAIN s : j # i => [s EXCEPT ![i] = r][j] = s[j]
  OBVIOUS

LEMMA UngrantedType == Ungranted \in Grant /\ Ungranted.target \notin Services
  BY AuthorityAssumption DEF Grant, Ungranted

LEMMA GrantType ==
  ASSUME NEW g \in Grant, g # Ungranted
  PROVE  /\ g.seq \in Nat /\ g.source \in Services \cup {Authority}
         /\ g.target \in Services /\ g.row \in Nat
  BY DEF Grant

LEMMA SeqType ==
  ASSUME NEW g \in Grant
  PROVE  g.seq \in Int /\ g.seq >= -1
  BY DEF Grant, Ungranted

LEMMA OpenRowType ==
  ASSUME NEW s \in Services, NEW kind \in {"on_demand", "fallback"}, NEW key \in Nat
  PROVE  /\ OpenRow(s, kind, key) \in Row
         /\ OpenRow(s, kind, key).svc = s
         /\ OpenRow(s, kind, key).state = "open"
         /\ OpenRow(s, kind, key).grant = Ungranted
  BY UngrantedType DEF OpenRow, Row

LEMMA RingMembers == Ring[1] \in Services /\ Fallback \subseteq Services
  BY ModeAssumption

-----------------------------------------------------------------------------
(* Consequences of the invariant that several steps need.                  *)

(* What an owner has applied is a granted row of the ledger.               *)
LEMMA OwnerGrant ==
  ASSUME IInv, NEW m \in Services, Owns(m)
  PROVE  /\ granted[m] # Ungranted
         /\ granted[m].row \in GrantedRows
         /\ ledger[granted[m].row].grant = granted[m]
         /\ granted[m].seq \in Nat
  <1>1. granted[m] # Ungranted
    BY UngrantedType DEF Owns
  <1>2. granted[m].row \in DOMAIN ledger /\ ledger[granted[m].row].grant = granted[m]
    BY <1>1 DEF IInv, GrantsOnLedger
  <1>3. granted[m].row \in GrantedRows
    BY <1>1, <1>2 DEF IInv, RowsWellFormed, GrantedRows
  <1>4. granted[m].seq \in Nat
    BY <1>1, GrantType DEF IInv, TypeOK
  <1> QED
    BY <1>1, <1>2, <1>3, <1>4

(* The token has one owner: two of them would both hold the newest grant.  *)
LEMMA OneOwner ==
  ASSUME IInv, NEW m \in Services, NEW n \in Services, Owns(m), Owns(n)
  PROVE  m = n
  <1>1. granted[m].row \in GrantedRows /\ ledger[granted[m].row].grant = granted[m]
        /\ granted[m].seq \in Nat
    BY OwnerGrant
  <1>2. granted[n].row \in GrantedRows /\ ledger[granted[n].row].grant = granted[n]
        /\ granted[n].seq \in Nat
    BY OwnerGrant
  <1>3. granted[m].seq <= granted[n].seq
    BY <1>1 DEF IInv, GrantsOnLedger
  <1>4. granted[n].seq <= granted[m].seq
    BY <1>2 DEF IInv, GrantsOnLedger
  <1>5. granted[m].seq = granted[n].seq
    BY <1>1, <1>2, <1>3, <1>4
  <1>6. granted[m].row = granted[n].row
    BY <1>1, <1>2, <1>5 DEF IInv, GrantChain
  <1> QED
    BY <1>1, <1>2, <1>6 DEF Owns

LEMMA MemoryTypes ==
  ASSUME IInv, NEW m \in Services
  PROVE  /\ view[m] \in [DOMAIN view[m] -> Row] /\ DOMAIN view[m] \subseteq DOMAIN ledger
         /\ rest[m] \in [DOMAIN rest[m] -> Row] /\ DOMAIN rest[m] \subseteq DOMAIN ledger
  BY DEF IInv, TypeOK, IsCopy

LEMMA LedgerTypes ==
  ASSUME IInv
  PROVE  /\ ledger \in Seq(Row) /\ ledger \in [DOMAIN ledger -> Row]
         /\ DOMAIN ledger = 1..Len(ledger) /\ Len(ledger) \in Nat
         /\ DOMAIN ledger \subseteq Nat
         /\ \A i \in DOMAIN ledger : ledger[i].grant \in Grant
  BY LedgerCopy DEF IInv, TypeOK, Row

-----------------------------------------------------------------------------
(* The invariant holds initially.                                          *)

LEMMA InitIInv == Init => IInv
  <1> SUFFICES ASSUME Init PROVE IInv
    OBVIOUS
  <1> USE DEF Init
  <1>1. TypeOK
    <2>1. ledger \in Seq(Row)
      OBVIOUS
    <2>2. NoRows \in [DOMAIN NoRows -> Row] /\ DOMAIN NoRows = {}
      BY DEF NoRows
    <2>3. \A m \in Services : view[m] = NoRows /\ rest[m] = NoRows
      OBVIOUS
    <2>4. granted \in [Services -> Grant]
      BY UngrantedType
    <2>5. windows \in [Services -> Nat] /\ leases \in [Services -> SUBSET Nat]
      OBVIOUS
    <2> QED
      BY <2>1, <2>2, <2>3, <2>4, <2>5 DEF TypeOK, IsCopy
  <1>2. \A m \in Services : ~Owns(m)
    BY UngrantedType DEF Owns
  <1>3. DOMAIN ledger = {} /\ GrantedRows = {}
    BY DEF GrantedRows
  <1>4. \A m \in Services : DOMAIN view[m] = {} /\ DOMAIN rest[m] = {}
    BY DEF NoRows
  <1> QED
    BY <1>1, <1>2, <1>3, <1>4
    DEF IInv, RowsWellFormed, GrantsOnLedger, MemoryFaithful, TransferInOrder,
        GrantChain, LiveRowIsNewest

-----------------------------------------------------------------------------
(* Steps that at most append an open row to the ledger.                    *)

Appends ==
  \E r \in Row :
    /\ r.state = "open" /\ r.grant = Ungranted
    /\ ledger # <<>> \/ r.svc = Ring[1]
    /\ ledger' = Append(ledger, r)

LEMMA LedgerGrows ==
  ASSUME IInv, UNCHANGED ledger \/ Appends
  PROVE  /\ ledger' \in Seq(Row)
         /\ DOMAIN ledger \subseteq DOMAIN ledger'
         /\ \A i \in DOMAIN ledger : ledger'[i] = ledger[i]
         /\ GrantedRows' = GrantedRows
         /\ RowsWellFormed' /\ GrantChain' /\ LiveRowIsNewest'
  <1>1. CASE UNCHANGED ledger
    BY <1>1 DEF IInv, TypeOK, GrantedRows, RowsWellFormed, GrantChain, LiveRowIsNewest
  <1>2. CASE Appends
    <2>1. PICK r \in Row :
            /\ r.state = "open" /\ r.grant = Ungranted
            /\ ledger # <<>> \/ r.svc = Ring[1]
            /\ ledger' = Append(ledger, r)
      BY <1>2 DEF Appends
    <2>2. /\ ledger' \in Seq(Row)
          /\ DOMAIN ledger' = DOMAIN ledger \cup {Len(ledger) + 1}
          /\ ledger'[Len(ledger) + 1] = r
          /\ \A i \in DOMAIN ledger : ledger'[i] = ledger[i]
      <3>1. ledger \in Seq(Row)
        BY LedgerTypes
      <3>2. /\ Append(ledger, r) \in Seq(Row)
            /\ DOMAIN Append(ledger, r) = DOMAIN ledger \cup {Len(ledger) + 1}
            /\ Append(ledger, r)[Len(ledger) + 1] = r
            /\ \A i \in DOMAIN ledger : Append(ledger, r)[i] = ledger[i]
        BY <3>1, LedgerAppend, Zenon
      <3> QED
        BY <2>1, <3>2, Zenon
    <2>3. GrantedRows' = GrantedRows
      <3>1. r.state = "open"
        BY <2>1
      <3> QED
        BY <2>2, <3>1 DEF GrantedRows
    <2>4. RowsWellFormed'
      <3>1. ASSUME NEW i \in DOMAIN ledger', i \notin DOMAIN ledger, i = 1
            PROVE  ledger = <<>>
        BY <2>2, <3>1, LedgerTypes
      <3>2. r.state = "open" /\ r.grant = Ungranted
        BY <2>1
      <3>3. ASSUME NEW i \in DOMAIN ledger', i \notin DOMAIN ledger, i = 1
            PROVE  ledger'[i].svc = Ring[1]
        BY <2>1, <2>2, <3>1, <3>3
      <3> QED
        BY <2>2, <3>2, <3>3 DEF IInv, RowsWellFormed
    <2>5. \A i \in GrantedRows : ledger'[i] = ledger[i]
      BY <2>2 DEF GrantedRows
    <2>6. GrantChain'
      BY <2>3, <2>5 DEF IInv, GrantChain
    <2>7. LiveRowIsNewest'
      BY <2>3, <2>5 DEF IInv, LiveRowIsNewest
    <2> QED
      BY <2>2, <2>3, <2>4, <2>6, <2>7
  <1> QED
    BY <1>1, <1>2

(* A manager whose own variables do not change keeps its part of the       *)
(* invariant when the ledger at most grows.                                *)
LEMMA GrowthKeepsGrants ==
  ASSUME IInv, UNCHANGED ledger \/ Appends, UNCHANGED granted
  PROVE  GrantsOnLedger'
  <1>1. /\ DOMAIN ledger \subseteq DOMAIN ledger'
        /\ \A i \in DOMAIN ledger : ledger'[i] = ledger[i]
        /\ GrantedRows' = GrantedRows
    BY LedgerGrows
  <1>2. \A i \in GrantedRows : ledger'[i] = ledger[i]
    BY <1>1 DEF GrantedRows
  <1> QED
    BY <1>1, <1>2 DEF IInv, GrantsOnLedger, Owns

(* A memory that is a copy of the ledger as it stands. *)
LEMMA LedgerIsCopy ==
  ASSUME ledger' \in Seq(Row)
  PROVE  IsCopy(ledger)'
  BY LedgerCopy DEF IsCopy

LEMMA GrowthKeepsCopies ==
  ASSUME IInv, UNCHANGED ledger \/ Appends, NEW f, IsCopy(f)
  PROVE  DOMAIN f \subseteq DOMAIN ledger' /\ f \in [DOMAIN f -> Row]
  BY LedgerGrows DEF IsCopy

-----------------------------------------------------------------------------
(* One lemma per action: the invariant is preserved.                       *)

LEMMA GenesisRequestStep == IInv /\ IssueGenesisRequest => IInv'
  <1> SUFFICES ASSUME IInv, IssueGenesisRequest PROVE IInv'
    OBVIOUS
  <1> DEFINE r == OpenRow(Ring[1], "fallback", 0)
  <1>1. r \in Row /\ r.state = "open" /\ r.grant = Ungranted /\ r.svc = Ring[1]
    BY RingMembers, OpenRowType
  <1>2. ledger' = Append(ledger, r)
    BY DEF IssueGenesisRequest
  <1>3. Appends
    BY <1>1, <1>2 DEF Appends
  <1> HIDE DEF r
  <1>4. TypeOK'
    <2>1. ledger' \in Seq(Row)
      BY <1>3, LedgerGrows
    <2>2. \A m \in Services : IsCopy(view[m])' /\ IsCopy(rest[m])'
      BY <1>3, GrowthKeepsCopies DEF IInv, TypeOK, IsCopy, IssueGenesisRequest
    <2> QED
      BY <2>1, <2>2 DEF IInv, TypeOK, IssueGenesisRequest
  <1>5. GrantsOnLedger'
    BY <1>3, GrowthKeepsGrants DEF IssueGenesisRequest
  <1>6. MemoryFaithful'
    BY <1>3, LedgerGrows, MemoryTypes DEF IInv, MemoryFaithful, Owns, IssueGenesisRequest
  <1>7. TransferInOrder'
    BY <1>3, LedgerGrows, OwnerGrant DEF IInv, TransferInOrder, Owns, GrantedRows, IssueGenesisRequest
  <1> QED
    BY <1>3, <1>4, <1>5, <1>6, <1>7, LedgerGrows DEF IInv

LEMMA GenesisGrantStep == IInv /\ IssueGenesisGrant => IInv'
  <1> SUFFICES ASSUME IInv, IssueGenesisGrant PROVE IInv'
    OBVIOUS
  <1>1. /\ Len(ledger) = 1 /\ ledger[1].state = "open" /\ DOMAIN ledger = {1}
        /\ ledger \in [DOMAIN ledger -> Row]
    BY LedgerTypes DEF IssueGenesisGrant
  <1>2. GenesisGrant \in Grant /\ GenesisGrant # Ungranted
    BY RingMembers, AuthorityAssumption DEF GenesisGrant, Grant, Ungranted
  <1> DEFINE row == [ledger[1] EXCEPT !.state = "granted", !.grant = GenesisGrant]
  <1>3. ledger' = [ledger EXCEPT ![1] = row]
    BY <1>1 DEF IssueGenesisGrant, Row
  <1>4. row \in Row /\ row.state = "granted" /\ row.grant = GenesisGrant
        /\ row.svc = ledger[1].svc
    BY <1>1, <1>2 DEF Row
  <1> HIDE DEF row
  <1>5. /\ ledger' \in Seq(Row) /\ DOMAIN ledger' = {1} /\ ledger'[1] = row
    <2>1. ledger \in Seq(Row) /\ 1 \in DOMAIN ledger
      BY <1>1, LedgerTypes
    <2>2. /\ [ledger EXCEPT ![1] = row] \in Seq(Row)
          /\ DOMAIN [ledger EXCEPT ![1] = row] = DOMAIN ledger
          /\ [ledger EXCEPT ![1] = row][1] = row
      BY <1>4, <2>1, LedgerExcept, Zenon
    <2> QED
      BY <1>1, <1>3, <2>2, Zenon
  <1>6. GrantedRows = {} /\ GrantedRows' = {1}
    BY <1>1, <1>4, <1>5 DEF GrantedRows
  <1>7. \A m \in Services : granted[m] = Ungranted /\ ~Owns(m)
    <2> SUFFICES ASSUME NEW m \in Services PROVE granted[m] = Ungranted
      BY UngrantedType DEF Owns
    <2>1. ledger[1].grant = Ungranted
      BY <1>1 DEF IInv, RowsWellFormed
    <2> QED
      BY <1>1, <2>1 DEF IInv, GrantsOnLedger
  <1>8. TypeOK'
    BY <1>1, <1>5 DEF IInv, TypeOK, IsCopy, IssueGenesisGrant
  <1>9. RowsWellFormed'
    <2>1. ledger[1].svc = Ring[1]
      BY <1>1 DEF IInv, RowsWellFormed
    <2> QED
      BY <1>2, <1>4, <1>5, <2>1, RingMembers, AuthorityAssumption
      DEF RowsWellFormed, GenesisGrant
  <1>10. GrantsOnLedger'
    BY <1>7 DEF GrantsOnLedger, Owns, IssueGenesisGrant
  <1>11. MemoryFaithful'
    BY <1>1, <1>4, <1>5, <1>7, MemoryTypes DEF IInv, MemoryFaithful, Owns, IssueGenesisGrant
  <1>12. TransferInOrder'
    BY <1>7 DEF IInv, TransferInOrder, Owns, IssueGenesisGrant
  <1>13. GrantChain' /\ LiveRowIsNewest'
    BY <1>4, <1>5, <1>6, <1>2, SeqType DEF GrantChain, LiveRowIsNewest, GenesisGrant
  <1> QED
    BY <1>8, <1>9, <1>10, <1>11, <1>12, <1>13 DEF IInv

LEMMA RequestStep == ASSUME NEW s \in Services PROVE IInv /\ Request(s) => IInv'
  <1> SUFFICES ASSUME IInv, Request(s) PROVE IInv'
    OBVIOUS
  <1> DEFINE r == OpenRow(s, "on_demand", windows'[s])
  <1>1. windows' \in [Services -> Nat]
    BY DEF IInv, TypeOK, Request
  <1>2. /\ r \in Row /\ r.state = "open" /\ r.grant = Ungranted
    BY <1>1, OpenRowType
  <1>3. ledger' = Append(ledger, r)
    BY DEF Request
  <1>4. Appends
    BY <1>2, <1>3 DEF Appends, Request
  <1> HIDE DEF r
  <1>5. TypeOK'
    <2>1. ledger' \in Seq(Row)
      BY <1>4, LedgerGrows
    <2>2. \A m \in Services : IsCopy(view[m])' /\ IsCopy(rest[m])'
      BY <1>4, GrowthKeepsCopies DEF IInv, TypeOK, IsCopy, Request
    <2>3. job' \in [Services -> Nat] /\ worker' \in
            [Services -> {"idle", "waiting", "working", "releasing"}]
      BY LedgerTypes DEF IInv, TypeOK, Request
    <2> QED
      BY <1>1, <2>1, <2>2, <2>3 DEF IInv, TypeOK, Request
  <1>6. GrantsOnLedger'
    BY <1>4, GrowthKeepsGrants DEF Request
  <1>7. MemoryFaithful'
    BY <1>4, LedgerGrows, MemoryTypes DEF IInv, MemoryFaithful, Owns, Request
  <1>8. TransferInOrder'
    BY <1>4, LedgerGrows, OwnerGrant DEF IInv, TransferInOrder, Owns, GrantedRows, Request
  <1> QED
    BY <1>4, <1>5, <1>6, <1>7, <1>8, LedgerGrows DEF IInv

LEMMA WakeStep == ASSUME NEW s \in Services PROVE IInv /\ Wake(s) => IInv'
  BY DEF IInv, Wake, TypeOK, IsCopy, RowsWellFormed, GrantsOnLedger, GrantedRows,
         MemoryFaithful, TransferInOrder, GrantChain, LiveRowIsNewest, Owns

LEMMA AcquireStep == ASSUME NEW m \in Services PROVE IInv /\ Acquire(m) => IInv'
  <1> SUFFICES ASSUME IInv, Acquire(m) PROVE IInv'
    OBVIOUS
  <1>1. TypeOK'
    <2>1. granted[m].row \in Nat
      BY UngrantedType, GrantType DEF IInv, TypeOK, Ungranted
    <2>2. leases' \in [Services -> SUBSET Nat]
      BY <2>1 DEF IInv, TypeOK, Acquire
    <2> QED
      BY <2>2 DEF IInv, TypeOK, IsCopy, Acquire
  <1>2. RowsWellFormed' /\ GrantsOnLedger' /\ GrantChain' /\ LiveRowIsNewest'
    BY LedgerGrows, GrowthKeepsGrants DEF Acquire
  <1>3. MemoryFaithful'
    BY DEF IInv, MemoryFaithful, Owns, Acquire
  <1>4. TransferInOrder'
    BY DEF IInv, TypeOK, TransferInOrder, Owns, Acquire
  <1> QED
    BY <1>1, <1>2, <1>3, <1>4 DEF IInv

LEMMA ReleaseStep == ASSUME NEW s \in Services PROVE IInv /\ Release(s) => IInv'
  <1> SUFFICES ASSUME IInv, Release(s) PROVE IInv'
    OBVIOUS
  <1>1. RowsWellFormed' /\ GrantsOnLedger' /\ GrantChain' /\ LiveRowIsNewest'
    BY LedgerGrows, GrowthKeepsGrants DEF Release
  <1>2. IsCopy(ledger)
    BY LedgerTypes DEF IsCopy
  <1>3. TypeOK'
    BY <1>2 DEF IInv, TypeOK, IsCopy, Release
  <1>4. MemoryFaithful'
    BY DEF IInv, TypeOK, MemoryFaithful, GrantsOnLedger, GrantedRows, Owns, Release
  <1>5. TransferInOrder'
    BY DEF IInv, TypeOK, TransferInOrder, Owns, Release
  <1> QED
    BY <1>1, <1>3, <1>4, <1>5 DEF IInv

(* What a poll may append, and the newest grant it applies.                *)
LEMMA RegisterAppends ==
  ASSUME IInv, NEW m \in Services, Register(m)
  PROVE  UNCHANGED ledger \/ Appends
  <1> SUFFICES ASSUME NEW i \in Registering(m),
                      ledger' = Append(ledger, StandingRow(m, i))
               PROVE  Appends
    BY DEF Register
  <1>1. i \in DOMAIN ledger
    BY DEF Registering, UnseenGrants
  <1>2. ledger[i].grant.seq \in Int /\ ledger[i].grant.seq >= -1
    BY <1>1, LedgerTypes, SeqType
  <1>3. granted[m].seq \in Int /\ granted[m].seq >= -1
    BY SeqType DEF IInv, TypeOK
  <1> DEFINE key == (IF ledger[i].grant.seq > granted[m].seq
                     THEN ledger[i].grant.seq ELSE granted[m].seq) + 1
  <1>4. key \in Nat
    BY <1>2, <1>3
  <1>5. StandingRow(m, i) = OpenRow(m, "fallback", key)
    BY DEF StandingRow
  <1> HIDE DEF key
  <1>6. /\ StandingRow(m, i) \in Row /\ StandingRow(m, i).state = "open"
        /\ StandingRow(m, i).grant = Ungranted
    BY <1>4, <1>5, OpenRowType
  <1>7. ledger # <<>>
    BY <1>1
  <1> QED
    BY <1>6, <1>7 DEF Appends

LEMMA NewestApplies ==
  ASSUME IInv, NEW m \in Services, NEW g \in Applicable(m),
         \A h \in Applicable(m) : h.seq <= g.seq
  PROVE  /\ g \in Grant
         /\ granted[m].seq <= g.seq
         /\ \A i \in GrantedRows : ledger[i].grant.seq <= g.seq
         /\ g # Ungranted => g.row \in GrantedRows /\ ledger[g.row].grant = g
         /\ Owns(m) => g = granted[m]
  <1>1. granted[m] \in Applicable(m) /\ granted[m] \in Grant
    BY DEF Applicable, IInv, TypeOK
  <1>2. granted[m].seq \in Int
    BY <1>1, SeqType
  <1>3. ASSUME NEW i \in NewGrants(m)
        PROVE  /\ i \in GrantedRows /\ ledger[i].grant \in Grant
               /\ ledger[i].grant.seq > granted[m].seq
               /\ ledger[i].grant.row = i
    BY LedgerTypes DEF NewGrants, UnseenGrants, GrantedRows, IInv, RowsWellFormed
  <1>4. g \in Grant /\ granted[m].seq <= g.seq
    BY <1>1, <1>3 DEF Applicable
  <1>5. g.seq \in Int
    BY <1>4, SeqType
  <1>6. ASSUME NEW i \in GrantedRows
        PROVE  ledger[i].grant.seq <= g.seq
    <2>1. i \in DOMAIN ledger /\ ledger[i].state # "open"
      BY DEF GrantedRows
    <2>2. ledger[i].grant.seq \in Int
      BY <2>1, LedgerTypes, SeqType
    <2>3. CASE ledger[i].grant.seq <= granted[m].seq
      BY <1>2, <1>4, <1>5, <2>2, <2>3
    <2>4. CASE ledger[i].grant.seq > granted[m].seq
      <3>1. i \in NewGrants(m)
        BY <1>2, <2>1, <2>2, <2>4 DEF NewGrants, UnseenGrants, IInv, MemoryFaithful
      <3> QED
        BY <3>1 DEF Applicable
    <2> QED
      BY <1>2, <2>2, <2>3, <2>4
  <1>7. g # Ungranted => g.row \in GrantedRows /\ ledger[g.row].grant = g
    <2>1. CASE g = granted[m]
      BY <2>1 DEF IInv, GrantsOnLedger, RowsWellFormed, GrantedRows
    <2>2. CASE \E i \in NewGrants(m) : g = ledger[i].grant
      BY <1>3, <2>2
    <2> QED
      BY <2>1, <2>2 DEF Applicable
  <1>8. Owns(m) => g = granted[m]
    <2>1. ASSUME Owns(m), NEW i \in NewGrants(m) PROVE FALSE
      <3>1. ledger[i].grant.seq <= granted[m].seq
        BY <1>3, <2>1 DEF IInv, GrantsOnLedger
      <3>2. ledger[i].grant.seq \in Int
        BY <1>3, SeqType
      <3> QED
        BY <1>2, <1>3, <3>1, <3>2
    <2> QED
      BY <2>1 DEF Applicable
  <1> QED
    BY <1>4, <1>6, <1>7, <1>8

LEMMA PollStep == ASSUME NEW m \in Services PROVE IInv /\ Poll(m) => IInv'
  <1> SUFFICES ASSUME IInv, Poll(m) PROVE IInv'
    OBVIOUS
  <1>1. UNCHANGED ledger \/ Appends
    BY RegisterAppends DEF Poll
  <1>2. /\ ledger' \in Seq(Row) /\ GrantedRows' = GrantedRows
        /\ DOMAIN ledger \subseteq DOMAIN ledger'
        /\ \A i \in DOMAIN ledger : ledger'[i] = ledger[i]
        /\ RowsWellFormed' /\ GrantChain' /\ LiveRowIsNewest'
    BY <1>1, LedgerGrows
  <1>3. PICK g \in Applicable(m) :
          /\ \A h \in Applicable(m) : h.seq <= g.seq
          /\ granted' = [granted EXCEPT ![m] = g]
          /\ phase' = [phase EXCEPT ![m] = IF g # granted[m] /\ g.target = m
                                           THEN "acquire" ELSE "poll"]
    BY DEF Poll
  <1>4. /\ g \in Grant
        /\ granted[m].seq <= g.seq
        /\ \A i \in GrantedRows : ledger[i].grant.seq <= g.seq
        /\ g # Ungranted => g.row \in GrantedRows /\ ledger[g.row].grant = g
        /\ Owns(m) => g = granted[m]
    BY <1>3, NewestApplies
  <1>5. granted'[m] = g /\ \A n \in Services \ {m} : granted'[n] = granted[n]
    BY <1>3 DEF IInv, TypeOK
  <1>6. view'[m] = ledger' /\ \A n \in Services \ {m} : view'[n] = view[n]
    BY DEF IInv, TypeOK, Poll
  <1>7. TypeOK'
    <2>1. \A n \in Services : IsCopy(view[n])' /\ IsCopy(rest[n])'
      <3>1. IsCopy(ledger)'
        BY <1>2, LedgerIsCopy
      <3> QED
        BY <1>1, <1>6, <3>1, GrowthKeepsCopies DEF IInv, TypeOK, IsCopy, Poll
    <2>2. granted' \in [Services -> Grant]
      BY <1>3, <1>4 DEF IInv, TypeOK
    <2>3. view' = [n \in Services |-> view'[n]]
      BY DEF IInv, TypeOK, Poll
    <2>4. phase' \in [Services -> {"poll", "acquire", "wait", "selected",
                                   "vacated", "closed"}]
      BY <1>3 DEF IInv, TypeOK
    <2> QED
      BY <1>2, <2>1, <2>2, <2>3, <2>4 DEF IInv, TypeOK, Poll
  <1>8. GrantsOnLedger'
    <2>1. \A i \in GrantedRows : i \in DOMAIN ledger /\ ledger'[i] = ledger[i]
      BY <1>2 DEF GrantedRows
    <2>2. \A i \in GrantedRows' : ledger'[i].grant.seq <= granted'[m].seq
      BY <1>2, <1>4, <1>5, <2>1
    <2>3. granted'[m] # Ungranted => /\ granted'[m].row \in DOMAIN ledger'
                                     /\ ledger'[granted'[m].row].grant = granted'[m]
      BY <1>2, <1>4, <1>5, <2>1
    <2>4. ASSUME NEW n \in Services \ {m}
          PROVE  /\ granted'[n] # Ungranted =>
                      /\ granted'[n].row \in DOMAIN ledger'
                      /\ ledger'[granted'[n].row].grant = granted'[n]
                 /\ Owns(n)' => \A i \in GrantedRows' :
                                  ledger'[i].grant.seq <= granted'[n].seq
      BY <1>2, <1>5, <2>1 DEF IInv, GrantsOnLedger, Owns
    <2> QED
      BY <2>2, <2>3, <2>4 DEF GrantsOnLedger
  <1>9. MemoryFaithful'
    <2>1. \A i \in GrantedRows : i \in DOMAIN ledger /\ ledger'[i] = ledger[i]
      BY <1>2 DEF GrantedRows
    <2>2. \A i \in DOMAIN view'[m] :
            /\ view'[m][i] = ledger'[i]
            /\ view'[m][i].state # "open" => ledger'[i].grant.seq <= granted'[m].seq
      BY <1>2, <1>4, <1>5, <1>6, <2>1 DEF GrantedRows
    <2>3. \A n \in Services : rest'[n] = rest[n]
      BY DEF Poll
    <2>4. ASSUME NEW n \in Services \ {m}
          PROVE  \A i \in DOMAIN view'[n] :
                   /\ view'[n][i].svc = ledger'[i].svc
                   /\ view'[n][i].state # "open" =>
                        /\ ledger'[i].state # "open"
                        /\ ledger'[i].grant.seq <= granted'[n].seq
                   /\ Owns(n)' /\ view'[n][i].state = "open" => ledger'[i].state = "open"
      BY <1>2, <1>5, <1>6, MemoryTypes DEF IInv, MemoryFaithful, Owns
    <2>5. \A n \in Services : \A i \in DOMAIN rest'[n] :
            /\ rest'[n][i].svc = ledger'[i].svc
            /\ rest'[n][i].state # "open" => ledger'[i].state # "open"
      BY <1>2, <2>3, MemoryTypes DEF IInv, MemoryFaithful
    <2> QED
      BY <2>2, <2>4, <2>5 DEF MemoryFaithful
  <1>10. TransferInOrder'
    <2>1. \A n \in Services : n # m => phase'[n] = phase[n]
      BY <1>3 DEF IInv, TypeOK
    <2>2. phase'[m] = IF g # granted[m] /\ g.target = m THEN "acquire" ELSE "poll"
      BY <1>3 DEF IInv, TypeOK
    <2>3. chosen[m] = 0 /\ chosen' = chosen /\ resident' = resident
      BY DEF IInv, TransferInOrder, Poll
    <2>4. phase'[m] # "poll" => Owns(m)'
      BY <1>5, <2>2 DEF Owns
    <2>5. resident'[m] => Owns(m)' /\ phase'[m] = "poll"
      BY <1>4, <1>5, <2>2, <2>3 DEF IInv, TransferInOrder, Owns
    <2>6. ASSUME NEW n \in Services \ {m}, phase[n] = "closed"
          PROVE  ledger'[granted'[n].row].state = "closed"
      BY <1>2, <1>5, <2>6, OwnerGrant DEF IInv, TransferInOrder, GrantedRows
    <2>7. ASSUME NEW n \in Services \ {m}
          PROVE  /\ phase'[n] # "poll" => Owns(n)'
                 /\ phase'[n] \in {"selected", "vacated", "closed"} =>
                      /\ chosen'[n] \in DOMAIN view'[n]
                      /\ view'[n][chosen'[n]].state = "open"
                      /\ view'[n][chosen'[n]].svc # n
                 /\ phase'[n] \in {"poll", "acquire", "wait"} => chosen'[n] = 0
                 /\ resident'[n] => Owns(n)' /\ phase'[n] \in {"poll", "wait", "selected"}
      BY <1>5, <1>6, <2>1, <2>3 DEF IInv, TransferInOrder, Owns
    <2> QED
      BY <2>1, <2>2, <2>3, <2>4, <2>5, <2>6, <2>7 DEF TransferInOrder
  <1> QED
    BY <1>2, <1>7, <1>8, <1>9, <1>10 DEF IInv

LEMMA PreemptStep == ASSUME NEW m \in Services PROVE IInv /\ Preempt(m) => IInv'
  <1> SUFFICES ASSUME IInv, Preempt(m) PROVE IInv'
    OBVIOUS
  <1>1. PICK first \in OpenRows(ledger) :
          /\ view' = [view EXCEPT ![m] = Update(@, first, ledger[first])]
          /\ rest' = [rest EXCEPT ![m] = [i \in DOMAIN ledger \ {first} |-> ledger[i]]]
    BY DEF Preempt
  <1>2. first \in DOMAIN ledger /\ ledger[first] \in Row /\ Owns(m) /\ phase[m] = "poll"
    BY LedgerTypes DEF OpenRows, Preempt, Preempts
  <1>3. RowsWellFormed' /\ GrantsOnLedger' /\ GrantChain' /\ LiveRowIsNewest'
    BY LedgerGrows, GrowthKeepsGrants DEF Preempt
  <1> DEFINE new == Update(view[m], first, ledger[first])
             old == [i \in DOMAIN ledger \ {first} |-> ledger[i]]
  <1>4. /\ new \in [DOMAIN view[m] \cup {first} -> Row]
        /\ new[first] = ledger[first]
        /\ \A k \in DOMAIN view[m] : k # first => new[k] = view[m][k]
    <2>1. view[m] \in [DOMAIN view[m] -> Row]
      BY MemoryTypes
    <2> QED
      BY <1>2, <2>1 DEF Update
  <1>5. old \in [DOMAIN ledger \ {first} -> Row]
        /\ \A k \in DOMAIN old : old[k] = ledger[k]
    BY LedgerTypes
  <1>6. /\ view'[m] = new /\ \A n \in Services \ {m} : view'[n] = view[n]
        /\ rest'[m] = old /\ \A n \in Services \ {m} : rest'[n] = rest[n]
        /\ view' = [n \in Services |-> view'[n]]
        /\ rest' = [n \in Services |-> rest'[n]]
    BY <1>1 DEF IInv, TypeOK
  <1> HIDE DEF new, old
  <1>7. TypeOK'
    <2>1. IsCopy(new) /\ IsCopy(old)
      BY <1>2, <1>4, <1>5, MemoryTypes DEF IsCopy
    <2>2. \A n \in Services : IsCopy(view'[n]) /\ IsCopy(rest'[n])
      BY <1>6, <2>1 DEF IInv, TypeOK
    <2> QED
      BY <1>6, <2>2 DEF IInv, TypeOK, IsCopy, Preempt
  <1>8. MemoryFaithful'
    <2>1. \A i \in DOMAIN new :
            /\ new[i].svc = ledger[i].svc
            /\ new[i].state # "open" =>
                 ledger[i].state # "open" /\ ledger[i].grant.seq <= granted[m].seq
            /\ new[i].state = "open" => ledger[i].state = "open"
      BY <1>2, <1>4 DEF OpenRows, IInv, MemoryFaithful
    <2> QED
      BY <1>5, <1>6, <2>1 DEF IInv, MemoryFaithful, Owns, Preempt
  <1>9. TransferInOrder'
    BY <1>2, <1>6 DEF IInv, TypeOK, TransferInOrder, Owns, Preempt
  <1> QED
    BY <1>3, <1>7, <1>8, <1>9 DEF IInv

LEMMA RescanStep == ASSUME NEW m \in Services PROVE IInv /\ Rescan(m) => IInv'
  <1> SUFFICES ASSUME IInv, Rescan(m) PROVE IInv'
    OBVIOUS
  <1>1. RowsWellFormed' /\ GrantsOnLedger' /\ GrantChain' /\ LiveRowIsNewest'
    BY LedgerGrows, GrowthKeepsGrants DEF Rescan
  <1>2. IsCopy(ledger)
    BY LedgerTypes DEF IsCopy
  <1>3. TypeOK'
    BY <1>2 DEF IInv, TypeOK, IsCopy, Rescan
  <1>4. Owns(m) /\ phase[m] = "wait"
    BY DEF IInv, TransferInOrder, Rescan
  <1>5. MemoryFaithful'
    BY <1>4 DEF IInv, TypeOK, MemoryFaithful, GrantsOnLedger, GrantedRows, Owns, Rescan
  <1>6. TransferInOrder'
    BY <1>4 DEF IInv, TypeOK, TransferInOrder, Owns, Rescan
  <1> QED
    BY <1>1, <1>3, <1>5, <1>6 DEF IInv

LEMMA VacateStep == ASSUME NEW m \in Services PROVE IInv /\ Vacate(m) => IInv'
  <1> SUFFICES ASSUME IInv, Vacate(m) PROVE IInv'
    OBVIOUS
  <1>1. RowsWellFormed' /\ GrantsOnLedger' /\ GrantChain' /\ LiveRowIsNewest'
    BY LedgerGrows, GrowthKeepsGrants DEF Vacate
  <1>2. TypeOK'
    BY DEF IInv, TypeOK, IsCopy, Vacate
  <1>3. MemoryFaithful'
    BY DEF IInv, MemoryFaithful, Owns, Vacate
  <1>4. TransferInOrder'
    BY DEF IInv, TypeOK, TransferInOrder, Owns, Vacate
  <1> QED
    BY <1>1, <1>2, <1>3, <1>4 DEF IInv

LEMMA SelectStep == ASSUME NEW m \in Services PROVE IInv /\ Select(m) => IInv'
  <1> SUFFICES ASSUME IInv, Select(m) PROVE IInv'
    OBVIOUS
  <1>1. Owns(m) /\ phase[m] = "wait" /\ phase' = [phase EXCEPT ![m] = "selected"]
    BY DEF IInv, TransferInOrder, Select
  <1>2. CASE Candidates(m) # {}
    <2>1. PICK i \in Candidates(m) : chosen' = [chosen EXCEPT ![m] = i]
      BY <1>2 DEF Select
    <2>2. ledger' = ledger /\ view' = view
      BY <1>2 DEF Select
    <2>3. i \in DOMAIN view[m] /\ view[m][i].state = "open" /\ view[m][i].svc # m
      BY DEF Candidates, OpenRows
    <2>4. i \in Nat
      BY <2>3, MemoryTypes, LedgerTypes
    <2>5. RowsWellFormed' /\ GrantsOnLedger' /\ GrantChain' /\ LiveRowIsNewest'
      BY <2>2, LedgerGrows, GrowthKeepsGrants DEF Select
    <2>6. TypeOK'
      BY <1>1, <2>1, <2>2, <2>4 DEF IInv, TypeOK, IsCopy, Select
    <2>7. MemoryFaithful'
      BY <2>2 DEF IInv, MemoryFaithful, Owns, Select
    <2>8. TransferInOrder'
      BY <1>1, <2>1, <2>2, <2>3 DEF IInv, TypeOK, TransferInOrder, Owns, Select
    <2> QED
      BY <2>5, <2>6, <2>7, <2>8 DEF IInv
  <1>3. CASE Candidates(m) = {}
    <2> DEFINE r == ReturnRow(m)
               pos == Len(ledger) + 1
    <2>1. /\ granted[m].source # Authority
          /\ chosen' = [chosen EXCEPT ![m] = pos]
          /\ ledger' = Append(ledger, r)
          /\ view' = [view EXCEPT ![m] = Update(@, chosen'[m], r)]
      BY <1>3 DEF Select
    <2>2. /\ granted[m].source \in Services /\ granted[m].seq + 1 \in Nat
          /\ granted[m].row \in DOMAIN ledger
      BY <1>1, <2>1, OwnerGrant, GrantType DEF GrantedRows, IInv, TypeOK
    <2>3. r \in Row /\ r.state = "open" /\ r.grant = Ungranted /\ r.svc = granted[m].source
      BY <2>2, OpenRowType DEF ReturnRow
    <2> HIDE DEF r
    <2>4. Appends
      BY <2>1, <2>2, <2>3 DEF Appends
    <2>5. ledger \in Seq(Row) /\ Len(ledger) \in Nat /\ pos \in Nat
      BY LedgerTypes
    <2>6. pos \notin DOMAIN ledger /\ pos \in DOMAIN ledger' /\ ledger'[pos] = r
      <3>1. /\ DOMAIN Append(ledger, r) = DOMAIN ledger \cup {Len(ledger) + 1}
            /\ Len(ledger) + 1 \notin DOMAIN ledger
            /\ Append(ledger, r)[Len(ledger) + 1] = r
        BY <2>3, <2>5, LedgerAppend, Zenon
      <3> QED
        BY <2>1, <3>1
    <2>7. /\ ledger' \in Seq(Row) /\ GrantedRows' = GrantedRows
          /\ DOMAIN ledger \subseteq DOMAIN ledger'
          /\ \A i \in DOMAIN ledger : ledger'[i] = ledger[i]
          /\ RowsWellFormed' /\ GrantsOnLedger' /\ GrantChain' /\ LiveRowIsNewest'
      BY <2>4, LedgerGrows, GrowthKeepsGrants DEF Select
    <2>8. chosen'[m] = pos /\ \A n \in Services \ {m} : chosen'[n] = chosen[n]
      BY <2>1 DEF IInv, TypeOK
    <2> HIDE DEF pos
    <2> DEFINE new == Update(view[m], pos, r)
    <2>9. /\ new \in [DOMAIN view[m] \cup {pos} -> Row]
          /\ new[pos] = r
          /\ \A k \in DOMAIN view[m] : k # pos => new[k] = view[m][k]
      <3>1. view[m] \in [DOMAIN view[m] -> Row]
        BY MemoryTypes
      <3> QED
        BY <2>3, <3>1 DEF Update
    <2>10. /\ view'[m] = new /\ \A n \in Services \ {m} : view'[n] = view[n]
           /\ view' = [n \in Services |-> view'[n]]
      BY <2>1, <2>8 DEF IInv, TypeOK
    <2> HIDE DEF new
    <2>11. TypeOK'
      <3>1. IsCopy(view[m])'
        BY <2>6, <2>7, <2>9, <2>10, MemoryTypes DEF IsCopy
      <3>2. \A n \in Services : IsCopy(view[n])' /\ IsCopy(rest[n])'
        <4>1. ASSUME NEW n \in Services PROVE IsCopy(rest[n])'
          BY <2>7, MemoryTypes DEF IsCopy, Select
        <4>2. ASSUME NEW n \in Services \ {m} PROVE IsCopy(view[n])'
          BY <2>7, <2>10, MemoryTypes DEF IsCopy
        <4> QED
          BY <3>1, <4>1, <4>2
      <3>3. chosen' \in [Services -> Nat]
        BY <2>1, <2>5 DEF IInv, TypeOK
      <3> QED
        BY <1>1, <2>7, <2>10, <3>2, <3>3 DEF IInv, TypeOK, Select
    <2>12. MemoryFaithful'
      <3>1. \A i \in DOMAIN new :
              /\ new[i].svc = ledger'[i].svc
              /\ new[i].state # "open" =>
                   ledger'[i].state # "open" /\ ledger'[i].grant.seq <= granted[m].seq
              /\ new[i].state = "open" => ledger'[i].state = "open"
        BY <1>1, <2>3, <2>6, <2>7, <2>9, MemoryTypes DEF IInv, MemoryFaithful
      <3> QED
        BY <2>7, <2>10, <3>1, MemoryTypes DEF IInv, MemoryFaithful, Owns, Select
    <2>13. TransferInOrder'
      <3>1. /\ pos \in DOMAIN view'[m] /\ view'[m][pos].state = "open"
            /\ view'[m][pos].svc # m
        <4>1. granted[m].source # m
          BY <1>1, OwnerGrant DEF IInv, RowsWellFormed, GrantedRows, Owns
        <4> QED
          BY <2>3, <2>9, <2>10, <4>1
      <3>2. \A n \in Services : granted'[n] = granted[n] /\ resident'[n] = resident[n]
        BY DEF Select
      <3>3. phase'[m] = "selected" /\ \A n \in Services \ {m} : phase'[n] = phase[n]
        BY <1>1 DEF IInv, TypeOK
      <3>4. ASSUME NEW n \in Services \ {m}, phase[n] = "closed"
            PROVE  ledger'[granted'[n].row].state = "closed"
        BY <2>7, <3>2, <3>4, OwnerGrant DEF IInv, TransferInOrder, GrantedRows
      <3> QED
        BY <1>1, <2>8, <2>10, <3>1, <3>2, <3>3, <3>4 DEF IInv, TransferInOrder, Owns
    <2> QED
      BY <2>7, <2>11, <2>12, <2>13 DEF IInv
  <1> QED
    BY <1>2, <1>3

LEMMA CloseStep == ASSUME NEW m \in Services PROVE IInv /\ Close(m) => IInv'
  <1> SUFFICES ASSUME IInv, Close(m) PROVE IInv'
    OBVIOUS
  <1> DEFINE c == granted[m].row
             row == [ledger[c] EXCEPT !.state = "closed"]
  <1>1. Owns(m) /\ phase[m] = "vacated" /\ phase' = [phase EXCEPT ![m] = "closed"]
    BY DEF IInv, TransferInOrder, Close
  <1>2. c \in GrantedRows /\ c \in DOMAIN ledger /\ ledger[c] \in Row
        /\ ledger[c].state # "open"
    BY <1>1, OwnerGrant, LedgerTypes DEF GrantedRows
  <1>3. /\ row \in Row /\ row.state = "closed" /\ row.svc = ledger[c].svc
        /\ row.grant = ledger[c].grant
    BY <1>2 DEF Row
  <1>4. ledger' = [ledger EXCEPT ![c] = row]
    BY <1>2 DEF Close, Row
  <1> HIDE DEF row, c
  <1>5. /\ ledger' \in Seq(Row) /\ DOMAIN ledger' = DOMAIN ledger /\ ledger'[c] = row
        /\ \A i \in DOMAIN ledger : i # c => ledger'[i] = ledger[i]
    <2>1. ledger \in Seq(Row)
      BY LedgerTypes
    <2>2. /\ [ledger EXCEPT ![c] = row] \in Seq(Row)
          /\ DOMAIN [ledger EXCEPT ![c] = row] = DOMAIN ledger
          /\ [ledger EXCEPT ![c] = row][c] = row
          /\ \A i \in DOMAIN ledger : i # c => [ledger EXCEPT ![c] = row][i] = ledger[i]
      BY <1>2, <1>3, <2>1, LedgerExcept, Zenon
    <2> QED
      BY <1>4, <2>2, Zenon
  <1>6. \A i \in DOMAIN ledger :
          /\ ledger'[i].svc = ledger[i].svc
          /\ ledger'[i].grant = ledger[i].grant
          /\ ledger'[i].state = "open" <=> ledger[i].state = "open"
          /\ ledger[i].state = "closed" => ledger'[i].state = "closed"
          /\ ledger'[i].state = "granted" => ledger[i].state = "granted"
    BY <1>2, <1>3, <1>5
  <1>7. GrantedRows' = GrantedRows
    BY <1>5, <1>6 DEF GrantedRows
  <1>8. TypeOK'
    BY <1>1, <1>5 DEF IInv, TypeOK, IsCopy, Close
  <1>9. RowsWellFormed'
    BY <1>5, <1>6 DEF IInv, RowsWellFormed
  <1>10. GrantsOnLedger'
    BY <1>5, <1>6, <1>7 DEF IInv, GrantsOnLedger, GrantedRows, Owns, Close
  <1>11. MemoryFaithful'
    BY <1>5, <1>6, MemoryTypes DEF IInv, MemoryFaithful, Owns, Close
  <1>12. TransferInOrder'
    <2>1. phase'[m] = "closed" /\ \A n \in Services \ {m} : phase'[n] = phase[n]
      BY <1>1 DEF IInv, TypeOK
    <2>2. ledger'[granted'[m].row].state = "closed"
      BY <1>3, <1>5 DEF Close, c
    <2>3. ASSUME NEW n \in Services \ {m}, phase[n] = "closed"
          PROVE  ledger'[granted'[n].row].state = "closed"
      BY <1>6, <2>3, OwnerGrant DEF IInv, TransferInOrder, GrantedRows, Close
    <2> QED
      BY <1>1, <2>1, <2>2, <2>3 DEF IInv, TransferInOrder, Owns, Close
  <1>13. GrantChain' /\ LiveRowIsNewest'
    BY <1>6, <1>7 DEF IInv, GrantChain, LiveRowIsNewest, GrantedRows
  <1> QED
    BY <1>8, <1>9, <1>10, <1>11, <1>12, <1>13 DEF IInv

LEMMA PublishStep == ASSUME NEW m \in Services PROVE IInv /\ Publish(m) => IInv'
  <1> SUFFICES ASSUME IInv, Publish(m) PROVE IInv'
    OBVIOUS
  <1> DEFINE c == chosen[m]
             g == NextGrant(m)
             row == [view[m][c] EXCEPT !.state = "granted", !.grant = g]
             memory == Overlay(rest[m], Update(view[m], c, row))
  <1>1. Owns(m) /\ phase[m] = "closed" /\ ledger[granted[m].row].state = "closed"
    BY DEF IInv, TransferInOrder, Publish
  <1>2. /\ c \in DOMAIN view[m] /\ view[m][c].state = "open" /\ view[m][c].svc # m
        /\ view[m][c] \in Row /\ c \in DOMAIN ledger /\ c \in Nat
        /\ ledger[c].state = "open" /\ view[m][c].svc = ledger[c].svc
    BY <1>1, MemoryTypes, LedgerTypes DEF IInv, TransferInOrder, MemoryFaithful, Publish
  <1>3. /\ granted[m].seq \in Nat /\ granted[m].row \in GrantedRows
        /\ ledger[granted[m].row].grant = granted[m] /\ granted[m].target = m
    BY <1>1, OwnerGrant DEF Owns
  <1>4. view[m][c].svc \in Services
    BY <1>2 DEF Row
  <1>5. /\ g \in Grant /\ g # Ungranted /\ g.seq = granted[m].seq + 1
        /\ g.source = m /\ g.target = ledger[c].svc /\ g.target # m /\ g.row = c
    BY <1>2, <1>3, <1>4 DEF NextGrant, Grant, Ungranted
  <1>6. row \in Row /\ row.state = "granted" /\ row.grant = g /\ row.svc = ledger[c].svc
    BY <1>2, <1>5 DEF Row
  <1>7. ledger' = [ledger EXCEPT ![c] = row] /\ granted' = [granted EXCEPT ![m] = g]
        /\ view' = [view EXCEPT ![m] = memory]
    BY DEF Publish
  <1> HIDE DEF c, g, row
  <1>8. /\ ledger' \in Seq(Row) /\ DOMAIN ledger' = DOMAIN ledger /\ ledger'[c] = row
        /\ \A i \in DOMAIN ledger : i # c => ledger'[i] = ledger[i]
    <2>1. ledger \in Seq(Row)
      BY LedgerTypes
    <2>2. /\ [ledger EXCEPT ![c] = row] \in Seq(Row)
          /\ DOMAIN [ledger EXCEPT ![c] = row] = DOMAIN ledger
          /\ [ledger EXCEPT ![c] = row][c] = row
          /\ \A i \in DOMAIN ledger : i # c => [ledger EXCEPT ![c] = row][i] = ledger[i]
      BY <1>2, <1>6, <2>1, LedgerExcept, Zenon
    <2> QED
      BY <1>7, <2>2, Zenon
  <1>9. /\ GrantedRows' = GrantedRows \cup {c} /\ c \notin GrantedRows
        /\ \A i \in GrantedRows : i \in DOMAIN ledger /\ i # c /\ ledger'[i] = ledger[i]
    BY <1>2, <1>6, <1>8 DEF GrantedRows
  <1>10. /\ granted'[m] = g /\ \A n \in Services \ {m} : granted'[n] = granted[n]
         /\ granted' \in [Services -> Grant]
    BY <1>5, <1>7 DEF IInv, TypeOK
  <1>11. \A i \in GrantedRows : /\ ledger[i].grant.seq \in Int
                                /\ ledger[i].grant.seq <= granted[m].seq
                                /\ ledger[i].grant.seq < g.seq
    <2>1. \A i \in GrantedRows : ledger[i].grant.seq \in Int
      BY <1>9, LedgerTypes, SeqType
    <2>2. \A i \in GrantedRows : ledger[i].grant.seq <= granted[m].seq
      BY <1>1 DEF IInv, GrantsOnLedger
    <2> QED
      BY <1>3, <1>5, <2>1, <2>2
  <1>12. \A n \in Services : ~Owns(n)'
    BY <1>1, <1>5, <1>10, OneOwner DEF Owns
  <1>13. \A i \in DOMAIN ledger : ledger'[i].svc = ledger[i].svc
    BY <1>6, <1>8
  <1>14. /\ memory \in [DOMAIN rest[m] \cup DOMAIN view[m] -> Row]
         /\ \A i \in DOMAIN rest[m] : memory[i] = rest[m][i]
         /\ \A i \in DOMAIN view[m] : i \notin DOMAIN rest[m] =>
              memory[i] = IF i = c THEN row ELSE view[m][i]
    <2>1. /\ Update(view[m], c, row) \in [DOMAIN view[m] -> Row]
          /\ \A i \in DOMAIN view[m] :
               Update(view[m], c, row)[i] = IF i = c THEN row ELSE view[m][i]
      BY <1>2, <1>6, MemoryTypes DEF Update
    <2>2. rest[m] \in [DOMAIN rest[m] -> Row]
      BY MemoryTypes
    <2> QED
      BY <2>1, <2>2 DEF Overlay
  <1>15. /\ view'[m] = memory /\ \A n \in Services \ {m} : view'[n] = view[n]
         /\ view' = [n \in Services |-> view'[n]]
    BY <1>7 DEF IInv, TypeOK
  <1> HIDE DEF memory
  <1>16. TypeOK'
    <2>1. IsCopy(view[m])'
      BY <1>8, <1>14, <1>15, MemoryTypes DEF IsCopy
    <2>2. ASSUME NEW n \in Services \ {m} PROVE IsCopy(view[n])'
      BY <1>8, <1>15, MemoryTypes DEF IsCopy
    <2>3. rest' = [n \in Services |-> rest'[n]] /\ \A n \in Services : IsCopy(rest[n])'
      <3>1. NoRows \in [DOMAIN NoRows -> Row] /\ DOMAIN NoRows = {}
        BY DEF NoRows
      <3>2. /\ rest' = [n \in Services |-> rest'[n]]
            /\ rest'[m] = NoRows /\ \A n \in Services \ {m} : rest'[n] = rest[n]
        BY DEF IInv, TypeOK, Publish
      <3> QED
        BY <1>8, <3>1, <3>2, MemoryTypes DEF IsCopy
    <2>4. /\ phase' \in [Services -> {"poll", "acquire", "wait", "selected",
                                      "vacated", "closed"}]
          /\ chosen' \in [Services -> Nat]
          /\ worker' \in [Services -> {"idle", "waiting", "working", "releasing"}]
      BY DEF IInv, TypeOK, Publish
    <2> QED
      BY <1>8, <1>10, <1>15, <2>1, <2>2, <2>3, <2>4 DEF IInv, TypeOK, Publish
  <1>17. RowsWellFormed'
    BY <1>5, <1>6, <1>8 DEF IInv, RowsWellFormed
  <1>18. GrantsOnLedger'
    <2>1. granted'[m].row \in DOMAIN ledger' /\ ledger'[granted'[m].row].grant = granted'[m]
      BY <1>2, <1>5, <1>6, <1>8, <1>10
    <2>2. ASSUME NEW n \in Services \ {m}, granted[n] # Ungranted
          PROVE  granted[n].row \in DOMAIN ledger' /\ ledger'[granted[n].row].grant = granted[n]
      <3>1. granted[n].row \in GrantedRows /\ ledger[granted[n].row].grant = granted[n]
        BY <2>2 DEF IInv, GrantsOnLedger, RowsWellFormed, GrantedRows
      <3> QED
        BY <1>8, <1>9, <3>1
    <2> QED
      BY <1>10, <1>12, <2>1, <2>2 DEF GrantsOnLedger
  <1>19. MemoryFaithful'
    <2>1. ASSUME NEW i \in DOMAIN rest[m]
          PROVE  /\ rest[m][i].svc = ledger'[i].svc
                 /\ rest[m][i].state # "open" => i \in GrantedRows
      BY <1>8, <1>13, MemoryTypes DEF IInv, MemoryFaithful, GrantedRows
    <2>2. ASSUME NEW n \in Services, NEW i \in DOMAIN view[n]
          PROVE  /\ i \in DOMAIN ledger
                 /\ view[n][i].svc = ledger'[i].svc
                 /\ view[n][i].state # "open" =>
                      i \in GrantedRows /\ ledger[i].grant.seq <= granted[n].seq
      BY <1>13, MemoryTypes DEF IInv, MemoryFaithful, GrantedRows
    <2>3. ASSUME NEW i \in GrantedRows
          PROVE  ledger'[i].state # "open" /\ ledger'[i].grant.seq <= g.seq
      <3>1. ledger'[i] = ledger[i] /\ ledger[i].state # "open"
        BY <1>9 DEF GrantedRows
      <3>2. ledger[i].grant.seq < g.seq /\ ledger[i].grant.seq \in Int /\ g.seq \in Int
        BY <1>3, <1>5, <1>11
      <3> QED
        BY <3>1, <3>2
    <2>4. ASSUME NEW i \in DOMAIN memory, memory[i].state # "open"
          PROVE  ledger'[i].state # "open" /\ ledger'[i].grant.seq <= g.seq
      <3>1. CASE i \in GrantedRows
        BY <2>3, <3>1
      <3>2. CASE i \notin GrantedRows
        <4>1. i = c
          BY <1>14, <2>1, <2>2, <2>4, <3>2
        <4> QED
          BY <1>3, <1>5, <1>6, <1>8, <4>1
      <3> QED
        BY <3>1, <3>2
    <2>5. ASSUME NEW i \in DOMAIN memory PROVE memory[i].svc = ledger'[i].svc
      BY <1>6, <1>8, <1>14, <2>1, <2>2
    <2>6. ASSUME NEW n \in Services \ {m}, NEW i \in DOMAIN view[n]
          PROVE  /\ view[n][i].svc = ledger'[i].svc
                 /\ view[n][i].state # "open" =>
                      ledger'[i].state # "open" /\ ledger'[i].grant.seq <= granted[n].seq
      BY <1>9, <2>2 DEF GrantedRows
    <2>7. rest'[m] = NoRows /\ \A n \in Services \ {m} : rest'[n] = rest[n]
      BY DEF IInv, TypeOK, Publish
    <2>8. ASSUME NEW n \in Services, NEW i \in DOMAIN rest'[n]
          PROVE  /\ rest'[n][i].svc = ledger'[i].svc
                 /\ rest'[n][i].state # "open" => ledger'[i].state # "open"
      <3>1. n # m /\ rest'[n] = rest[n] /\ i \in DOMAIN ledger
        BY <2>7, <2>8, MemoryTypes DEF NoRows
      <3>2. /\ rest[n][i].svc = ledger[i].svc
            /\ rest[n][i].state # "open" => i \in GrantedRows
        BY <3>1, <2>8 DEF IInv, MemoryFaithful, GrantedRows
      <3> QED
        BY <1>13, <2>3, <3>1, <3>2
    <2> QED
      BY <1>10, <1>12, <1>15, <2>4, <2>5, <2>6, <2>8 DEF MemoryFaithful
  <1>20. TransferInOrder'
    <2>1. /\ phase'[m] = "poll" /\ \A n \in Services \ {m} : phase'[n] = phase[n]
          /\ chosen'[m] = 0 /\ \A n \in Services \ {m} : chosen'[n] = chosen[n]
          /\ resident' = resident
      BY DEF IInv, TypeOK, Publish
    <2>2. \A n \in Services : n # m => phase[n] = "poll" /\ ~resident[n]
      BY <1>1, OneOwner DEF IInv, TransferInOrder
    <2>3. ~resident[m]
      BY <1>1 DEF IInv, TransferInOrder
    <2> QED
      BY <2>1, <2>2, <2>3 DEF IInv, TransferInOrder
  <1>21. GrantChain'
    <2>1. ASSUME NEW i \in GrantedRows', NEW j \in GrantedRows',
                 ledger'[i].grant.seq = ledger'[j].grant.seq
          PROVE  i = j
      BY <1>3, <1>5, <1>6, <1>8, <1>9, <1>11, <2>1 DEF IInv, GrantChain
    <2>2. ASSUME NEW j \in GrantedRows', ledger'[j].grant.seq > 0
          PROVE  \E i \in GrantedRows' :
                   /\ ledger'[i].grant.seq = ledger'[j].grant.seq - 1
                   /\ ledger'[i].grant.target = ledger'[j].grant.source
      <3>1. CASE j = c
        <4>1. granted[m].row \in GrantedRows' /\ ledger'[granted[m].row].grant = granted[m]
          BY <1>3, <1>9
        <4>2. ledger'[j].grant = g
          BY <1>6, <1>8, <3>1
        <4>3. granted[m].seq = g.seq - 1 /\ granted[m].target = g.source
          BY <1>3, <1>5
        <4> QED
          BY <4>1, <4>2, <4>3
      <3>2. CASE j \in GrantedRows
        BY <1>9, <2>2, <3>2 DEF IInv, GrantChain
      <3> QED
        BY <1>9, <3>1, <3>2
    <2> QED
      BY <2>1, <2>2 DEF GrantChain
  <1>22. LiveRowIsNewest'
    <2>1. ASSUME NEW i \in GrantedRows, ledger[i].state = "granted" PROVE FALSE
      <3>1. granted[m].seq <= ledger[i].grant.seq
        BY <1>3, <2>1 DEF IInv, LiveRowIsNewest
      <3>2. ledger[i].grant.seq = ledger[granted[m].row].grant.seq
        BY <1>3, <1>11, <3>1
      <3>3. i = granted[m].row
        BY <1>3, <3>2 DEF IInv, GrantChain
      <3> QED
        BY <1>1, <2>1, <3>3
    <2>2. \A j \in GrantedRows' : ledger'[j].grant.seq <= g.seq
      BY <1>3, <1>5, <1>6, <1>8, <1>9, <1>11
    <2> QED
      BY <1>6, <1>8, <1>9, <2>1, <2>2 DEF LiveRowIsNewest
  <1> QED
    BY <1>16, <1>17, <1>18, <1>19, <1>20, <1>21, <1>22 DEF IInv

-----------------------------------------------------------------------------
(* The invariant is inductive, so every reachable state satisfies it.      *)

LEMMA NextIInv == IInv /\ [Next]_vars => IInv'
  <1> SUFFICES ASSUME IInv, [Next]_vars PROVE IInv'
    OBVIOUS
  <1>1. CASE IssueGenesisRequest
    BY <1>1, GenesisRequestStep
  <1>2. CASE IssueGenesisGrant
    BY <1>2, GenesisGrantStep
  <1>3. ASSUME NEW m \in Services, Worker(m) PROVE IInv'
    BY <1>3, RequestStep, WakeStep, ReleaseStep DEF Worker
  <1>4. ASSUME NEW m \in Services, Manager(m) PROVE IInv'
    BY <1>4, PollStep, AcquireStep, PreemptStep, RescanStep, SelectStep, VacateStep,
       CloseStep, PublishStep DEF Manager, Transfer
  <1>5. CASE UNCHANGED vars
    BY <1>5 DEF vars, IInv, TypeOK, IsCopy, RowsWellFormed, GrantsOnLedger, GrantedRows,
       MemoryFaithful, TransferInOrder, GrantChain, LiveRowIsNewest, Owns
  <1> QED
    BY <1>1, <1>2, <1>3, <1>4, <1>5 DEF Next

LEMMA Invariance == Spec => []IInv
  BY InitIInv, NextIInv, PTL DEF Spec

(* Every variable of the ring keeps its type. *)
THEOREM TypeCorrect == Spec => []TypeOK
  BY Invariance, PTL DEF IInv

(* No two engines are on the card at once, because only the owner's engine *)
(* is on it and the token has one owner.                                   *)
THEOREM CardIsExclusive == Spec => []CardExclusive
  <1>1. IInv => CardExclusive
    BY OneOwner DEF CardExclusive, IInv, TransferInOrder
  <1> QED
    BY <1>1, Invariance, PTL

(* The grants on the ledger are one gapless chain of hand-overs.           *)
THEOREM GrantsAreAChain == Spec => []GrantChain
  BY Invariance, PTL DEF IInv

(* A grant is only ever written on a row that is still open.               *)
THEOREM GrantsGoToOpenRows == Spec => []ChosenRowStillOpen
  <1>1. IInv => ChosenRowStillOpen
    <2> SUFFICES ASSUME IInv, NEW m \in Services, chosen[m] # 0
                 PROVE  /\ ledger[chosen[m]].state = "open"
                        /\ ledger[chosen[m]].svc # m
      BY DEF ChosenRowStillOpen
    <2>1. phase[m] \in {"selected", "vacated", "closed"}
      BY DEF IInv, TypeOK, TransferInOrder
    <2>2. /\ Owns(m) /\ chosen[m] \in DOMAIN view[m]
          /\ view[m][chosen[m]].state = "open" /\ view[m][chosen[m]].svc # m
      BY <2>1 DEF IInv, TransferInOrder
    <2> QED
      BY <2>2 DEF IInv, MemoryFaithful
  <1> QED
    BY <1>1, Invariance, PTL

(* At most one row of the ledger is granted and not yet closed.            *)
THEOREM OneRowIsLive == Spec => []OneLiveRow
  <1>1. IInv => OneLiveRow
    <2> SUFFICES ASSUME IInv, NEW i \in DOMAIN ledger, NEW j \in DOMAIN ledger,
                        ledger[i].state = "granted", ledger[j].state = "granted"
                 PROVE  i = j
      BY DEF OneLiveRow
    <2>1. i \in GrantedRows /\ j \in GrantedRows
      BY DEF GrantedRows
    <2>2. ledger[i].grant.seq \in Int /\ ledger[j].grant.seq \in Int
      BY LedgerTypes, SeqType
    <2>3. ledger[i].grant.seq = ledger[j].grant.seq
      BY <2>1, <2>2 DEF IInv, LiveRowIsNewest
    <2> QED
      BY <2>1, <2>3 DEF IInv, GrantChain
  <1> QED
    BY <1>1, Invariance, PTL

-----------------------------------------------------------------------------
(* The workers.                                                            *)

(* No row leaves the ledger. *)
LEMMA RowsStay == IInv /\ Next => DOMAIN ledger \subseteq DOMAIN ledger'
  <1> SUFFICES ASSUME IInv, Next PROVE DOMAIN ledger \subseteq DOMAIN ledger'
    OBVIOUS
  <1>1. /\ ledger \in Seq(Row)
        /\ \A x : DOMAIN ledger \subseteq DOMAIN Append(ledger, x)
    BY LedgerTypes
  <1>2. CASE IssueGenesisRequest \/ IssueGenesisGrant
    BY <1>1, <1>2 DEF IssueGenesisRequest, IssueGenesisGrant
  <1>3. ASSUME NEW m \in Services, Worker(m) PROVE DOMAIN ledger \subseteq DOMAIN ledger'
    BY <1>1, <1>3 DEF Worker, Request, Wake, Release
  <1>4. ASSUME NEW m \in Services, Manager(m) PROVE DOMAIN ledger \subseteq DOMAIN ledger'
    <2>1. CASE Poll(m)
      BY <1>1, <2>1 DEF Poll, Register
    <2>2. CASE Acquire(m) \/ Preempt(m) \/ Rescan(m) \/ Vacate(m)
      BY <2>2 DEF Acquire, Preempt, Rescan, Vacate
    <2>3. CASE Select(m)
      BY <1>1, <2>3 DEF Select
    <2>4. CASE Close(m) \/ Publish(m)
      BY <1>1, <2>4 DEF Close, Publish
    <2> QED
      BY <1>4, <2>1, <2>2, <2>3, <2>4 DEF Manager, Transfer
  <1> QED
    BY <1>2, <1>3, <1>4 DEF Next

(* A step of another member leaves a worker in step. *)
LEMMA OtherWorkers ==
  ASSUME NEW s \in Services, WorkerInStep(s), DOMAIN ledger \subseteq DOMAIN ledger',
         granted'[s] = granted[s], phase'[s] = phase[s], leases'[s] = leases[s],
         resident'[s] = resident[s], worker'[s] = worker[s], job'[s] = job[s]
  PROVE  WorkerInStep(s)'
  BY DEF WorkerInStep, OnJob, Owns

LEMMA WorkersNext == IInv /\ WorkersInStep /\ [Next]_vars => WorkersInStep'
  <1> SUFFICES ASSUME IInv, WorkersInStep, [Next]_vars, NEW s \in Services
               PROVE  WorkerInStep(s)'
    BY DEF WorkersInStep
  <1>1. WorkerInStep(s)
    BY DEF WorkersInStep
  <1>2. CASE UNCHANGED vars
    BY <1>1, <1>2 DEF vars, WorkerInStep, OnJob, Owns
  <1>3. ASSUME Next PROVE DOMAIN ledger \subseteq DOMAIN ledger'
    BY <1>3, RowsStay
  <1>4. CASE IssueGenesisRequest \/ IssueGenesisGrant
    <2>1. DOMAIN ledger \subseteq DOMAIN ledger'
      BY <1>3, <1>4 DEF Next
    <2> QED
      BY <1>1, <1>4, <2>1, OtherWorkers DEF IssueGenesisRequest, IssueGenesisGrant
  <1>5. ASSUME NEW m \in Services, m # s, Worker(m) \/ Manager(m)
        PROVE  WorkerInStep(s)'
    <2>1. DOMAIN ledger \subseteq DOMAIN ledger'
      BY <1>3, <1>5 DEF Next
    <2>2. /\ granted'[s] = granted[s] /\ phase'[s] = phase[s] /\ leases'[s] = leases[s]
          /\ resident'[s] = resident[s] /\ worker'[s] = worker[s] /\ job'[s] = job[s]
      BY <1>5 DEF IInv, TypeOK, Worker, Request, Wake, Release, Manager, Transfer, Poll,
                  Acquire, Preempt, Rescan, Select, Vacate, Close, Publish
    <2> QED
      BY <1>1, <2>1, <2>2, OtherWorkers
  <1>6. CASE Worker(s)
    <2>1. Len(ledger) + 1 \notin leases[s] /\ DOMAIN ledger \subseteq DOMAIN ledger'
      BY <1>1, <1>3, <1>6, LedgerTypes DEF WorkerInStep, Next
    <2>2. CASE Request(s)
      BY <1>1, <2>1, <2>2 DEF WorkerInStep, IInv, TypeOK, Request, OnJob, Owns
    <2>3. CASE Wake(s)
      BY <1>1, <2>1, <2>3 DEF WorkerInStep, IInv, TypeOK, Wake, OnJob, Owns
    <2>4. CASE Release(s)
      BY <1>1, <2>1, <2>4 DEF WorkerInStep, IInv, TypeOK, Release, OnJob, Owns
    <2> QED
      BY <1>6, <2>2, <2>3, <2>4 DEF Worker
  <1>7. CASE Manager(s)
    <2>1. DOMAIN ledger \subseteq DOMAIN ledger'
      BY <1>3, <1>7 DEF Next
    <2>2. CASE Poll(s)
      <3>1. Owns(s) => granted'[s] = granted[s]
        BY <2>2, NewestApplies DEF Poll, IInv, TypeOK
      <3>2. phase'[s] \in {"poll", "acquire"} /\ (Owns(s) => phase'[s] = "poll")
        BY <2>2, NewestApplies DEF Poll, IInv, TypeOK
      <3> QED
        BY <1>1, <2>1, <2>2, <3>1, <3>2 DEF WorkerInStep, OnJob, Owns, Poll
    <2>3. CASE Acquire(s)
      <3>1. Owns(s) /\ granted[s].row \in DOMAIN ledger
        BY <2>3, OwnerGrant DEF IInv, TransferInOrder, Acquire, GrantedRows
      <3> QED
        BY <1>1, <2>1, <2>3, <3>1 DEF WorkerInStep, IInv, TypeOK, OnJob, Owns, Acquire
    <2>4. CASE Preempt(s)
      BY <1>1, <2>1, <2>4 DEF WorkerInStep, OnDemand, Preempt, Preempts
    <2>5. CASE Transfer(s)
      BY <1>1, <2>1, <2>5
      DEF WorkerInStep, IInv, TypeOK, Transfer, Rescan, Select, Vacate, Close, Publish
    <2> QED
      BY <1>7, <2>2, <2>3, <2>4, <2>5 DEF Manager
  <1> QED
    BY <1>2, <1>4, <1>5, <1>6, <1>7 DEF Next

(* A working worker's engine is on the card under the worker's own request.*)
THEOREM WorkersKeepTheCard == Spec => []WorkersComputeOnCard
  <1>1. Init => WorkersInStep
    BY DEF Init, WorkersInStep, WorkerInStep
  <1>2. WorkersInStep => WorkersComputeOnCard
    BY DEF WorkersInStep, WorkerInStep, WorkersComputeOnCard, OnDemand
  <1> QED
    BY <1>1, <1>2, WorkersNext, Invariance, PTL DEF Spec

-----------------------------------------------------------------------------
(* A manager applies newer grants only, and only ones the ledger holds. *)
THEOREM GrantsAreReplayedInOrder == Spec => SequenceAdvances
  <1> DEFINE Advance ==
        \A m \in Services : granted'[m] # granted[m] =>
          /\ granted'[m].seq > granted[m].seq
          /\ ledger'[granted'[m].row].grant = granted'[m]
  <1>1. IInv /\ IInv' /\ [Next]_vars => [Advance]_vars
    <2> SUFFICES ASSUME IInv, IInv', Next, NEW m \in Services, granted'[m] # granted[m]
                 PROVE  /\ granted'[m].seq > granted[m].seq
                        /\ ledger'[granted'[m].row].grant = granted'[m]
      BY DEF Advance
    <2>1. Poll(m) \/ Publish(m)
      <3>1. PICK n \in Services : Manager(n)
        BY DEF Next, IssueGenesisRequest, IssueGenesisGrant, Worker, Request, Wake, Release
      <3>2. Poll(n) \/ Publish(n)
        BY <3>1 DEF Manager, Transfer, Acquire, Preempt, Rescan, Select, Vacate, Close
      <3>3. \A k \in Services \ {n} : granted'[k] = granted[k]
        BY <3>2 DEF IInv, TypeOK, Poll, Publish
      <3> QED
        BY <3>2, <3>3
    <2>2. granted'[m].seq > granted[m].seq
      <3>1. CASE Poll(m)
        <4>1. PICK g \in Applicable(m) :
                /\ \A h \in Applicable(m) : h.seq <= g.seq
                /\ granted' = [granted EXCEPT ![m] = g]
          BY <3>1 DEF Poll
        <4>2. g # granted[m] /\ granted'[m] = g
          BY <4>1 DEF IInv, TypeOK
        <4>3. PICK i \in NewGrants(m) : g = ledger[i].grant
          BY <4>2 DEF Applicable
        <4> QED
          BY <4>2, <4>3 DEF NewGrants
      <3>2. CASE Publish(m)
        <4>1. granted[m].seq \in Int /\ granted'[m] = NextGrant(m)
          BY <3>2, SeqType DEF Publish, IInv, TypeOK
        <4> QED
          BY <4>1 DEF NextGrant
      <3> QED
        BY <2>1, <3>1, <3>2
    <2>3. granted'[m].seq # -1
      BY <2>2, SeqType DEF IInv, TypeOK
    <2> QED
      BY <2>2, <2>3 DEF IInv, GrantsOnLedger, Ungranted
  <1> QED
    BY <1>1, Invariance, PTL DEF Spec, SequenceAdvances

-----------------------------------------------------------------------------
(***************************************************************************)
(* The ring implements the token of GpuToken, and its request ids are      *)
(* unique, for every ring and every bound, when next_owner_timeout outlasts*)
(* a poll (Patient).                                                       *)
(*                                                                         *)
(* The argument is about standing requests.  A FALLBACK member that is     *)
(* neither the owner nor the one the token came from last has an open      *)
(* request, so an owner that has waited long enough meets it, and creates a*)
(* return request only for a FALLBACK member without one.                  *)
(***************************************************************************)

(* The invariant, on top of IInv.                                          *)

Newest(i) ==
  i \in GrantedRows /\ \A j \in GrantedRows : ledger[j].grant.seq <= ledger[i].grant.seq

(* A row asks for its member in the way of its mode.                       *)
KindsFit ==
  \A i \in DOMAIN ledger :
    ledger[i].kind = IF ledger[i].svc \in Fallback THEN "fallback" ELSE "on_demand"

(* A FALLBACK member has one standing request at most, and none while the  *)
(* ledger says that the token is its own.                                  *)
OneStanding == \A f \in Fallback : \A i, j \in StandingRows(ledger, f) : i = j
OwnerAsksNot ==
  \A i \in DOMAIN ledger : Newest(i) => StandingRows(ledger, ledger[i].svc) = {}

(* It remembers one unless it has the token or was the last to pass it on. *)
Remembers ==
  \A f \in Fallback :
    granted[f] # Ungranted /\ ~Owns(f) /\ granted[f].source # f =>
      StandingRows(view[f], f) # {}

(* A manager knows its own grants as granted, except one that is news.     *)
OwnGrantsKnown ==
  \A m \in Services : \A i \in GrantedRows :
    ledger[i].svc = m =>
      IF ledger[i].grant.seq <= granted[m].seq
      THEN /\ i \in DOMAIN view[m] /\ view[m][i].state # "open"
           /\ i \in DOMAIN rest[m] => rest[m][i].state # "open"
      ELSE Newest(i)

(* What is left of a scan is kept only while a transfer lasts.             *)
NothingLeftOver ==
  \A m \in Services : phase[m] \in {"poll", "acquire"} => DOMAIN rest[m] = {}

(* A row a FALLBACK member has never seen was raised for it: by genesis or *)
(* by an owner about to grant it.  The member has no other news.           *)
NeverSeen(f) == {i \in DOMAIN ledger \ DOMAIN view[f] : ledger[i].svc = f}
RaisedForIt ==
  \A f \in Fallback : \A i \in NeverSeen(f) :
    /\ UnseenGrants(f) \subseteq {i}
    /\ ledger[i].state = "open" /\ GrantedRows # {} => \E n \in Services : chosen[n] = i

(* A FALLBACK owner gives way to somebody.                                 *)
HasCandidate == \A f \in Fallback : phase[f] = "wait" => Candidates(f) # {}

(* An open request of an ON_DEMAND member is the one its worker waits for. *)
AskedOnce ==
  \A i \in OpenRows(ledger) : ledger[i].svc \in OnDemand =>
    worker[ledger[i].svc] = "waiting" /\ job[ledger[i].svc] = i

(* An owner's engine is on the card from its restore to its release.       *)
OwnerOnCard ==
  \A m \in Services : Owns(m) /\ phase[m] \in {"poll", "wait", "selected"} => resident[m]

(* What is remembered of a row never changes.                              *)
SameId(r, s) == r.svc = s.svc /\ r.kind = s.kind /\ r.key = s.key
IdsKept ==
  \A m \in Services :
    /\ \A i \in DOMAIN view[m] : SameId(view[m][i], ledger[i])
    /\ \A i \in DOMAIN rest[m] : SameId(rest[m][i], ledger[i])

(* A worker numbers its requests; a standing request is numbered at most   *)
(* one above a grant of the ledger, and so at most by its own grant.       *)
KeysCount ==
  \A i \in DOMAIN ledger :
    IF ledger[i].svc \in OnDemand THEN ledger[i].key <= windows[ledger[i].svc]
    ELSE IF ledger[i].state = "open"
    THEN ledger[i].key = 0 \/ \E j \in GrantedRows : ledger[i].key <= ledger[j].grant.seq + 1
    ELSE ledger[i].key <= ledger[i].grant.seq

TInv ==
  /\ KindsFit /\ OneStanding /\ OwnerAsksNot /\ Remembers /\ OwnGrantsKnown
  /\ NothingLeftOver /\ RaisedForIt /\ HasCandidate /\ AskedOnce /\ OwnerOnCard /\ IdsKept
  /\ KeysCount /\ RequestIdsUnique

(* A FALLBACK member has no worker thread. *)
FallbackIdle == \A f \in Fallback : worker[f] = "idle"

-----------------------------------------------------------------------------
(* Consequences.                                                           *)

LEMMA Seqs ==
  ASSUME IInv
  PROVE  /\ \A i \in GrantedRows : i \in DOMAIN ledger /\ ledger[i].grant.seq \in Nat
         /\ \A m \in Services : granted[m].seq \in Int /\ granted[m].seq >= -1
  <1>1. ASSUME NEW i \in GrantedRows
        PROVE  i \in DOMAIN ledger /\ ledger[i].grant.seq \in Nat
    <2>1. i \in DOMAIN ledger /\ ledger[i].grant \in Grant /\ ledger[i].grant # Ungranted
      BY LedgerTypes DEF GrantedRows, IInv, RowsWellFormed
    <2> QED
      BY <2>1, GrantType
  <1>2. ASSUME NEW m \in Services PROVE granted[m].seq \in Int /\ granted[m].seq >= -1
    BY SeqType DEF IInv, TypeOK
  <1> QED
    BY <1>1, <1>2

LEMMA NewestIsOne ==
  ASSUME IInv, NEW i \in DOMAIN ledger, NEW j \in DOMAIN ledger, Newest(i), Newest(j)
  PROVE  i = j
  <1>1. /\ i \in GrantedRows /\ j \in GrantedRows
        /\ ledger[i].grant.seq <= ledger[j].grant.seq
        /\ ledger[j].grant.seq <= ledger[i].grant.seq
    BY DEF Newest
  <1>2. ledger[i].grant.seq = ledger[j].grant.seq
    BY <1>1, Seqs
  <1> QED
    BY <1>1, <1>2 DEF IInv, GrantChain

LEMMA OwnerIsNewest ==
  ASSUME IInv, NEW m \in Services, Owns(m)
  PROVE  /\ granted[m].row \in DOMAIN ledger /\ Newest(granted[m].row)
         /\ ledger[granted[m].row].svc = m
         /\ granted[m].source # m
         /\ granted[m].source \in Services \cup {Authority}
  <1>1. /\ granted[m] # Ungranted /\ granted[m].row \in GrantedRows
        /\ ledger[granted[m].row].grant = granted[m]
    BY OwnerGrant
  <1>2. granted[m].row \in DOMAIN ledger /\ ledger[granted[m].row].state # "open"
    BY <1>1 DEF GrantedRows
  <1>3. Newest(granted[m].row)
    BY <1>1 DEF Newest, IInv, GrantsOnLedger
  <1>4. ledger[granted[m].row].svc = m /\ granted[m].source # m
    BY <1>1, <1>2 DEF IInv, RowsWellFormed, Owns
  <1> QED
    BY <1>1, <1>2, <1>3, <1>4, GrantType DEF IInv, TypeOK

(* Whoever has no news has applied the grant that the owner holds.         *)
LEMMA UpToDate ==
  ASSUME IInv, NEW m \in Services, NEW f \in Services, Owns(m), UnseenGrants(f) = {}
  PROVE  granted[f] = granted[m]
  <1>1. /\ granted[m].row \in GrantedRows /\ granted[m].row \in DOMAIN ledger
        /\ ledger[granted[m].row].grant = granted[m] /\ granted[m].seq \in Nat
    BY OwnerGrant DEF GrantedRows
  <1>2. /\ granted[m].row \in DOMAIN view[f] /\ view[f][granted[m].row].state # "open"
    BY <1>1 DEF UnseenGrants, GrantedRows
  <1>3. granted[m].seq <= granted[f].seq
    BY <1>1, <1>2 DEF IInv, MemoryFaithful
  <1>4. granted[f] # Ungranted
    BY <1>1, <1>3 DEF Ungranted
  <1>5. granted[f].row \in GrantedRows /\ ledger[granted[f].row].grant = granted[f]
    BY <1>4 DEF IInv, GrantsOnLedger, RowsWellFormed, GrantedRows
  <1>6. granted[f].seq <= granted[m].seq
    BY <1>5 DEF IInv, GrantsOnLedger
  <1>7. granted[f].seq = granted[m].seq
    BY <1>1, <1>3, <1>6, Seqs
  <1> QED
    BY <1>1, <1>5, <1>7 DEF IInv, GrantChain

(* A standing request that its member remembers as open is open, unless its*)
(* grant is news to the member.                                            *)
LEMMA StandsOrNews ==
  ASSUME IInv, TInv, NEW f \in Fallback, NEW j \in StandingRows(view[f], f)
  PROVE  \/ j \in StandingRows(ledger, f)
         \/ /\ j \in GrantedRows /\ Newest(j) /\ ledger[j].svc = f
            /\ j \in UnseenGrants(f) /\ ledger[j].grant.seq > granted[f].seq
  <1>1. /\ f \in Services /\ j \in DOMAIN view[f] /\ j \in DOMAIN ledger
        /\ view[f][j].state = "open" /\ view[f][j].svc = f /\ view[f][j].kind = "fallback"
    BY MemoryTypes, RingMembers DEF StandingRows, OpenRows
  <1>2. ledger[j].svc = f /\ ledger[j].kind = "fallback"
    BY <1>1 DEF TInv, IdsKept, SameId
  <1>3. CASE ledger[j].state = "open"
    <2>1. j \in OpenRows(ledger)
      BY <1>1, <1>3 DEF OpenRows
    <2>2. j \in StandingRows(ledger, f)
      BY <1>2, <2>1 DEF StandingRows
    <2> QED
      BY <2>2
  <1>4. CASE ledger[j].state # "open"
    <2>1. j \in GrantedRows /\ j \in UnseenGrants(f)
      BY <1>1, <1>4 DEF GrantedRows, UnseenGrants
    <2>2. ~(ledger[j].grant.seq <= granted[f].seq) /\ Newest(j)
      BY <1>1, <1>2, <2>1 DEF TInv, OwnGrantsKnown
    <2>3. ledger[j].grant.seq > granted[f].seq
      BY <1>1, <2>1, <2>2, Seqs
    <2> QED
      BY <1>2, <2>1, <2>2, <2>3
  <1> QED
    BY <1>3, <1>4

-----------------------------------------------------------------------------
(* Steps that leave the rows as they are, but for closing some.            *)

SameRows ==
  /\ DOMAIN ledger' = DOMAIN ledger
  /\ \A i \in DOMAIN ledger :
       /\ SameId(ledger'[i], ledger[i])
       /\ ledger'[i].grant = ledger[i].grant
       /\ ledger'[i].state = "open" <=> ledger[i].state = "open"

LEMMA RowsStand ==
  ASSUME SameRows
  PROVE  /\ GrantedRows' = GrantedRows
         /\ OpenRows(ledger') = OpenRows(ledger)
         /\ \A f : StandingRows(ledger', f) = StandingRows(ledger, f)
         /\ \A i : Newest(i)' <=> Newest(i)
  <1>1. GrantedRows' = GrantedRows /\ OpenRows(ledger') = OpenRows(ledger)
    BY DEF SameRows, GrantedRows, OpenRows
  <1>2. ASSUME NEW f PROVE StandingRows(ledger', f) = StandingRows(ledger, f)
    BY <1>1 DEF SameRows, SameId, StandingRows, OpenRows
  <1>3. ASSUME NEW i PROVE Newest(i)' <=> Newest(i)
    BY <1>1 DEF SameRows, Newest, GrantedRows
  <1> QED
    BY <1>1, <1>2, <1>3

LEMMA QuietRows ==
  ASSUME TInv, SameRows, UNCHANGED windows
  PROVE  KindsFit' /\ OneStanding' /\ OwnerAsksNot' /\ KeysCount' /\ RequestIdsUnique'
  <1>1. KindsFit' /\ RequestIdsUnique'
    BY DEF SameRows, SameId, TInv, KindsFit, RequestIdsUnique
  <1>2. OneStanding' /\ OwnerAsksNot'
    BY RowsStand DEF SameRows, SameId, TInv, OneStanding, OwnerAsksNot
  <1>3. KeysCount'
    BY RowsStand DEF SameRows, SameId, TInv, KeysCount, GrantedRows
  <1> QED
    BY <1>1, <1>2, <1>3

(* What a step does not touch when the managers keep their accounts too.   *)
LEMMA QuietStep ==
  ASSUME IInv, TInv, SameRows, UNCHANGED <<view, granted, rest, chosen, windows>>
  PROVE  /\ KindsFit' /\ OneStanding' /\ OwnerAsksNot' /\ Remembers' /\ OwnGrantsKnown'
         /\ RaisedForIt' /\ IdsKept' /\ KeysCount' /\ RequestIdsUnique'
  <1>1. Remembers'
    BY DEF TInv, Remembers, Owns
  <1>2. OwnGrantsKnown'
    BY RowsStand DEF SameRows, SameId, TInv, OwnGrantsKnown, GrantedRows
  <1>3. RaisedForIt'
    <2>1. \A f : UnseenGrants(f)' = UnseenGrants(f) /\ NeverSeen(f)' = NeverSeen(f)
      BY DEF SameRows, SameId, UnseenGrants, NeverSeen
    <2>2. \A f : \A i \in NeverSeen(f) : i \in DOMAIN ledger
      BY DEF NeverSeen
    <2> QED
      BY <2>1, <2>2, RowsStand DEF SameRows, TInv, RaisedForIt
  <1>4. IdsKept'
    BY MemoryTypes DEF SameRows, SameId, TInv, IdsKept
  <1> QED
    BY <1>1, <1>2, <1>3, <1>4, QuietRows

LEMMA AskersStand ==
  ASSUME TInv, SameRows, UNCHANGED <<worker, job>>
  PROVE  AskedOnce'
  <1> SUFFICES ASSUME NEW i \in OpenRows(ledger'), ledger'[i].svc \in OnDemand
               PROVE  worker[ledger'[i].svc] = "waiting" /\ job[ledger'[i].svc] = i
    BY DEF AskedOnce
  <1>1. i \in OpenRows(ledger) /\ ledger'[i].svc = ledger[i].svc
    BY RowsStand DEF SameRows, SameId, OpenRows
  <1> QED
    BY <1>1 DEF TInv, AskedOnce

LEMMA WakeToken ==
  ASSUME IInv, WorkersInStep, TInv, NEW s \in Services, Wake(s)
  PROVE  TInv'
  <1>1. SameRows
    BY DEF SameRows, SameId, Wake
  <1>2. AskedOnce'
    <2> SUFFICES ASSUME NEW i \in OpenRows(ledger), ledger[i].svc \in OnDemand
                 PROVE  worker'[ledger[i].svc] = "waiting" /\ job'[ledger[i].svc] = i
      BY <1>1, RowsStand DEF AskedOnce, Wake
    <2>1. worker[ledger[i].svc] = "waiting" /\ job[ledger[i].svc] = i
      BY DEF TInv, AskedOnce
    <2>2. CASE ledger[i].svc = s
      <3>1. OnJob(s) /\ job[s] = i
        BY <2>1, <2>2 DEF WorkersInStep, WorkerInStep, Wake
      <3>2. i \in GrantedRows
        BY <3>1, OwnerGrant DEF OnJob
      <3> QED
        BY <3>2 DEF GrantedRows, OpenRows
    <2>3. CASE ledger[i].svc # s
      BY <2>1, <2>3 DEF Wake, IInv, TypeOK
    <2> QED
      BY <2>2, <2>3
  <1>3. HasCandidate' /\ OwnerOnCard'
    BY DEF TInv, HasCandidate, OwnerOnCard, Owns, Candidates, Wake
  <1>5. NothingLeftOver'
    BY DEF TInv, NothingLeftOver, Wake, IInv, TypeOK
  <1> QED
    BY <1>1, <1>2, <1>3, <1>5, QuietStep DEF TInv, Wake

LEMMA AcquireToken ==
  ASSUME IInv, TInv, NEW m \in Services, Acquire(m)
  PROVE  TInv'
  <1>1. SameRows
    BY DEF SameRows, SameId, Acquire
  <1>2. AskedOnce'
    BY <1>1, AskersStand DEF Acquire
  <1>4. HasCandidate'
    BY RingMembers DEF TInv, HasCandidate, Candidates, Acquire, IInv, TypeOK
  <1>3. OwnerOnCard'
    BY DEF TInv, OwnerOnCard, Owns, Acquire, IInv, TypeOK
  <1>5. NothingLeftOver'
    BY DEF TInv, NothingLeftOver, Acquire, IInv, TypeOK
  <1> QED
    BY <1>1, <1>2, <1>3, <1>4, <1>5, QuietStep DEF TInv, Acquire

LEMMA VacateToken ==
  ASSUME IInv, TInv, NEW m \in Services, Vacate(m)
  PROVE  TInv'
  <1>1. SameRows
    BY DEF SameRows, SameId, Vacate
  <1>2. AskedOnce'
    BY <1>1, AskersStand DEF Vacate
  <1>4. HasCandidate'
    BY RingMembers DEF TInv, HasCandidate, Candidates, Vacate, IInv, TypeOK
  <1>3. OwnerOnCard'
    BY DEF TInv, OwnerOnCard, Owns, Vacate, IInv, TypeOK
  <1>5. NothingLeftOver'
    BY DEF TInv, NothingLeftOver, Vacate, IInv, TypeOK
  <1> QED
    BY <1>1, <1>2, <1>3, <1>4, <1>5, QuietStep DEF TInv, Vacate

LEMMA CloseShape ==
  ASSUME IInv, NEW m \in Services, Close(m)
  PROVE  SameRows
  <1> DEFINE c == granted[m].row
             row == [ledger[c] EXCEPT !.state = "closed"]
  <1>1. Owns(m)
    BY DEF IInv, TransferInOrder, Close
  <1>2. c \in DOMAIN ledger /\ ledger[c] \in Row /\ ledger[c].state # "open"
    BY <1>1, OwnerGrant, LedgerTypes DEF GrantedRows
  <1>3. /\ row \in Row /\ row.state = "closed" /\ SameId(row, ledger[c])
        /\ row.grant = ledger[c].grant
    BY <1>2 DEF Row, SameId
  <1>4. ledger' = [ledger EXCEPT ![c] = row]
    BY <1>2 DEF Close, Row
  <1> HIDE DEF row, c
  <1>5. /\ DOMAIN ledger' = DOMAIN ledger /\ ledger'[c] = row
        /\ \A i \in DOMAIN ledger : i # c => ledger'[i] = ledger[i]
    <2>1. ledger \in Seq(Row)
      BY LedgerTypes
    <2>2. /\ DOMAIN [ledger EXCEPT ![c] = row] = DOMAIN ledger
          /\ [ledger EXCEPT ![c] = row][c] = row
          /\ \A i \in DOMAIN ledger : i # c => [ledger EXCEPT ![c] = row][i] = ledger[i]
      BY <1>2, <1>3, <2>1, LedgerExcept, Zenon
    <2> QED
      BY <1>4, <2>2, Zenon
  <1> QED
    BY <1>2, <1>3, <1>5 DEF SameRows, SameId

LEMMA CloseToken ==
  ASSUME IInv, TInv, NEW m \in Services, Close(m)
  PROVE  TInv'
  <1>1. SameRows
    BY CloseShape
  <1>2. AskedOnce'
    BY <1>1, AskersStand DEF Close
  <1>3. HasCandidate' /\ OwnerOnCard'
    BY RingMembers DEF TInv, HasCandidate, OwnerOnCard, Owns, Candidates, Close, IInv, TypeOK
  <1>5. NothingLeftOver'
    BY DEF TInv, NothingLeftOver, Close, IInv, TypeOK
  <1> QED
    BY <1>1, <1>2, <1>3, <1>5, QuietStep DEF TInv, Close

-----------------------------------------------------------------------------
(* Steps that raise a request.                                             *)

LEMMA RowGrows ==
  ASSUME IInv, NEW r \in Row, r.state = "open", ledger' = Append(ledger, r)
  PROVE  /\ Len(ledger) + 1 \in Nat /\ Len(ledger) + 1 \notin DOMAIN ledger
         /\ DOMAIN ledger' = DOMAIN ledger \cup {Len(ledger) + 1}
         /\ ledger'[Len(ledger) + 1] = r
         /\ \A i \in DOMAIN ledger : ledger'[i] = ledger[i]
         /\ GrantedRows' = GrantedRows
         /\ OpenRows(ledger') = OpenRows(ledger) \cup {Len(ledger) + 1}
         /\ \A i \in GrantedRows : i \in DOMAIN ledger /\ ledger'[i] = ledger[i]
         /\ \A i : Newest(i)' <=> Newest(i)
  <1> DEFINE pos == Len(ledger) + 1
  <1>1. ledger \in Seq(Row) /\ pos \in Nat
    BY LedgerTypes
  <1> HIDE DEF pos
  <1>2. /\ DOMAIN ledger' = DOMAIN ledger \cup {pos} /\ pos \notin DOMAIN ledger
        /\ ledger'[pos] = r
        /\ \A i \in DOMAIN ledger : ledger'[i] = ledger[i]
    <2>1. /\ DOMAIN Append(ledger, r) = DOMAIN ledger \cup {Len(ledger) + 1}
          /\ Len(ledger) + 1 \notin DOMAIN ledger
          /\ Append(ledger, r)[Len(ledger) + 1] = r
          /\ \A i \in DOMAIN ledger : Append(ledger, r)[i] = ledger[i]
      BY <1>1, LedgerAppend, Zenon
    <2> QED
      BY <2>1 DEF pos
  <1>3. GrantedRows' = GrantedRows /\ OpenRows(ledger') = OpenRows(ledger) \cup {pos}
    BY <1>2 DEF GrantedRows, OpenRows
  <1>4. \A i \in GrantedRows : i \in DOMAIN ledger /\ ledger'[i] = ledger[i]
    BY <1>2 DEF GrantedRows
  <1>5. ASSUME NEW i PROVE Newest(i)' <=> Newest(i)
    BY <1>3, <1>4 DEF Newest
  <1> QED
    BY <1>1, <1>2, <1>3, <1>4, <1>5 DEF pos

LEMMA RequestToken ==
  ASSUME IInv, IInv', TInv, NEW s \in Services, Request(s)
  PROVE  TInv'
  <1> DEFINE r == OpenRow(s, "on_demand", windows'[s])
             pos == Len(ledger) + 1
  <1>1. /\ s \in OnDemand /\ s \notin Fallback /\ windows' = [windows EXCEPT ![s] = windows[s] + 1]
        /\ windows' \in [Services -> Nat] /\ windows[s] \in Nat
        /\ ledger' = Append(ledger, r) /\ job' = [job EXCEPT ![s] = pos]
        /\ worker[s] = "idle" /\ worker' = [worker EXCEPT ![s] = "waiting"]
        /\ windows'[s] = windows[s] + 1
    BY DEF Request, OnDemand, IInv, TypeOK
  <1>2. r \in Row /\ r.state = "open" /\ r.svc = s /\ r.kind = "on_demand" /\ r.key = windows[s] + 1
    BY <1>1, OpenRowType DEF OpenRow
  <1> HIDE DEF r, pos
  <1>3. /\ pos \in Nat /\ pos \notin DOMAIN ledger
        /\ DOMAIN ledger' = DOMAIN ledger \cup {pos} /\ ledger'[pos] = r
        /\ \A i \in DOMAIN ledger : ledger'[i] = ledger[i]
        /\ GrantedRows' = GrantedRows
        /\ OpenRows(ledger') = OpenRows(ledger) \cup {pos}
        /\ \A i \in GrantedRows : i \in DOMAIN ledger /\ ledger'[i] = ledger[i]
        /\ \A i : Newest(i)' <=> Newest(i)
    BY <1>1, <1>2, RowGrows DEF pos
  <1>4. KindsFit'
    BY <1>1, <1>2, <1>3 DEF TInv, KindsFit
  <1>5. \A f \in Services : StandingRows(ledger', f) = StandingRows(ledger, f)
    BY <1>2, <1>3 DEF StandingRows, OpenRows
  <1>6. OneStanding'
    BY <1>5, RingMembers DEF TInv, OneStanding
  <1>7. OwnerAsksNot'
    <2> SUFFICES ASSUME NEW i \in DOMAIN ledger', Newest(i)'
                 PROVE  StandingRows(ledger', ledger'[i].svc) = {}
      BY DEF OwnerAsksNot
    <2>1. i \in DOMAIN ledger /\ Newest(i) /\ ledger'[i].svc = ledger[i].svc
      BY <1>3 DEF Newest
    <2>2. ledger[i].svc \in Services
      BY <2>1, LedgerTypes DEF Row
    <2> QED
      BY <1>5, <2>1, <2>2 DEF TInv, OwnerAsksNot
  <1>8. Remembers' /\ NothingLeftOver' /\ HasCandidate' /\ OwnerOnCard'
    BY DEF Request, TInv, Remembers, NothingLeftOver, HasCandidate, OwnerOnCard, Owns, Candidates
  <1>9. OwnGrantsKnown'
    BY <1>3 DEF TInv, OwnGrantsKnown, Request
  <1>10. RaisedForIt'
    <2> SUFFICES ASSUME NEW f \in Fallback, NEW i \in NeverSeen(f)'
                 PROVE  /\ UnseenGrants(f)' \subseteq {i}
                        /\ ledger'[i].state = "open" /\ GrantedRows' # {} =>
                             \E n \in Services : chosen'[n] = i
      BY DEF RaisedForIt
    <2>1. i \in NeverSeen(f) /\ i \in DOMAIN ledger
      BY <1>1, <1>2, <1>3 DEF NeverSeen, Request
    <2>2. UnseenGrants(f)' = UnseenGrants(f)
      BY <1>2, <1>3 DEF UnseenGrants, Request
    <2> QED
      BY <1>3, <2>1, <2>2 DEF TInv, RaisedForIt, Request
  <1>11. AskedOnce'
    <2> SUFFICES ASSUME NEW i \in OpenRows(ledger'), ledger'[i].svc \in OnDemand
                 PROVE  worker'[ledger'[i].svc] = "waiting" /\ job'[ledger'[i].svc] = i
      BY DEF AskedOnce
    <2>1. CASE i = pos
      BY <1>1, <1>2, <1>3, <2>1 DEF IInv, TypeOK
    <2>2. CASE i \in OpenRows(ledger)
      <3>1. /\ ledger'[i].svc = ledger[i].svc /\ worker[ledger[i].svc] = "waiting"
            /\ job[ledger[i].svc] = i
        BY <1>3, <2>2 DEF TInv, AskedOnce, OpenRows
      <3>2. ledger[i].svc # s
        BY <1>1, <3>1
      <3> QED
        BY <1>1, <3>1, <3>2 DEF IInv, TypeOK
    <2> QED
      BY <1>3, <2>1, <2>2
  <1>12. IdsKept'
    BY <1>3, MemoryTypes DEF TInv, IdsKept, SameId, Request
  <1>13. \A i \in DOMAIN ledger : ledger[i].svc = s => ledger[i].key <= windows[s] /\ ledger[i].key \in Nat
    BY <1>1, LedgerTypes DEF TInv, KeysCount, Row
  <1>14. KeysCount'
    <2> SUFFICES ASSUME NEW i \in DOMAIN ledger'
                 PROVE  IF ledger'[i].svc \in OnDemand THEN ledger'[i].key <= windows'[ledger'[i].svc]
                        ELSE IF ledger'[i].state = "open"
                        THEN ledger'[i].key = 0
                             \/ \E j \in GrantedRows' : ledger'[i].key <= ledger'[j].grant.seq + 1
                        ELSE ledger'[i].key <= ledger'[i].grant.seq
      BY DEF KeysCount
    <2>1. CASE i = pos
      BY <1>1, <1>2, <1>3, <2>1
    <2>2. CASE i \in DOMAIN ledger /\ ledger[i].svc = s
      BY <1>1, <1>3, <1>13, <2>2
    <2>3. CASE i \in DOMAIN ledger /\ ledger[i].svc # s
      <3>1. ledger'[i] = ledger[i] /\ windows'[ledger[i].svc] = windows[ledger[i].svc]
        BY <1>1, <1>3, <2>3, LedgerTypes DEF Row, IInv, TypeOK
      <3> QED
        BY <1>3, <2>3, <3>1 DEF TInv, KeysCount
    <2> QED
      BY <1>3, <2>1, <2>2, <2>3
  <1>15. RequestIdsUnique'
    BY <1>1, <1>2, <1>3, <1>13 DEF TInv, RequestIdsUnique
  <1> QED
    BY <1>4, <1>6, <1>7, <1>8, <1>9, <1>10, <1>11, <1>12, <1>14, <1>15 DEF TInv

(* A standing request for a member that has none and is not the owner,     *)
(* numbered above every grant it had.                                      *)
LEMMA StandingRaised ==
  ASSUME IInv, TInv, NEW f \in Fallback, NEW key \in Nat,
         ledger' = Append(ledger, OpenRow(f, "fallback", key)),
         StandingRows(ledger, f) = {},
         \A i \in DOMAIN ledger : Newest(i) => ledger[i].svc # f,
         key = 0 \/ \E j \in GrantedRows : key <= ledger[j].grant.seq + 1,
         \A i \in GrantedRows : ledger[i].svc = f => ledger[i].grant.seq < key,
         UNCHANGED <<windows, worker, job>>
  PROVE  /\ KindsFit' /\ OneStanding' /\ OwnerAsksNot' /\ KeysCount' /\ RequestIdsUnique'
         /\ AskedOnce'
  <1> DEFINE r == OpenRow(f, "fallback", key)
             pos == Len(ledger) + 1
  <1>1. f \in Services /\ f \notin OnDemand
    BY RingMembers DEF OnDemand
  <1>2. r \in Row /\ r.state = "open" /\ r.svc = f /\ r.kind = "fallback" /\ r.key = key
    BY <1>1, OpenRowType DEF OpenRow
  <1> HIDE DEF r, pos
  <1>3. /\ pos \in Nat /\ pos \notin DOMAIN ledger
        /\ DOMAIN ledger' = DOMAIN ledger \cup {pos} /\ ledger'[pos] = r
        /\ \A i \in DOMAIN ledger : ledger'[i] = ledger[i]
        /\ GrantedRows' = GrantedRows
        /\ OpenRows(ledger') = OpenRows(ledger) \cup {pos}
        /\ \A i \in GrantedRows : i \in DOMAIN ledger /\ ledger'[i] = ledger[i]
        /\ \A i : Newest(i)' <=> Newest(i)
    BY <1>2, RowGrows DEF pos, r
  <1>4. KindsFit'
    BY <1>2, <1>3 DEF TInv, KindsFit
  <1>5. /\ StandingRows(ledger', f) = {pos}
        /\ \A g : g # f => StandingRows(ledger', g) = StandingRows(ledger, g)
    BY <1>2, <1>3 DEF StandingRows, OpenRows
  <1>6. OneStanding'
    BY <1>5 DEF TInv, OneStanding
  <1>7. OwnerAsksNot'
    <2> SUFFICES ASSUME NEW i \in DOMAIN ledger', Newest(i)'
                 PROVE  StandingRows(ledger', ledger'[i].svc) = {}
      BY DEF OwnerAsksNot
    <2>1. i \in DOMAIN ledger /\ Newest(i) /\ ledger'[i].svc = ledger[i].svc
      BY <1>3 DEF Newest
    <2> QED
      BY <1>5, <2>1 DEF TInv, OwnerAsksNot
  <1>8. KeysCount'
    <2> SUFFICES ASSUME NEW i \in DOMAIN ledger'
                 PROVE  IF ledger'[i].svc \in OnDemand THEN ledger'[i].key <= windows'[ledger'[i].svc]
                        ELSE IF ledger'[i].state = "open"
                        THEN ledger'[i].key = 0
                             \/ \E j \in GrantedRows' : ledger'[i].key <= ledger'[j].grant.seq + 1
                        ELSE ledger'[i].key <= ledger'[i].grant.seq
      BY DEF KeysCount
    <2>1. CASE i = pos
      BY <1>1, <1>2, <1>3, <2>1
    <2>2. CASE i \in DOMAIN ledger
      BY <1>3, <2>2 DEF TInv, KeysCount
    <2> QED
      BY <1>3, <2>1, <2>2
  <1>9. ASSUME NEW i \in DOMAIN ledger, ledger[i].svc = f PROVE ledger[i].key # key
    <2>1. ledger[i].kind = "fallback"
      BY <1>9 DEF TInv, KindsFit
    <2>2. ledger[i].state # "open"
      BY <1>9, <2>1 DEF StandingRows, OpenRows
    <2>3. i \in GrantedRows /\ ledger[i].key <= ledger[i].grant.seq
      BY <1>1, <1>9, <2>2 DEF GrantedRows, TInv, KeysCount
    <2>4. ledger[i].grant.seq < key /\ ledger[i].grant.seq \in Nat /\ ledger[i].key \in Nat
      BY <1>9, <2>3, Seqs, LedgerTypes DEF Row
    <2> QED
      BY <2>3, <2>4
  <1>10. RequestIdsUnique'
    BY <1>2, <1>3, <1>9 DEF TInv, RequestIdsUnique
  <1>11. AskedOnce'
    BY <1>1, <1>2, <1>3 DEF TInv, AskedOnce, OpenRows
  <1> QED
    BY <1>4, <1>6, <1>7, <1>8, <1>10, <1>11

(* A manager registers only when the ledger says that another has the      *)
(* token, however little of it the manager has replayed so far.            *)
LEMMA RegistersElsewhere ==
  ASSUME IInv, TInv, NEW m \in Fallback, NEW i \in Registering(m),
         NEW n \in DOMAIN ledger, Newest(n)
  PROVE  ledger[n].svc # m
  <1> SUFFICES ASSUME ledger[n].svc = m PROVE FALSE
    OBVIOUS
  <1>1. m \in Services
    BY RingMembers
  <1>2. /\ i \in UnseenGrants(m) /\ i \in GrantedRows /\ i \in DOMAIN ledger
        /\ n \in GrantedRows /\ ledger[n].grant.target = m
        /\ \A j \in GrantedRows : ledger[j].grant.seq <= ledger[n].grant.seq
        /\ ledger[i].grant.seq \in Nat /\ ledger[n].grant.seq \in Nat
        /\ granted[m].seq \in Int
    BY <1>1, Seqs DEF Registering, UnseenGrants, GrantedRows, Newest, IInv, RowsWellFormed
  <1>3. /\ ledger[i].grant.seq > granted[m].seq => ledger[i].grant.target # m
        /\ ~(ledger[i].grant.seq > granted[m].seq) => granted[m].target # m
        /\ \A j \in StandingRows(view[m], m) : ledger[j].grant.seq <= ledger[i].grant.seq
    BY DEF Registering
  <1>4. i # n
    <2> SUFFICES ASSUME i = n PROVE FALSE
      OBVIOUS
    <2>1. ~(ledger[n].grant.seq > granted[m].seq) /\ ledger[n].grant.seq <= granted[m].seq
      BY <1>2, <1>3
    <2>2. n \in DOMAIN view[m] /\ view[m][n].state # "open"
      BY <1>1, <1>2, <2>1 DEF TInv, OwnGrantsKnown
    <2> QED
      BY <1>2, <2>2 DEF UnseenGrants
  <1>5. CASE ledger[n].grant.seq <= granted[m].seq
    <2>1. granted[m] # Ungranted
      BY <1>2, <1>5 DEF Ungranted
    <2>2. granted[m].row \in GrantedRows /\ ledger[granted[m].row].grant = granted[m]
      BY <1>1, <2>1 DEF IInv, GrantsOnLedger, RowsWellFormed, GrantedRows
    <2>3. granted[m].seq = ledger[n].grant.seq
      BY <1>2, <1>5, <2>2
    <2>4. granted[m].row = n
      BY <1>2, <2>2, <2>3 DEF IInv, GrantChain
    <2>5. granted[m].target = m /\ ledger[i].grant.seq <= granted[m].seq
      BY <1>2, <2>2, <2>3, <2>4
    <2> QED
      BY <1>2, <1>3, <2>5
  <1>6. CASE ~(ledger[n].grant.seq <= granted[m].seq)
    <2>1. n \in DOMAIN view[m] => view[m][n].state = "open"
      BY <1>1, <1>6 DEF IInv, MemoryFaithful
    <2>2. n \in UnseenGrants(m)
      BY <1>2, <2>1 DEF UnseenGrants, GrantedRows
    <2>3. CASE n \in DOMAIN view[m]
      <3>1. view[m][n].svc = m /\ view[m][n].kind = "fallback"
        BY <1>1, <2>3 DEF TInv, IdsKept, SameId, KindsFit
      <3>2. n \in StandingRows(view[m], m)
        BY <2>1, <2>3, <3>1 DEF StandingRows, OpenRows
      <3>3. ledger[i].grant.seq = ledger[n].grant.seq
        BY <1>2, <1>3, <3>2
      <3> QED
        BY <1>2, <1>4, <3>3 DEF IInv, GrantChain
    <2>4. CASE n \notin DOMAIN view[m]
      <3>1. n \in NeverSeen(m)
        BY <2>4 DEF NeverSeen
      <3>2. UnseenGrants(m) \subseteq {n}
        BY <3>1 DEF TInv, RaisedForIt
      <3> QED
        BY <1>2, <1>4, <3>2
    <2> QED
      BY <2>3, <2>4
  <1> QED
    BY <1>5, <1>6

-----------------------------------------------------------------------------
(* A poll.                                                                 *)

LEMMA PollShape ==
  ASSUME IInv, NEW m \in Services, Poll(m)
  PROVE  /\ \E g \in Applicable(m) :
              /\ g \in Grant /\ granted'[m] = g
              /\ \A h \in Applicable(m) : h.seq <= g.seq
              /\ \A i \in GrantedRows : ledger[i].grant.seq <= g.seq
              /\ phase'[m] = IF g # granted[m] /\ g.target = m THEN "acquire" ELSE "poll"
         /\ view'[m] = ledger' /\ phase[m] = "poll"
         /\ \A n \in Services \ {m} :
              granted'[n] = granted[n] /\ phase'[n] = phase[n] /\ view'[n] = view[n]
         /\ UNCHANGED <<chosen, rest, resident, worker, job, windows>>
  <1>1. PICK g \in Applicable(m) :
          /\ \A h \in Applicable(m) : h.seq <= g.seq
          /\ granted' = [granted EXCEPT ![m] = g]
          /\ phase' = [phase EXCEPT ![m] = IF g # granted[m] /\ g.target = m
                                           THEN "acquire" ELSE "poll"]
    BY DEF Poll
  <1>2. g \in Grant /\ \A i \in GrantedRows : ledger[i].grant.seq <= g.seq
    BY <1>1, NewestApplies
  <1> QED
    BY <1>1, <1>2 DEF Poll, IInv, TypeOK

LEMMA PollRegisters ==
  ASSUME IInv, TInv, NEW m \in Services, Poll(m)
  PROVE  \/ /\ ledger' = ledger
            /\ m \in Fallback => Registering(m) = {}
         \/ /\ m \in Fallback
            /\ \E i \in Registering(m), key \in Nat :
                 /\ ledger' = Append(ledger, OpenRow(m, "fallback", key))
                 /\ key = (IF ledger[i].grant.seq > granted[m].seq
                           THEN ledger[i].grant.seq ELSE granted[m].seq) + 1
  <1> SUFFICES ASSUME m \in Fallback, NEW i \in Registering(m),
                      ledger' = Append(ledger, StandingRow(m, i))
               PROVE  \E key \in Nat :
                 /\ ledger' = Append(ledger, OpenRow(m, "fallback", key))
                 /\ key = (IF ledger[i].grant.seq > granted[m].seq
                           THEN ledger[i].grant.seq ELSE granted[m].seq) + 1
    BY DEF Poll, Register
  <1> DEFINE key == (IF ledger[i].grant.seq > granted[m].seq
                     THEN ledger[i].grant.seq ELSE granted[m].seq) + 1
  <1>1. i \in GrantedRows
    BY DEF Registering, UnseenGrants, GrantedRows
  <1>2. key \in Nat
    BY <1>1, Seqs
  <1>3. StandingRow(m, i) = OpenRow(m, "fallback", key)
    BY DEF StandingRow
  <1> QED
    BY <1>2, <1>3

LEMMA PollRaises ==
  ASSUME IInv, TInv, NEW m \in Fallback, NEW i \in Registering(m), NEW key \in Nat,
         ledger' = Append(ledger, OpenRow(m, "fallback", key)),
         key = (IF ledger[i].grant.seq > granted[m].seq
                THEN ledger[i].grant.seq ELSE granted[m].seq) + 1,
         UNCHANGED <<windows, worker, job>>
  PROVE  /\ KindsFit' /\ OneStanding' /\ OwnerAsksNot' /\ KeysCount' /\ RequestIdsUnique'
         /\ AskedOnce'
  <1>1. m \in Services
    BY RingMembers
  <1>2. StandingRows(ledger, m) = {} /\ i \in GrantedRows
    BY DEF Registering, UnseenGrants, GrantedRows
  <1>3. \A n \in DOMAIN ledger : Newest(n) => ledger[n].svc # m
    BY RegistersElsewhere
  <1>4. /\ ledger[i].grant.seq \in Nat
        /\ granted[m].seq \in Int /\ granted[m].seq >= -1
        /\ key > granted[m].seq
    BY <1>1, <1>2, Seqs
  <1>5. \E j \in GrantedRows : key <= ledger[j].grant.seq + 1
    <2>1. CASE ledger[i].grant.seq > granted[m].seq
      BY <1>2, <1>4, <2>1
    <2>2. CASE ~(ledger[i].grant.seq > granted[m].seq)
      <3>1. granted[m] # Ungranted
        BY <1>4, <2>2 DEF Ungranted
      <3>2. granted[m].row \in GrantedRows /\ ledger[granted[m].row].grant = granted[m]
        BY <1>1, <3>1 DEF IInv, GrantsOnLedger, RowsWellFormed, GrantedRows
      <3>3. key <= ledger[granted[m].row].grant.seq + 1
        BY <1>4, <2>2, <3>2
      <3> QED
        BY <3>2, <3>3
    <2> QED
      BY <2>1, <2>2
  <1>6. ASSUME NEW j \in GrantedRows, ledger[j].svc = m PROVE ledger[j].grant.seq < key
    <2>1. j \in DOMAIN ledger /\ ledger[j].grant.seq \in Nat
      BY Seqs
    <2>2. ledger[j].grant.seq <= granted[m].seq
      BY <1>1, <1>3, <1>6, <2>1 DEF TInv, OwnGrantsKnown
    <2> QED
      BY <1>4, <2>1, <2>2
  <1> QED
    BY <1>2, <1>3, <1>5, <1>6, StandingRaised

LEMMA PollKeepsRows ==
  ASSUME IInv, TInv, NEW m \in Services, Poll(m)
  PROVE  /\ KindsFit' /\ OneStanding' /\ OwnerAsksNot' /\ KeysCount' /\ RequestIdsUnique'
         /\ AskedOnce'
         /\ GrantedRows' = GrantedRows /\ DOMAIN ledger \subseteq DOMAIN ledger'
         /\ \A i \in DOMAIN ledger : ledger'[i] = ledger[i]
         /\ \A i : Newest(i)' <=> Newest(i)
         /\ \A i \in DOMAIN ledger' : i \in DOMAIN ledger \/ ledger'[i].svc = m
  <1>1. UNCHANGED <<windows, worker, job>>
    BY DEF Poll
  <1>2. CASE ledger' = ledger
    <2>1. SameRows
      BY <1>2 DEF SameRows, SameId
    <2> QED
      BY <1>1, <1>2, <2>1, RowsStand, QuietRows, AskersStand
  <1>3. ASSUME m \in Fallback, NEW i \in Registering(m), NEW key \in Nat,
               ledger' = Append(ledger, OpenRow(m, "fallback", key)),
               key = (IF ledger[i].grant.seq > granted[m].seq
                      THEN ledger[i].grant.seq ELSE granted[m].seq) + 1
        PROVE  /\ KindsFit' /\ OneStanding' /\ OwnerAsksNot' /\ KeysCount' /\ RequestIdsUnique'
               /\ AskedOnce'
               /\ GrantedRows' = GrantedRows /\ DOMAIN ledger \subseteq DOMAIN ledger'
               /\ \A j \in DOMAIN ledger : ledger'[j] = ledger[j]
               /\ \A j : Newest(j)' <=> Newest(j)
               /\ \A j \in DOMAIN ledger' : j \in DOMAIN ledger \/ ledger'[j].svc = m
    <2>1. /\ OpenRow(m, "fallback", key) \in Row
          /\ OpenRow(m, "fallback", key).state = "open" /\ OpenRow(m, "fallback", key).svc = m
      BY <1>3, OpenRowType
    <2>2. /\ GrantedRows' = GrantedRows /\ DOMAIN ledger \subseteq DOMAIN ledger'
          /\ \A j \in DOMAIN ledger : ledger'[j] = ledger[j]
          /\ \A j : Newest(j)' <=> Newest(j)
          /\ \A j \in DOMAIN ledger' : j \in DOMAIN ledger \/ ledger'[j].svc = m
      BY <1>3, <2>1, RowGrows
    <2>3. /\ KindsFit' /\ OneStanding' /\ OwnerAsksNot' /\ KeysCount' /\ RequestIdsUnique'
          /\ AskedOnce'
      BY <1>1, <1>3, PollRaises
    <2> QED
      BY <2>2, <2>3
  <1> QED
    BY <1>2, <1>3, PollRegisters

LEMMA PollRemembers ==
  ASSUME IInv, TInv, NEW m \in Fallback, Poll(m), NEW g \in Applicable(m),
         \A i \in GrantedRows : ledger[i].grant.seq <= g.seq,
         g # Ungranted, g.target # m, g.source # m
  PROVE  StandingRows(ledger', m) # {}
  <1>0. m \in Services
    BY RingMembers
  <1> SUFFICES ASSUME StandingRows(ledger', m) = {} PROVE FALSE
    OBVIOUS
  <1>1. ledger' = ledger /\ Registering(m) = {}
    <2> SUFFICES ASSUME NEW key \in Nat,
                        ledger' = Append(ledger, OpenRow(m, "fallback", key))
                 PROVE  FALSE
      BY <1>0, PollRegisters
    <2> DEFINE r == OpenRow(m, "fallback", key)
    <2>1. r \in Row /\ r.state = "open" /\ r.svc = m /\ r.kind = "fallback"
      BY <1>0, OpenRowType DEF OpenRow
    <2> HIDE DEF r
    <2>2. /\ Len(ledger) + 1 \in OpenRows(ledger') /\ ledger'[Len(ledger) + 1] = r
      BY <2>1, RowGrows DEF r
    <2>3. Len(ledger) + 1 \in StandingRows(ledger', m)
      BY <2>1, <2>2 DEF StandingRows
    <2> QED
      BY <2>3
  <1>2. g.seq \in Int /\ granted[m].seq \in Int
    BY <1>0, Seqs DEF Applicable, NewGrants, UnseenGrants, GrantedRows
  <1>3. ASSUME NEW j \in StandingRows(view[m], m)
        PROVE  /\ j \in UnseenGrants(m) /\ ledger[j].grant.seq > granted[m].seq
               /\ ledger[j].grant.seq <= g.seq /\ ledger[j].grant.seq \in Nat
    BY <1>1, StandsOrNews, Seqs
  <1>4. CASE g = granted[m]
    <2>1. PICK j \in StandingRows(view[m], m) : TRUE
      BY <1>4 DEF TInv, Remembers, Owns
    <2> QED
      BY <1>2, <1>3, <1>4, <2>1
  <1>5. ASSUME NEW i \in NewGrants(m), g = ledger[i].grant PROVE FALSE
    <2>1. i \in UnseenGrants(m) /\ ledger[i].grant.seq > granted[m].seq
      BY DEF NewGrants
    <2>2. i \in Registering(m)
      BY <1>1, <1>3, <1>5, <2>1 DEF Registering
    <2> QED
      BY <1>1, <2>2
  <1> QED
    BY <1>4, <1>5 DEF Applicable

LEMMA PollToken ==
  ASSUME IInv, TInv, NEW m \in Services, Poll(m)
  PROVE  TInv'
  <1>1. PICK g \in Applicable(m) :
          /\ g \in Grant /\ granted'[m] = g
          /\ \A h \in Applicable(m) : h.seq <= g.seq
          /\ \A i \in GrantedRows : ledger[i].grant.seq <= g.seq
          /\ phase'[m] = IF g # granted[m] /\ g.target = m THEN "acquire" ELSE "poll"
    BY PollShape
  <1>2. /\ view'[m] = ledger' /\ phase[m] = "poll"
        /\ \A n \in Services \ {m} :
             granted'[n] = granted[n] /\ phase'[n] = phase[n] /\ view'[n] = view[n]
        /\ UNCHANGED <<chosen, rest, resident, worker, job, windows>>
    BY PollShape
  <1>3. /\ GrantedRows' = GrantedRows /\ DOMAIN ledger \subseteq DOMAIN ledger'
        /\ \A i \in DOMAIN ledger : ledger'[i] = ledger[i]
        /\ \A i : Newest(i)' <=> Newest(i)
        /\ \A i \in DOMAIN ledger' : i \in DOMAIN ledger \/ ledger'[i].svc = m
    BY PollKeepsRows
  <1>4. Remembers'
    <2> SUFFICES ASSUME NEW f \in Fallback, granted'[f] # Ungranted,
                        granted'[f].target # f, granted'[f].source # f
                 PROVE  StandingRows(view'[f], f) # {}
      BY DEF Remembers, Owns
    <2>1. CASE f = m
      BY <1>1, <1>2, <2>1, PollRemembers
    <2>2. CASE f # m
      BY <1>2, <2>2, RingMembers DEF TInv, Remembers, Owns
    <2> QED
      BY <2>1, <2>2
  <1>5. OwnGrantsKnown'
    <2> SUFFICES ASSUME NEW n \in Services, NEW i \in GrantedRows, ledger'[i].svc = n
                 PROVE  IF ledger'[i].grant.seq <= granted'[n].seq
                        THEN /\ i \in DOMAIN view'[n] /\ view'[n][i].state # "open"
                             /\ i \in DOMAIN rest'[n] => rest'[n][i].state # "open"
                        ELSE Newest(i)'
      BY <1>3 DEF OwnGrantsKnown
    <2>1. i \in DOMAIN ledger /\ ledger'[i] = ledger[i] /\ ledger[i].state # "open"
      BY <1>3 DEF GrantedRows
    <2>2. CASE n = m
      <3>1. DOMAIN rest[m] = {}
        BY <1>2 DEF TInv, NothingLeftOver
      <3> QED
        BY <1>1, <1>2, <1>3, <2>1, <2>2, <3>1
    <2>3. CASE n # m
      BY <1>2, <1>3, <2>1, <2>3 DEF TInv, OwnGrantsKnown
    <2> QED
      BY <2>2, <2>3
  <1>6. NothingLeftOver'
    BY <1>2 DEF TInv, NothingLeftOver
  <1>7. RaisedForIt'
    <2> SUFFICES ASSUME NEW f \in Fallback, NEW i \in NeverSeen(f)'
                 PROVE  /\ UnseenGrants(f)' \subseteq {i}
                        /\ ledger'[i].state = "open" /\ GrantedRows # {} =>
                             \E n \in Services : chosen[n] = i
      BY <1>2, <1>3 DEF RaisedForIt
    <2>1. f \in Services
      BY RingMembers
    <2>2. f # m
      BY <1>2 DEF NeverSeen
    <2>3. i \in NeverSeen(f) /\ i \in DOMAIN ledger
      BY <1>2, <1>3, <2>1, <2>2 DEF NeverSeen
    <2>4. UnseenGrants(f)' = UnseenGrants(f)
      <3>1. \A k \in DOMAIN ledger' : ledger'[k].state # "open" => k \in DOMAIN ledger
        BY <1>3 DEF GrantedRows
      <3>2. view'[f] = view[f]
        BY <1>2, <2>1, <2>2
      <3> QED
        BY <1>3, <3>1, <3>2 DEF UnseenGrants
    <2> QED
      BY <1>3, <2>3, <2>4 DEF TInv, RaisedForIt
  <1>8. HasCandidate'
    BY <1>1, <1>2, RingMembers DEF TInv, HasCandidate, Candidates
  <1>9. OwnerOnCard'
    BY <1>1, <1>2 DEF TInv, OwnerOnCard, Owns
  <1>10. IdsKept'
    <2>1. ASSUME NEW n \in Services, NEW i \in DOMAIN view'[n]
          PROVE  SameId(view'[n][i], ledger'[i])
      <3>1. CASE n = m
        BY <1>2, <3>1 DEF SameId
      <3>2. CASE n # m
        BY <1>2, <1>3, <2>1, <3>2, MemoryTypes DEF TInv, IdsKept
      <3> QED
        BY <3>1, <3>2
    <2>2. ASSUME NEW n \in Services, NEW i \in DOMAIN rest'[n]
          PROVE  SameId(rest'[n][i], ledger'[i])
      BY <1>2, <1>3, <2>2, MemoryTypes DEF TInv, IdsKept
    <2> QED
      BY <2>1, <2>2 DEF IdsKept
  <1> QED
    BY <1>4, <1>5, <1>6, <1>7, <1>8, <1>9, <1>10, PollKeepsRows DEF TInv

-----------------------------------------------------------------------------
(* An owner scans the ledger again, or enters a transfer.                  *)

LEMMA OwnerScans ==
  ASSUME IInv, TInv, NEW m \in Services, Owns(m), view' = [view EXCEPT ![m] = ledger],
         UNCHANGED <<ledger, granted, rest, chosen, windows>>
  PROVE  /\ KindsFit' /\ OneStanding' /\ OwnerAsksNot' /\ Remembers' /\ OwnGrantsKnown'
         /\ RaisedForIt' /\ IdsKept' /\ KeysCount' /\ RequestIdsUnique'
  <1>1. SameRows
    BY DEF SameRows, SameId
  <1>2. view'[m] = ledger /\ \A n \in Services \ {m} : view'[n] = view[n]
    BY DEF IInv, TypeOK
  <1>3. Remembers'
    BY <1>2, RingMembers DEF TInv, Remembers, Owns
  <1>4. OwnGrantsKnown'
    <2> SUFFICES ASSUME NEW n \in Services, NEW i \in GrantedRows, ledger[i].svc = n
                 PROVE  IF ledger[i].grant.seq <= granted[n].seq
                        THEN /\ i \in DOMAIN view'[n] /\ view'[n][i].state # "open"
                             /\ i \in DOMAIN rest[n] => rest[n][i].state # "open"
                        ELSE Newest(i)'
      BY DEF OwnGrantsKnown, GrantedRows
    <2>1. i \in DOMAIN ledger /\ ledger[i].state # "open" /\ (Newest(i)' <=> Newest(i))
      BY <1>1, RowsStand DEF GrantedRows
    <2> QED
      BY <1>2, <2>1 DEF TInv, OwnGrantsKnown
  <1>5. RaisedForIt'
    <2> SUFFICES ASSUME NEW f \in Fallback, NEW i \in NeverSeen(f)'
                 PROVE  /\ UnseenGrants(f)' \subseteq {i}
                        /\ ledger[i].state = "open" /\ GrantedRows # {} =>
                             \E n \in Services : chosen[n] = i
      BY DEF RaisedForIt, GrantedRows
    <2>1. f \in Services /\ f # m
      BY <1>2, RingMembers DEF NeverSeen
    <2>2. NeverSeen(f)' = NeverSeen(f) /\ UnseenGrants(f)' = UnseenGrants(f)
      BY <1>2, <2>1 DEF NeverSeen, UnseenGrants
    <2> QED
      BY <2>2 DEF TInv, RaisedForIt
  <1>6. IdsKept'
    BY <1>2 DEF TInv, IdsKept, SameId
  <1> QED
    BY <1>1, <1>3, <1>4, <1>5, <1>6, QuietRows

LEMMA RescanToken ==
  ASSUME IInv, TInv, NEW m \in Services, Rescan(m)
  PROVE  TInv'
  <1>1. /\ Owns(m) /\ phase[m] = "wait" /\ view' = [view EXCEPT ![m] = ledger]
        /\ UNCHANGED <<ledger, granted, rest, chosen, windows, phase, worker, job, resident>>
    BY DEF IInv, TransferInOrder, Rescan
  <1>2. view'[m] = ledger /\ \A n \in Services \ {m} : view'[n] = view[n]
    BY <1>1 DEF IInv, TypeOK
  <1>3. SameRows
    BY <1>1 DEF SameRows, SameId
  <1>4. AskedOnce'
    BY <1>1, <1>3, AskersStand
  <1>5. HasCandidate'
    <2>1. ASSUME NEW i \in Candidates(m) PROVE i \in Candidates(m)'
      <3>1. i \in DOMAIN ledger /\ ledger[i].state = "open" /\ ledger[i].svc # m
        BY <1>1, MemoryTypes DEF Candidates, OpenRows, IInv, MemoryFaithful
      <3> QED
        BY <1>2, <3>1 DEF Candidates, OpenRows
    <2> QED
      BY <1>1, <1>2, <2>1, RingMembers DEF TInv, HasCandidate, Candidates
  <1>6. OwnerOnCard' /\ NothingLeftOver'
    BY <1>1 DEF TInv, OwnerOnCard, NothingLeftOver, Owns
  <1> QED
    BY <1>1, <1>4, <1>5, <1>6, OwnerScans DEF TInv

LEMMA ReleaseToken ==
  ASSUME IInv, FallbackIdle, TInv, NEW s \in Services, Release(s)
  PROVE  TInv'
  <1>0. s \notin Fallback
    BY DEF FallbackIdle, Release
  <1>1. /\ Owns(s) /\ phase[s] = "poll" /\ view' = [view EXCEPT ![s] = ledger]
        /\ phase' = [phase EXCEPT ![s] = "wait"]
        /\ worker[s] = "working" /\ worker' = [worker EXCEPT ![s] = "releasing"]
        /\ UNCHANGED <<ledger, granted, rest, chosen, windows, job, resident>>
    BY DEF Release
  <1>2. /\ view'[s] = ledger /\ \A n \in Services \ {s} : view'[n] = view[n]
        /\ phase'[s] = "wait" /\ \A n \in Services \ {s} : phase'[n] = phase[n]
        /\ \A n \in Services \ {s} : worker'[n] = worker[n]
    BY <1>1 DEF IInv, TypeOK
  <1>3. AskedOnce'
    <2> SUFFICES ASSUME NEW i \in OpenRows(ledger), ledger[i].svc \in OnDemand
                 PROVE  worker'[ledger[i].svc] = "waiting" /\ job[ledger[i].svc] = i
      BY <1>1 DEF AskedOnce
    <2>1. worker[ledger[i].svc] = "waiting" /\ job[ledger[i].svc] = i
      BY DEF TInv, AskedOnce
    <2> QED
      BY <1>1, <1>2, <2>1 DEF OnDemand
  <1>4. HasCandidate'
    <2> SUFFICES ASSUME NEW f \in Fallback, phase'[f] = "wait"
                 PROVE  Candidates(f)' # {}
      BY DEF HasCandidate
    <2>1. f # s
      BY <1>0
    <2> QED
      BY <1>2, <2>1, RingMembers DEF TInv, HasCandidate, Candidates
  <1>5. OwnerOnCard' /\ NothingLeftOver'
    BY <1>1, <1>2 DEF TInv, OwnerOnCard, NothingLeftOver, Owns
  <1> QED
    BY <1>1, <1>3, <1>4, <1>5, OwnerScans DEF TInv

LEMMA PreemptToken ==
  ASSUME IInv, TInv, NEW m \in Services, Preempt(m)
  PROVE  TInv'
  <1>1. PICK first \in OpenRows(ledger) :
          /\ view' = [view EXCEPT ![m] = Update(@, first, ledger[first])]
          /\ rest' = [rest EXCEPT ![m] = [i \in DOMAIN ledger \ {first} |-> ledger[i]]]
    BY DEF Preempt
  <1>2. /\ first \in DOMAIN ledger /\ ledger[first].state = "open" /\ ledger[first] \in Row
        /\ Owns(m) /\ m \in Fallback /\ phase[m] = "poll"
        /\ phase' = [phase EXCEPT ![m] = "wait"]
        /\ UNCHANGED <<ledger, granted, chosen, windows, job, worker, resident>>
    BY LedgerTypes DEF OpenRows, Preempt, Preempts
  <1> DEFINE new == Update(view[m], first, ledger[first])
             old == [i \in DOMAIN ledger \ {first} |-> ledger[i]]
  <1>3. /\ DOMAIN new = DOMAIN view[m] \cup {first} /\ new[first] = ledger[first]
        /\ \A k \in DOMAIN view[m] : k # first => new[k] = view[m][k]
    BY DEF Update
  <1>4. DOMAIN old = DOMAIN ledger \ {first} /\ \A k \in DOMAIN old : old[k] = ledger[k]
    OBVIOUS
  <1>5. /\ view'[m] = new /\ \A n \in Services \ {m} : view'[n] = view[n]
        /\ rest'[m] = old /\ \A n \in Services \ {m} : rest'[n] = rest[n]
        /\ phase'[m] = "wait" /\ \A n \in Services \ {m} : phase'[n] = phase[n]
    BY <1>1, <1>2 DEF IInv, TypeOK
  <1> HIDE DEF new, old
  <1>6. SameRows
    BY <1>2 DEF SameRows, SameId
  <1>7. AskedOnce' /\ KindsFit' /\ OneStanding' /\ OwnerAsksNot' /\ KeysCount' /\ RequestIdsUnique'
    BY <1>2, <1>6, AskersStand, QuietRows
  <1>8. Remembers'
    BY <1>2, <1>5, RingMembers DEF TInv, Remembers, Owns
  <1>9. OwnGrantsKnown'
    <2> SUFFICES ASSUME NEW n \in Services, NEW i \in GrantedRows, ledger[i].svc = n
                 PROVE  IF ledger[i].grant.seq <= granted[n].seq
                        THEN /\ i \in DOMAIN view'[n] /\ view'[n][i].state # "open"
                             /\ i \in DOMAIN rest'[n] => rest'[n][i].state # "open"
                        ELSE Newest(i)'
      BY <1>2 DEF OwnGrantsKnown, GrantedRows
    <2>1. /\ i \in DOMAIN ledger /\ ledger[i].state # "open" /\ i # first
          /\ (Newest(i)' <=> Newest(i))
      BY <1>2, <1>6, RowsStand DEF GrantedRows
    <2>2. IF ledger[i].grant.seq <= granted[n].seq
          THEN /\ i \in DOMAIN view[n] /\ view[n][i].state # "open"
               /\ i \in DOMAIN rest[n] => rest[n][i].state # "open"
          ELSE Newest(i)
      BY DEF TInv, OwnGrantsKnown
    <2> QED
      BY <1>3, <1>4, <1>5, <2>1, <2>2
  <1>10. NothingLeftOver'
    BY <1>5 DEF TInv, NothingLeftOver
  <1>11. RaisedForIt'
    <2> SUFFICES ASSUME NEW f \in Fallback, NEW i \in NeverSeen(f)'
                 PROVE  /\ UnseenGrants(f)' \subseteq {i}
                        /\ ledger[i].state = "open" /\ GrantedRows # {} =>
                             \E n \in Services : chosen[n] = i
      BY <1>2 DEF RaisedForIt, GrantedRows
    <2>1. f \in Services
      BY RingMembers
    <2>2. i \in NeverSeen(f)
      BY <1>2, <1>3, <1>5, <2>1 DEF NeverSeen
    <2>3. UnseenGrants(f)' \subseteq UnseenGrants(f)
      BY <1>2, <1>3, <1>5, <2>1 DEF UnseenGrants
    <2> QED
      BY <2>2, <2>3 DEF TInv, RaisedForIt
  <1>12. HasCandidate'
    <2>1. ledger[first].svc # m
      <3> SUFFICES ASSUME ledger[first].svc = m PROVE FALSE
        OBVIOUS
      <3>1. ledger[first].kind = "fallback"
        BY <1>2 DEF TInv, KindsFit
      <3>2. first \in StandingRows(ledger, m)
        BY <3>1 DEF StandingRows
      <3> QED
        BY <1>2, <3>2, OwnerIsNewest DEF TInv, OwnerAsksNot
    <2>2. first \in Candidates(m)'
      BY <1>2, <1>3, <1>5, <2>1 DEF Candidates, OpenRows
    <2> QED
      BY <1>5, <2>2, RingMembers DEF TInv, HasCandidate, Candidates
  <1>13. OwnerOnCard'
    BY <1>2, <1>5 DEF TInv, OwnerOnCard, Owns
  <1>14. IdsKept'
    BY <1>2, <1>3, <1>4, <1>5 DEF TInv, IdsKept, SameId
  <1> QED
    BY <1>7, <1>8, <1>9, <1>10, <1>11, <1>12, <1>13, <1>14 DEF TInv

-----------------------------------------------------------------------------
(* The choice of the next owner.                                           *)

LEMMA NextIsOther == ASSUME NEW m \in Services PROVE NextMember(m) # m
  <1>1. \E i \in DOMAIN Ring : Ring[i] = m
    BY DEF Services
  <1>2. Index(m) \in DOMAIN Ring /\ Ring[Index(m)] = m
    BY <1>1 DEF Index
  <1>3. DOMAIN Ring = 1..Len(Ring) /\ Len(Ring) \in Nat /\ Len(Ring) >= 2
    BY RingAssumption
  <1> DEFINE k == Index(m)
             L == Len(Ring)
  <1>4. k \in Nat /\ 1 <= k /\ k <= L /\ L \in Nat /\ L >= 2
    BY <1>2, <1>3
  <1>5. (k % L) + 1 \in 1..L /\ (k % L) + 1 # k
    <2> HIDE DEF k, L
    <2>1. CASE k = L
      <3>1. k % L = 0
        BY <1>4, <2>1
      <3> QED
        BY <1>4, <2>1, <3>1
    <2>2. CASE k < L
      <3>1. k % L = k
        BY <1>4, <2>2
      <3> QED
        BY <1>4, <2>2, <3>1
    <2> QED
      BY <1>4, <2>1, <2>2
  <1>6. Ring[(k % L) + 1] # Ring[k]
    BY <1>2, <1>3, <1>5, RingAssumption
  <1> QED
    BY <1>2, <1>6 DEF NextMember

(* An owner that has waited as long as Patient says and met nobody's       *)
(* request came by the token from a FALLBACK member without a request.     *)
LEMMA ReturnsToFallback ==
  ASSUME Patient, IInv, TInv, NEW m \in Services, Select(m), Candidates(m) = {}
  PROVE  /\ m \notin Fallback /\ granted[m].source \in Fallback
         /\ StandingRows(ledger, granted[m].source) = {}
         /\ UnseenGrants(granted[m].source) = {}
  <1>1. Owns(m) /\ phase[m] = "wait"
    BY DEF IInv, TransferInOrder, Select
  <1>2. m \notin Fallback
    BY <1>1 DEF TInv, HasCandidate
  <1>3. \A f \in Fallback : UnseenGrants(f) = {} /\ StandingRows(ledger, f) \subseteq DOMAIN view[m]
    <2>1. ~HasOpenRequestFrom(m, NextMember(m))
      BY NextIsOther DEF HasOpenRequestFrom, Candidates
    <2>2. MayTimeOut(m)
      BY <2>1 DEF Select
    <2> QED
      BY <1>2, <2>2 DEF MayTimeOut
  <1>4. ASSUME NEW f \in Fallback, NEW i \in StandingRows(ledger, f) PROVE FALSE
    <2>1. /\ i \in DOMAIN view[m] /\ ledger[i].state = "open" /\ ledger[i].svc = f
      BY <1>3 DEF StandingRows, OpenRows
    <2>2. view[m][i].state = "open" /\ view[m][i].svc = f
      BY <2>1 DEF IInv, MemoryFaithful
    <2>3. i \in Candidates(m)
      BY <1>2, <2>1, <2>2 DEF Candidates, OpenRows
    <2> QED
      BY <2>3
  <1>5. granted[m].source \in Fallback
    <2> SUFFICES ASSUME granted[m].source \notin Fallback PROVE FALSE
      OBVIOUS
    <2>1. Ring[1] \in Fallback /\ Ring[1] \in Services
      BY ModeAssumption, RingMembers
    <2>2. granted[Ring[1]] = granted[m]
      BY <1>1, <1>3, <2>1, UpToDate
    <2>3. granted[m] # Ungranted /\ granted[m].target = m /\ Ring[1] # m
      BY <1>1, <1>2, <2>1, OwnerGrant DEF Owns
    <2>4. PICK j \in StandingRows(view[Ring[1]], Ring[1]) : TRUE
      BY <2>1, <2>2, <2>3 DEF TInv, Remembers, Owns
    <2>5. j \in StandingRows(ledger, Ring[1])
      BY <1>3, <2>1, <2>4, StandsOrNews
    <2> QED
      BY <1>4, <2>1, <2>5
  <1> QED
    BY <1>2, <1>3, <1>4, <1>5

LEMMA SelectsKnown ==
  ASSUME IInv, TInv, NEW m \in Services, Select(m), Candidates(m) # {}
  PROVE  TInv'
  <1>1. /\ Owns(m) /\ phase[m] = "wait" /\ chosen[m] = 0
        /\ phase' = [phase EXCEPT ![m] = "selected"]
        /\ \E i : chosen' = [chosen EXCEPT ![m] = i]
        /\ UNCHANGED <<ledger, view, granted, rest, resident, worker, job, windows>>
    BY DEF IInv, TransferInOrder, Select
  <1>2. /\ phase'[m] = "selected" /\ \A n \in Services \ {m} : phase'[n] = phase[n]
        /\ \A n \in Services \ {m} : chosen'[n] = chosen[n]
    BY <1>1 DEF IInv, TypeOK
  <1>3. SameRows
    BY <1>1 DEF SameRows, SameId
  <1>4. /\ KindsFit' /\ OneStanding' /\ OwnerAsksNot' /\ KeysCount' /\ RequestIdsUnique'
        /\ AskedOnce'
    BY <1>1, <1>3, QuietRows, AskersStand
  <1>5. Remembers' /\ IdsKept'
    BY <1>1 DEF TInv, Remembers, IdsKept, Owns
  <1>6. OwnGrantsKnown'
    BY <1>1, <1>3, RowsStand DEF TInv, OwnGrantsKnown
  <1>7. RaisedForIt'
    <2>1. \A f \in Fallback : UnseenGrants(f)' = UnseenGrants(f) /\ NeverSeen(f)' = NeverSeen(f)
      BY <1>1 DEF UnseenGrants, NeverSeen
    <2>2. \A f \in Fallback : \A i \in NeverSeen(f) : i # 0
      BY LedgerTypes DEF NeverSeen
    <2>3. GrantedRows' = GrantedRows /\ ledger' = ledger
      BY <1>1 DEF GrantedRows
    <2> QED
      BY <1>1, <1>2, <2>1, <2>2, <2>3 DEF TInv, RaisedForIt
  <1>8. HasCandidate' /\ OwnerOnCard' /\ NothingLeftOver'
    <2>1. HasCandidate'
      BY <1>1, <1>2, RingMembers DEF TInv, HasCandidate, Candidates
    <2>2. OwnerOnCard' /\ NothingLeftOver'
      BY <1>1, <1>2 DEF TInv, OwnerOnCard, NothingLeftOver, Owns
    <2> QED
      BY <2>1, <2>2
  <1> QED
    BY <1>4, <1>5, <1>6, <1>7, <1>8 DEF TInv

LEMMA ReturnShape ==
  ASSUME Patient, IInv, TInv, NEW m \in Services, Select(m), Candidates(m) = {}
  PROVE  /\ Owns(m) /\ phase[m] = "wait" /\ chosen[m] = 0
         /\ ReturnRow(m) = OpenRow(granted[m].source, "fallback", granted[m].seq + 1)
         /\ ReturnRow(m) \in Row /\ ReturnRow(m).state = "open"
         /\ ReturnRow(m).svc = granted[m].source /\ ReturnRow(m).grant = Ungranted
         /\ granted[m].seq + 1 \in Nat
         /\ ledger' = Append(ledger, ReturnRow(m))
         /\ chosen'[m] = Len(ledger) + 1 /\ \A n \in Services \ {m} : chosen'[n] = chosen[n]
         /\ phase'[m] = "selected" /\ \A n \in Services \ {m} : phase'[n] = phase[n]
         /\ \A n \in Services \ {m} : view'[n] = view[n]
         /\ DOMAIN view'[m] = DOMAIN view[m] \cup {Len(ledger) + 1}
         /\ \A k \in DOMAIN view'[m] :
              view'[m][k] = IF k = Len(ledger) + 1 THEN ReturnRow(m) ELSE view[m][k]
         /\ UNCHANGED <<granted, rest, resident, worker, job, windows>>
  <1>1. Owns(m) /\ phase[m] = "wait" /\ chosen[m] = 0
    BY DEF IInv, TransferInOrder, Select
  <1>2. granted[m].seq \in Nat /\ granted[m].source \in Services
    BY <1>1, OwnerGrant, ReturnsToFallback, RingMembers
  <1>3. granted[m].seq + 1 \in Nat
    BY <1>2
  <1>4. ReturnRow(m) = OpenRow(granted[m].source, "fallback", granted[m].seq + 1)
    BY DEF ReturnRow
  <1>5. /\ ReturnRow(m) \in Row /\ ReturnRow(m).state = "open"
        /\ ReturnRow(m).svc = granted[m].source /\ ReturnRow(m).grant = Ungranted
    BY <1>2, <1>3, <1>4, OpenRowType
  <1>6. /\ ledger' = Append(ledger, ReturnRow(m))
        /\ chosen' = [chosen EXCEPT ![m] = Len(ledger) + 1]
        /\ view' = [view EXCEPT ![m] = Update(@, chosen'[m], ReturnRow(m))]
        /\ phase' = [phase EXCEPT ![m] = "selected"]
        /\ UNCHANGED <<granted, rest, resident, worker, job, windows>>
    BY DEF Select
  <1> DEFINE new == Update(view[m], Len(ledger) + 1, ReturnRow(m))
  <1>7. /\ DOMAIN new = DOMAIN view[m] \cup {Len(ledger) + 1}
        /\ \A k \in DOMAIN new :
             new[k] = IF k = Len(ledger) + 1 THEN ReturnRow(m) ELSE view[m][k]
    BY DEF Update
  <1>8. /\ chosen'[m] = Len(ledger) + 1 /\ \A n \in Services \ {m} : chosen'[n] = chosen[n]
        /\ phase'[m] = "selected" /\ \A n \in Services \ {m} : phase'[n] = phase[n]
    BY <1>6 DEF IInv, TypeOK
  <1>9. view'[m] = new /\ \A n \in Services \ {m} : view'[n] = view[n]
    BY <1>6, <1>8 DEF IInv, TypeOK
  <1> HIDE DEF new
  <1> QED
    BY <1>1, <1>3, <1>4, <1>5, <1>6, <1>7, <1>8, <1>9

LEMMA SelectsReturn ==
  ASSUME Patient, IInv, TInv, NEW m \in Services, Select(m), Candidates(m) = {}
  PROVE  TInv'
  <1> DEFINE src == granted[m].source
             pos == Len(ledger) + 1
             r == ReturnRow(m)
  <1>1. /\ m \notin Fallback /\ src \in Fallback
        /\ StandingRows(ledger, src) = {} /\ UnseenGrants(src) = {}
    BY ReturnsToFallback
  <1>2. /\ Owns(m) /\ phase[m] = "wait" /\ chosen[m] = 0
        /\ r = OpenRow(src, "fallback", granted[m].seq + 1)
        /\ r \in Row /\ r.state = "open" /\ r.svc = src
        /\ granted[m].seq + 1 \in Nat /\ ledger' = Append(ledger, r)
    BY ReturnShape
  <1>3. /\ chosen'[m] = pos /\ \A n \in Services \ {m} : chosen'[n] = chosen[n]
        /\ phase'[m] = "selected" /\ \A n \in Services \ {m} : phase'[n] = phase[n]
        /\ \A n \in Services \ {m} : view'[n] = view[n]
        /\ DOMAIN view'[m] = DOMAIN view[m] \cup {pos}
        /\ \A k \in DOMAIN view'[m] : view'[m][k] = IF k = pos THEN r ELSE view[m][k]
        /\ UNCHANGED <<granted, rest, resident, worker, job, windows>>
    BY ReturnShape
  <1> HIDE DEF r, pos, src
  <1>4. /\ pos \in Nat /\ pos \notin DOMAIN ledger
        /\ DOMAIN ledger' = DOMAIN ledger \cup {pos} /\ ledger'[pos] = r
        /\ \A i \in DOMAIN ledger : ledger'[i] = ledger[i]
        /\ GrantedRows' = GrantedRows
        /\ \A i \in GrantedRows : i \in DOMAIN ledger /\ ledger'[i] = ledger[i]
        /\ \A i : Newest(i)' <=> Newest(i)
    BY <1>2, RowGrows DEF pos
  <1>5. /\ KindsFit' /\ OneStanding' /\ OwnerAsksNot' /\ KeysCount' /\ RequestIdsUnique'
        /\ AskedOnce'
    <2>1. /\ granted[m].row \in GrantedRows /\ ledger[granted[m].row].grant = granted[m]
          /\ granted[m].seq \in Nat
      BY <1>2, OwnerGrant
    <2>2. ASSUME NEW i \in DOMAIN ledger, Newest(i) PROVE ledger[i].svc # src
      BY <1>2, <2>2, OwnerIsNewest, NewestIsOne DEF src
    <2>3. \E j \in GrantedRows : granted[m].seq + 1 <= ledger[j].grant.seq + 1
      BY <2>1
    <2>4. ASSUME NEW i \in GrantedRows PROVE ledger[i].grant.seq < granted[m].seq + 1
      <3>1. ledger[i].grant.seq <= granted[m].seq /\ ledger[i].grant.seq \in Nat
        BY <1>2, Seqs DEF IInv, GrantsOnLedger
      <3> QED
        BY <2>1, <3>1
    <2> QED
      BY <1>1, <1>2, <1>3, <2>2, <2>3, <2>4, StandingRaised
  <1>6. Remembers'
    BY <1>1, <1>3, RingMembers DEF TInv, Remembers, Owns
  <1>7. OwnGrantsKnown'
    <2> SUFFICES ASSUME NEW n \in Services, NEW i \in GrantedRows, ledger[i].svc = n
                 PROVE  IF ledger[i].grant.seq <= granted[n].seq
                        THEN /\ i \in DOMAIN view'[n] /\ view'[n][i].state # "open"
                             /\ i \in DOMAIN rest[n] => rest[n][i].state # "open"
                        ELSE Newest(i)
      BY <1>3, <1>4 DEF OwnGrantsKnown
    <2>1. IF ledger[i].grant.seq <= granted[n].seq
          THEN /\ i \in DOMAIN view[n] /\ view[n][i].state # "open"
               /\ i \in DOMAIN rest[n] => rest[n][i].state # "open"
          ELSE Newest(i)
      BY DEF TInv, OwnGrantsKnown
    <2>2. i # pos
      BY <1>4
    <2> QED
      BY <1>3, <2>1, <2>2
  <1>8. RaisedForIt'
    <2> SUFFICES ASSUME NEW f \in Fallback, NEW i \in NeverSeen(f)'
                 PROVE  /\ UnseenGrants(f)' \subseteq {i}
                        /\ ledger'[i].state = "open" /\ GrantedRows # {} =>
                             \E n \in Services : chosen'[n] = i
      BY <1>4 DEF RaisedForIt
    <2>1. f \in Services /\ f # m /\ view'[f] = view[f]
      BY <1>1, <1>3, RingMembers
    <2>2. UnseenGrants(f)' = UnseenGrants(f)
      BY <1>2, <1>4, <2>1 DEF UnseenGrants
    <2>3. CASE i = pos
      BY <1>1, <1>2, <1>3, <1>4, <2>2, <2>3 DEF NeverSeen
    <2>4. CASE i \in DOMAIN ledger
      <3>1. i \in NeverSeen(f) /\ i # 0 /\ ledger'[i] = ledger[i]
        BY <1>4, <2>1, <2>4, LedgerTypes DEF NeverSeen
      <3>2. /\ UnseenGrants(f) \subseteq {i}
            /\ ledger[i].state = "open" /\ GrantedRows # {} => \E n \in Services : chosen[n] = i
        BY <3>1 DEF TInv, RaisedForIt
      <3> QED
        BY <1>2, <1>3, <2>2, <3>1, <3>2
    <2> QED
      BY <1>4, <2>3, <2>4 DEF NeverSeen
  <1>9. HasCandidate'
    BY <1>1, <1>3, RingMembers DEF TInv, HasCandidate, Candidates
  <1>10. OwnerOnCard' /\ NothingLeftOver'
    BY <1>2, <1>3 DEF TInv, OwnerOnCard, NothingLeftOver, Owns
  <1>11. IdsKept'
    <2>1. ASSUME NEW n \in Services, NEW i \in DOMAIN view'[n]
          PROVE  SameId(view'[n][i], ledger'[i])
      <3>1. CASE n = m /\ i = pos
        BY <1>3, <1>4, <3>1 DEF SameId
      <3>2. CASE i \in DOMAIN view[n] /\ i # pos
        <4>1. view'[n][i] = view[n][i] /\ ledger'[i] = ledger[i]
          BY <1>3, <1>4, <2>1, <3>2, MemoryTypes
        <4> QED
          BY <3>2, <4>1 DEF TInv, IdsKept
      <3>3. i = pos => n = m
        BY <1>3, <1>4, <2>1, MemoryTypes
      <3> QED
        BY <1>3, <2>1, <3>1, <3>2, <3>3
    <2>2. ASSUME NEW n \in Services, NEW i \in DOMAIN rest'[n]
          PROVE  SameId(rest'[n][i], ledger'[i])
      BY <1>3, <1>4, <2>2, MemoryTypes DEF TInv, IdsKept
    <2> QED
      BY <2>1, <2>2 DEF IdsKept
  <1> QED
    BY <1>5, <1>6, <1>7, <1>8, <1>9, <1>10, <1>11 DEF TInv

-----------------------------------------------------------------------------
(* The grant.                                                              *)

(* The shape of the step; c is the row granted and g the grant.            *)
Grants(m, c, g) ==
  /\ Owns(m) /\ c = chosen[m] /\ c \in DOMAIN ledger
  /\ ledger[c].state = "open" /\ ledger[c].svc \in Services \ {m}
  /\ g.source = m /\ g.target = ledger[c].svc /\ g.seq = granted[m].seq + 1 /\ g # Ungranted
  /\ granted[m].seq \in Nat
  /\ DOMAIN ledger' = DOMAIN ledger
  /\ \A i \in DOMAIN ledger : i # c => ledger'[i] = ledger[i]
  /\ SameId(ledger'[c], ledger[c])
  /\ ledger'[c].state = "granted" /\ ledger'[c].grant = g
  /\ granted'[m] = g /\ \A n \in Services \ {m} : granted'[n] = granted[n]
  /\ DOMAIN view'[m] = DOMAIN view[m] \cup DOMAIN rest[m]
  /\ \A i \in DOMAIN view'[m] :
       view'[m][i] = IF i \in DOMAIN rest[m] THEN rest[m][i]
                     ELSE IF i = c THEN ledger'[c] ELSE view[m][i]
  /\ \A n \in Services \ {m} : view'[n] = view[n]
  /\ DOMAIN rest'[m] = {} /\ \A n \in Services \ {m} : rest'[n] = rest[n]
  /\ phase'[m] = "poll" /\ \A n \in Services \ {m} : phase'[n] = phase[n]
  /\ chosen'[m] = 0 /\ \A n \in Services \ {m} : chosen'[n] = chosen[n]
  /\ \A n \in Services : worker[n] = "waiting" => worker'[n] = "waiting"
  /\ UNCHANGED <<resident, job, windows>>

LEMMA PublishShape ==
  ASSUME IInv, TInv, NEW m \in Services, Publish(m)
  PROVE  Grants(m, chosen[m], NextGrant(m))
  <1> DEFINE c == chosen[m]
             g == NextGrant(m)
             row == [view[m][c] EXCEPT !.state = "granted", !.grant = g]
             memory == Overlay(rest[m], Update(view[m], c, row))
  <1>1. Owns(m) /\ phase[m] = "closed" /\ granted[m].seq \in Nat
    BY OwnerGrant DEF IInv, TransferInOrder, Publish
  <1>2. /\ c \in DOMAIN view[m] /\ view[m][c].svc # m
        /\ view[m][c] \in Row /\ c \in DOMAIN ledger
        /\ ledger[c].state = "open" /\ SameId(view[m][c], ledger[c])
    BY <1>1, MemoryTypes DEF IInv, TransferInOrder, MemoryFaithful, Publish, TInv, IdsKept
  <1>3. ledger[c].svc = view[m][c].svc /\ ledger[c].svc \in Services
    BY <1>2 DEF Row, SameId
  <1>4. /\ g.seq = granted[m].seq + 1 /\ g.source = m /\ g.target = ledger[c].svc
        /\ g # Ungranted
    BY <1>1, <1>3 DEF NextGrant, Ungranted
  <1>5. g \in Grant
    BY <1>1, <1>2, <1>3, LedgerTypes DEF NextGrant, Grant
  <1>6. /\ row \in Row /\ row.state = "granted" /\ row.grant = g /\ SameId(row, ledger[c])
    BY <1>2, <1>5 DEF Row, SameId
  <1>7. /\ ledger' = [ledger EXCEPT ![c] = row]
        /\ granted' = [granted EXCEPT ![m] = g]
        /\ view' = [view EXCEPT ![m] = memory]
    BY DEF Publish
  <1>8. /\ DOMAIN memory = DOMAIN view[m] \cup DOMAIN rest[m]
        /\ \A i \in DOMAIN memory :
             memory[i] = IF i \in DOMAIN rest[m] THEN rest[m][i]
                         ELSE IF i = c THEN row ELSE view[m][i]
    <2>1. /\ DOMAIN Update(view[m], c, row) = DOMAIN view[m]
          /\ \A i \in DOMAIN view[m] :
               Update(view[m], c, row)[i] = IF i = c THEN row ELSE view[m][i]
      BY <1>2 DEF Update
    <2> QED
      BY <2>1 DEF Overlay
  <1> HIDE DEF c, g, row, memory
  <1>9. /\ DOMAIN ledger' = DOMAIN ledger /\ ledger'[c] = row
        /\ \A i \in DOMAIN ledger : i # c => ledger'[i] = ledger[i]
    <2>1. ledger \in Seq(Row)
      BY LedgerTypes
    <2>2. /\ DOMAIN [ledger EXCEPT ![c] = row] = DOMAIN ledger
          /\ [ledger EXCEPT ![c] = row][c] = row
          /\ \A i \in DOMAIN ledger : i # c => [ledger EXCEPT ![c] = row][i] = ledger[i]
      BY <1>2, <1>6, <2>1, LedgerExcept, Zenon
    <2> QED
      BY <1>7, <2>2, Zenon
  <1>10. /\ granted'[m] = g /\ \A n \in Services \ {m} : granted'[n] = granted[n]
         /\ view'[m] = memory /\ \A n \in Services \ {m} : view'[n] = view[n]
    BY <1>7 DEF IInv, TypeOK
  <1>11. /\ DOMAIN rest'[m] = {} /\ \A n \in Services \ {m} : rest'[n] = rest[n]
         /\ phase'[m] = "poll" /\ \A n \in Services \ {m} : phase'[n] = phase[n]
         /\ chosen'[m] = 0 /\ \A n \in Services \ {m} : chosen'[n] = chosen[n]
    BY DEF Publish, NoRows, IInv, TypeOK
  <1>12. \A n \in Services : worker[n] = "waiting" => worker'[n] = "waiting"
    BY DEF Publish, IInv, TypeOK
  <1>13. UNCHANGED <<resident, job, windows>>
    BY DEF Publish
  <1>14. /\ Owns(m) /\ c = chosen[m] /\ c \in DOMAIN ledger
         /\ ledger[c].state = "open" /\ ledger[c].svc \in Services \ {m}
    BY <1>1, <1>2, <1>3 DEF c
  <1>15. Grants(m, c, g)
    BY <1>1, <1>4, <1>6, <1>8, <1>9, <1>10, <1>11, <1>12, <1>13, <1>14 DEF Grants
  <1> QED
    BY <1>15 DEF c, g

LEMMA GrantRows ==
  ASSUME IInv, TInv, NEW m \in Services, NEW c, NEW g, Grants(m, c, g)
  PROVE  /\ GrantedRows' = GrantedRows \cup {c} /\ c \notin GrantedRows
         /\ OpenRows(ledger') = OpenRows(ledger) \ {c}
         /\ \A s : StandingRows(ledger', s) = StandingRows(ledger, s) \ {c}
         /\ \A i \in DOMAIN ledger : SameId(ledger'[i], ledger[i])
         /\ \A i \in GrantedRows :
              /\ i \in DOMAIN ledger /\ ledger'[i] = ledger[i] /\ i # c
              /\ ledger[i].grant.seq \in Nat /\ ledger[i].grant.seq <= granted[m].seq
              /\ ledger[i].grant.seq < g.seq
         /\ Newest(c)' /\ \A i : Newest(i)' => i = c
         /\ \A n \in Services : ~Owns(n)'
  <1> USE DEF Grants
  <1>1. /\ GrantedRows' = GrantedRows \cup {c} /\ c \notin GrantedRows
        /\ OpenRows(ledger') = OpenRows(ledger) \ {c}
    BY DEF GrantedRows, OpenRows
  <1>2. \A i \in DOMAIN ledger : SameId(ledger'[i], ledger[i])
    BY DEF SameId
  <1>3. ASSUME NEW s PROVE StandingRows(ledger', s) = StandingRows(ledger, s) \ {c}
    BY <1>1, <1>2 DEF StandingRows, OpenRows, SameId
  <1>4. ASSUME NEW i \in GrantedRows
        PROVE  /\ i \in DOMAIN ledger /\ ledger'[i] = ledger[i] /\ i # c
               /\ ledger[i].grant.seq \in Nat /\ ledger[i].grant.seq <= granted[m].seq
               /\ ledger[i].grant.seq < g.seq
    <2>1. i \in DOMAIN ledger /\ ledger'[i] = ledger[i] /\ i # c
      BY <1>1 DEF GrantedRows
    <2>2. ledger[i].grant.seq \in Nat /\ ledger[i].grant.seq <= granted[m].seq
      BY Seqs DEF IInv, GrantsOnLedger
    <2> QED
      BY <2>1, <2>2
  <1>5. Newest(c)'
    BY <1>1, <1>4 DEF Newest
  <1>6. ASSUME NEW i, Newest(i)' PROVE i = c
    BY <1>1, <1>4, <1>6 DEF Newest
  <1>7. \A n \in Services : ~Owns(n)'
    <2>1. \A n \in Services \ {m} : ~Owns(n)
      BY OneOwner
    <2> QED
      BY <2>1 DEF Owns
  <1> QED
    BY <1>1, <1>2, <1>3, <1>4, <1>5, <1>6, <1>7

LEMMA GrantKeepsRows ==
  ASSUME IInv, TInv, NEW m \in Services, NEW c, NEW g, Grants(m, c, g)
  PROVE  /\ KindsFit' /\ OneStanding' /\ OwnerAsksNot' /\ KeysCount' /\ RequestIdsUnique'
         /\ AskedOnce'
  <1>1. /\ GrantedRows' = GrantedRows \cup {c} /\ c \notin GrantedRows
        /\ OpenRows(ledger') = OpenRows(ledger) \ {c}
        /\ \A s : StandingRows(ledger', s) = StandingRows(ledger, s) \ {c}
        /\ \A i \in DOMAIN ledger : SameId(ledger'[i], ledger[i])
        /\ \A i \in GrantedRows :
             /\ i \in DOMAIN ledger /\ ledger'[i] = ledger[i] /\ i # c
             /\ ledger[i].grant.seq \in Nat /\ ledger[i].grant.seq < g.seq
        /\ \A i : Newest(i)' => i = c
    BY GrantRows
  <1>2. /\ c \in DOMAIN ledger /\ ledger[c].state = "open" /\ DOMAIN ledger' = DOMAIN ledger
        /\ \A i \in DOMAIN ledger : i # c => ledger'[i] = ledger[i]
        /\ ledger'[c].state = "granted" /\ ledger'[c].grant = g
        /\ g.seq \in Nat /\ g.seq >= 1
        /\ UNCHANGED <<windows, job>>
        /\ \A n \in Services : worker[n] = "waiting" => worker'[n] = "waiting"
    BY DEF Grants
  <1>3. KindsFit' /\ RequestIdsUnique'
    BY <1>1, <1>2 DEF SameId, TInv, KindsFit, RequestIdsUnique
  <1>4. OneStanding'
    BY <1>1 DEF TInv, OneStanding
  <1>5. OwnerAsksNot'
    <2> SUFFICES ASSUME NEW j \in StandingRows(ledger, ledger[c].svc) PROVE j = c
      BY <1>1, <1>2 DEF OwnerAsksNot, SameId
    <2>1. j \in DOMAIN ledger /\ ledger[j].kind = "fallback" /\ ledger[j].svc = ledger[c].svc
      BY DEF StandingRows, OpenRows
    <2>2. ledger[c].svc \in Fallback
      BY <2>1 DEF TInv, KindsFit
    <2>3. ledger[c].kind = "fallback"
      BY <1>2, <2>2 DEF TInv, KindsFit
    <2>4. c \in StandingRows(ledger, ledger[c].svc)
      BY <1>2, <2>3 DEF StandingRows, OpenRows
    <2> QED
      BY <2>2, <2>4 DEF TInv, OneStanding
  <1>6. KeysCount'
    <2> SUFFICES ASSUME NEW i \in DOMAIN ledger
                 PROVE  IF ledger'[i].svc \in OnDemand THEN ledger'[i].key <= windows'[ledger'[i].svc]
                        ELSE IF ledger'[i].state = "open"
                        THEN ledger'[i].key = 0
                             \/ \E j \in GrantedRows' : ledger'[i].key <= ledger'[j].grant.seq + 1
                        ELSE ledger'[i].key <= ledger'[i].grant.seq
      BY <1>2 DEF KeysCount
    <2>1. /\ ledger'[i].svc = ledger[i].svc /\ ledger'[i].key = ledger[i].key
          /\ ledger[i].key \in Nat
      BY <1>1, LedgerTypes DEF SameId, Row
    <2>2. CASE i = c
      <3>1. ledger[c].svc \notin OnDemand =>
              ledger[c].key = 0 \/ \E j \in GrantedRows : ledger[c].key <= ledger[j].grant.seq + 1
        BY <1>2 DEF TInv, KeysCount
      <3>2. ledger[c].svc \notin OnDemand => ledger[c].key <= g.seq
        BY <1>1, <1>2, <2>1, <2>2, <3>1
      <3> QED
        BY <1>2, <2>1, <2>2, <3>2 DEF TInv, KeysCount
    <2>3. CASE i # c
      BY <1>1, <1>2, <2>3 DEF TInv, KeysCount
    <2> QED
      BY <2>2, <2>3
  <1>7. AskedOnce'
    <2> SUFFICES ASSUME NEW i \in OpenRows(ledger), i # c, ledger[i].svc \in OnDemand
                 PROVE  worker'[ledger[i].svc] = "waiting" /\ job'[ledger[i].svc] = i
      BY <1>1, <1>2 DEF AskedOnce, OpenRows
    <2>1. worker[ledger[i].svc] = "waiting" /\ job[ledger[i].svc] = i
      BY DEF TInv, AskedOnce
    <2> QED
      BY <1>2, <2>1 DEF OnDemand
  <1> QED
    BY <1>3, <1>4, <1>5, <1>6, <1>7

LEMMA GrantKeepsMemory ==
  ASSUME IInv, TInv, NEW m \in Services, NEW c, NEW g, Grants(m, c, g)
  PROVE  Remembers' /\ OwnGrantsKnown' /\ IdsKept' /\ NothingLeftOver' /\ HasCandidate'
  <1>1. /\ GrantedRows' = GrantedRows \cup {c} /\ c \notin GrantedRows
        /\ \A i \in DOMAIN ledger : SameId(ledger'[i], ledger[i])
        /\ \A i \in GrantedRows :
             /\ i \in DOMAIN ledger /\ ledger'[i] = ledger[i] /\ i # c
             /\ ledger[i].grant.seq \in Nat /\ ledger[i].grant.seq <= granted[m].seq
             /\ ledger[i].grant.seq < g.seq
        /\ Newest(c)'
    BY GrantRows
  <1>2. Remembers'
    BY RingMembers DEF Grants, TInv, Remembers, Owns
  <1>3. OwnGrantsKnown'
    <2> SUFFICES ASSUME NEW n \in Services, NEW i \in GrantedRows', ledger'[i].svc = n
                 PROVE  IF ledger'[i].grant.seq <= granted'[n].seq
                        THEN /\ i \in DOMAIN view'[n] /\ view'[n][i].state # "open"
                             /\ i \in DOMAIN rest'[n] => rest'[n][i].state # "open"
                        ELSE Newest(i)'
      BY DEF OwnGrantsKnown
    <2>1. CASE i = c
      <3>1. n \in Services \ {m}
        BY <1>1, <2>1 DEF Grants, SameId
      <3>2. granted[n].seq < g.seq
        <4>1. CASE granted[n] = Ungranted
          BY <4>1 DEF Grants, Ungranted
        <4>2. CASE granted[n] # Ungranted
          <5>1. granted[n].row \in GrantedRows /\ ledger[granted[n].row].grant = granted[n]
            BY <4>2 DEF IInv, GrantsOnLedger, RowsWellFormed, GrantedRows
          <5> QED
            BY <1>1, <5>1
        <4> QED
          BY <4>1, <4>2
      <3>3. ledger'[i].grant.seq = g.seq /\ granted'[n].seq = granted[n].seq /\ g.seq \in Int
        BY <2>1, <3>1 DEF Grants
      <3>4. ~(g.seq <= granted[n].seq)
        BY <3>2, <3>3, Seqs
      <3> QED
        BY <1>1, <2>1, <3>3, <3>4
    <2>2. CASE i \in GrantedRows
      <3>1. /\ i \in DOMAIN ledger /\ ledger'[i] = ledger[i] /\ i # c /\ ledger[i].svc = n
        BY <1>1, <2>2
      <3>2. IF ledger[i].grant.seq <= granted[n].seq
            THEN /\ i \in DOMAIN view[n] /\ view[n][i].state # "open"
                 /\ i \in DOMAIN rest[n] => rest[n][i].state # "open"
            ELSE Newest(i)
        BY <2>2, <3>1 DEF TInv, OwnGrantsKnown
      <3>3. CASE n = m
        <4>1. /\ i \in DOMAIN view[m] /\ view[m][i].state # "open"
              /\ i \in DOMAIN rest[m] => rest[m][i].state # "open"
          BY <1>1, <2>2, <3>2, <3>3
        <4>2. /\ i \in DOMAIN view'[m] /\ view'[m][i].state # "open" /\ DOMAIN rest'[m] = {}
          BY <3>1, <4>1 DEF Grants
        <4>3. granted'[m] = g /\ ledger[i].grant.seq <= g.seq
          BY <1>1, <2>2 DEF Grants
        <4> QED
          BY <3>1, <3>3, <4>2, <4>3
      <3>4. CASE n # m
        <4>1. ~Newest(i)
          BY <3>1, <3>4, OwnerIsNewest, NewestIsOne DEF Grants
        <4>2. /\ granted'[n] = granted[n] /\ view'[n] = view[n] /\ rest'[n] = rest[n]
          BY <3>4 DEF Grants
        <4> QED
          BY <3>1, <3>2, <4>1, <4>2
      <3> QED
        BY <3>3, <3>4
    <2> QED
      BY <1>1, <2>1, <2>2
  <1>4. IdsKept'
    <2>1. ASSUME NEW n \in Services, NEW i \in DOMAIN view'[n]
          PROVE  SameId(view'[n][i], ledger'[i])
      <3>1. \A k \in DOMAIN view[n] : k \in DOMAIN ledger /\ SameId(view[n][k], ledger[k])
        BY MemoryTypes DEF TInv, IdsKept
      <3>2. \A k \in DOMAIN rest[n] : k \in DOMAIN ledger /\ SameId(rest[n][k], ledger[k])
        BY MemoryTypes DEF TInv, IdsKept
      <3>3. CASE n = m
        BY <1>1, <2>1, <3>1, <3>2, <3>3 DEF Grants, SameId
      <3>4. CASE n # m
        BY <1>1, <2>1, <3>1, <3>4 DEF Grants, SameId
      <3> QED
        BY <3>3, <3>4
    <2>2. ASSUME NEW n \in Services, NEW i \in DOMAIN rest'[n]
          PROVE  SameId(rest'[n][i], ledger'[i])
      <3>1. n # m /\ rest'[n] = rest[n]
        BY <2>2 DEF Grants
      <3>2. i \in DOMAIN ledger /\ SameId(rest[n][i], ledger[i])
        BY <2>2, <3>1, MemoryTypes DEF TInv, IdsKept
      <3> QED
        BY <1>1, <3>1, <3>2 DEF SameId
    <2> QED
      BY <2>1, <2>2 DEF IdsKept
  <1>5. NothingLeftOver'
    BY DEF Grants, TInv, NothingLeftOver
  <1>6. HasCandidate'
    BY RingMembers DEF Grants, TInv, HasCandidate, Candidates
  <1> QED
    BY <1>2, <1>3, <1>4, <1>5, <1>6

LEMMA OwnerSawAll ==
  ASSUME IInv, TInv, NEW m \in Fallback, Owns(m)
  PROVE  NeverSeen(m) = {}
  <1>0. m \in Services
    BY RingMembers
  <1> SUFFICES ASSUME NEW i \in NeverSeen(m) PROVE FALSE
    OBVIOUS
  <1>1. i \in DOMAIN ledger /\ i \notin DOMAIN view[m] /\ ledger[i].svc = m
    BY DEF NeverSeen
  <1>2. ledger[i].state = "open"
    <2> SUFFICES ASSUME ledger[i].state # "open" PROVE FALSE
      OBVIOUS
    <2>1. i \in GrantedRows
      BY <1>1 DEF GrantedRows
    <2>2. ledger[i].grant.seq <= granted[m].seq
      BY <1>0, <2>1 DEF IInv, GrantsOnLedger
    <2> QED
      BY <1>0, <1>1, <2>1, <2>2 DEF TInv, OwnGrantsKnown
  <1>3. ledger[i].kind = "fallback"
    BY <1>1 DEF TInv, KindsFit
  <1>4. i \in StandingRows(ledger, m)
    BY <1>1, <1>2, <1>3 DEF StandingRows, OpenRows
  <1> QED
    BY <1>0, <1>4, OwnerIsNewest DEF TInv, OwnerAsksNot

LEMMA GrantRaised ==
  ASSUME IInv, TInv, NEW m \in Services, NEW c, NEW g, Grants(m, c, g)
  PROVE  RaisedForIt'
  <1> SUFFICES ASSUME NEW f \in Fallback, NEW i \in NeverSeen(f)'
               PROVE  /\ UnseenGrants(f)' \subseteq {i}
                      /\ ledger'[i].state = "open" /\ GrantedRows' # {} =>
                           \E n \in Services : chosen'[n] = i
    BY DEF RaisedForIt
  <1>1. /\ GrantedRows' = GrantedRows \cup {c} /\ c \notin GrantedRows
        /\ \A k \in DOMAIN ledger : SameId(ledger'[k], ledger[k])
        /\ \A k \in GrantedRows :
             /\ k \in DOMAIN ledger /\ ledger'[k] = ledger[k]
             /\ ledger[k].grant.seq \in Nat /\ ledger[k].grant.seq <= granted[m].seq
    BY GrantRows
  <1>2. /\ Owns(m) /\ c = chosen[m] /\ DOMAIN ledger' = DOMAIN ledger
        /\ \A k \in DOMAIN ledger : k # c => ledger'[k] = ledger[k]
        /\ ledger'[c].state = "granted"
        /\ DOMAIN view[m] \subseteq DOMAIN view'[m]
        /\ \A n \in Services \ {m} : view'[n] = view[n]
    BY DEF Grants
  <1>3. f \in Services
    BY RingMembers
  <1>4. i \in NeverSeen(f) /\ i \in DOMAIN ledger /\ i \notin DOMAIN view[f] /\ ledger[i].svc = f
    BY <1>1, <1>2, <1>3 DEF NeverSeen, SameId
  <1>5. f # m
    BY <1>2, <1>4, OwnerSawAll
  <1>6. UnseenGrants(f) \subseteq {i}
    BY <1>4 DEF TInv, RaisedForIt
  <1>7. ledger[i].state = "open"
    <2> SUFFICES ASSUME ledger[i].state # "open" PROVE FALSE
      OBVIOUS
    <2> DEFINE k == granted[m].row
    <2>1. /\ k \in GrantedRows /\ k \in DOMAIN ledger /\ ledger[k].svc = m
          /\ ledger[k].grant = granted[m] /\ ledger[k].state # "open"
      BY <1>2, OwnerGrant, OwnerIsNewest DEF GrantedRows
    <2>2. k \notin UnseenGrants(f)
      BY <1>4, <1>5, <1>6, <2>1
    <2>3. k \in DOMAIN view[f] /\ view[f][k].state # "open"
      BY <2>1, <2>2 DEF UnseenGrants
    <2>4. granted[m].seq <= granted[f].seq
      BY <1>3, <2>1, <2>3 DEF IInv, MemoryFaithful
    <2>5. i \in GrantedRows /\ ledger[i].grant.seq <= granted[m].seq
          /\ ledger[i].grant.seq \in Nat /\ granted[f].seq \in Int /\ granted[m].seq \in Int
      BY <1>1, <1>3, <1>4, Seqs DEF GrantedRows
    <2>6. ledger[i].grant.seq <= granted[f].seq
      BY <2>4, <2>5
    <2> QED
      BY <1>3, <1>4, <2>5, <2>6 DEF TInv, OwnGrantsKnown
  <1>8. i = c
    <2>1. GrantedRows # {}
      BY <1>2, OwnerGrant
    <2>2. PICK n \in Services : chosen[n] = i
      BY <1>4, <1>7, <2>1 DEF TInv, RaisedForIt
    <2>3. i # 0
      BY <1>4, LedgerTypes
    <2>4. phase[n] \in {"selected", "vacated", "closed"}
      BY <2>2, <2>3 DEF IInv, TypeOK, TransferInOrder
    <2>5. Owns(n)
      BY <2>4 DEF IInv, TransferInOrder
    <2> QED
      BY <1>2, <2>2, <2>5, OneOwner
  <1>9. UnseenGrants(f)' \subseteq {c}
    BY <1>2, <1>3, <1>5, <1>6, <1>7, <1>8 DEF UnseenGrants
  <1> QED
    BY <1>2, <1>8, <1>9

LEMMA PublishToken ==
  ASSUME IInv, TInv, NEW m \in Services, Publish(m)
  PROVE  TInv'
  <1>1. Grants(m, chosen[m], NextGrant(m))
    BY PublishShape
  <1>2. OwnerOnCard'
    BY <1>1, GrantRows DEF OwnerOnCard
  <1> QED
    BY <1>1, <1>2, GrantKeepsRows, GrantKeepsMemory, GrantRaised DEF TInv

-----------------------------------------------------------------------------
(* Genesis, and the induction.                                             *)

LEMMA GenesisRequestShape ==
  ASSUME IssueGenesisRequest
  PROVE  /\ ledger' = Append(ledger, OpenRow(Ring[1], "fallback", 0))
         /\ DOMAIN ledger = {} /\ GrantedRows = {} /\ Len(ledger) + 1 = 1
  <1>1. ledger = <<>> /\ ledger' = <<OpenRow(Ring[1], "fallback", 0)>>
    BY DEF IssueGenesisRequest
  <1>2. DOMAIN ledger = {} /\ Len(ledger) = 0
    BY <1>1
  <1>3. Append(<<>>, OpenRow(Ring[1], "fallback", 0)) = <<OpenRow(Ring[1], "fallback", 0)>>
    OBVIOUS
  <1> QED
    BY <1>1, <1>2, <1>3 DEF GrantedRows

LEMMA GenesisRequestToken ==
  ASSUME IInv, TInv, IssueGenesisRequest
  PROVE  TInv'
  <1> DEFINE r == OpenRow(Ring[1], "fallback", 0)
  <1>1. /\ ledger' = Append(ledger, r) /\ DOMAIN ledger = {} /\ GrantedRows = {}
        /\ Len(ledger) + 1 = 1
    BY GenesisRequestShape
  <1>2. UNCHANGED <<view, granted, phase, chosen, rest, resident, worker, job, windows>>
    BY DEF IssueGenesisRequest
  <1>3. r \in Row /\ r.state = "open" /\ r.svc = Ring[1]
    BY RingMembers, OpenRowType
  <1>4. /\ KindsFit' /\ OneStanding' /\ OwnerAsksNot' /\ KeysCount' /\ RequestIdsUnique'
        /\ AskedOnce'
    <2>1. StandingRows(ledger, Ring[1]) = {}
      BY <1>1 DEF StandingRows, OpenRows
    <2> QED
      BY <1>1, <1>2, <2>1, ModeAssumption, StandingRaised
  <1> HIDE DEF r
  <1>5. DOMAIN ledger' = {1} /\ ledger'[1] = r /\ GrantedRows' = {}
    BY <1>1, <1>3, RowGrows
  <1>6. \A m \in Services : DOMAIN view[m] = {} /\ DOMAIN rest[m] = {}
    BY <1>1, MemoryTypes
  <1>7. Remembers' /\ HasCandidate' /\ OwnerOnCard' /\ NothingLeftOver'
    BY <1>2 DEF TInv, Remembers, HasCandidate, OwnerOnCard, NothingLeftOver, Owns, Candidates
  <1>8. OwnGrantsKnown'
    BY <1>5 DEF OwnGrantsKnown
  <1>9. RaisedForIt'
    <2>1. \A f \in Fallback : UnseenGrants(f)' = {}
      BY <1>3, <1>5 DEF UnseenGrants
    <2> QED
      BY <1>5, <2>1 DEF RaisedForIt
  <1>10. IdsKept'
    BY <1>2, <1>6 DEF IdsKept
  <1> QED
    BY <1>4, <1>7, <1>8, <1>9, <1>10 DEF TInv

LEMMA GenesisGrantShape ==
  ASSUME IInv, TInv, IssueGenesisGrant
  PROVE  /\ DOMAIN ledger = {1} /\ DOMAIN ledger' = {1} /\ ledger[1].state = "open"
         /\ GrantedRows = {} /\ GrantedRows' = {1} /\ OpenRows(ledger') = {}
         /\ ledger'[1].state = "granted" /\ ledger'[1].grant = GenesisGrant
         /\ SameId(ledger'[1], ledger[1])
         /\ ledger[1].svc = Ring[1] /\ ledger[1].key = 0 /\ ledger[1].kind = "fallback"
         /\ \A m \in Services : granted[m] = Ungranted /\ ~Owns(m)
  <1>1. /\ Len(ledger) = 1 /\ ledger[1].state = "open" /\ DOMAIN ledger = {1}
        /\ ledger[1] \in Row /\ ledger \in Seq(Row)
    BY LedgerTypes DEF IssueGenesisGrant
  <1> DEFINE row == [ledger[1] EXCEPT !.state = "granted", !.grant = GenesisGrant]
  <1>2. GenesisGrant \in Grant
    BY RingMembers DEF GenesisGrant, Grant
  <1>3. ledger' = [ledger EXCEPT ![1] = row]
    BY <1>1 DEF IssueGenesisGrant, Row
  <1>4. row \in Row /\ row.state = "granted" /\ row.grant = GenesisGrant /\ SameId(row, ledger[1])
    BY <1>1, <1>2 DEF Row, SameId
  <1> HIDE DEF row
  <1>5. DOMAIN ledger' = {1} /\ ledger'[1] = row
    <2>1. /\ DOMAIN [ledger EXCEPT ![1] = row] = DOMAIN ledger
          /\ [ledger EXCEPT ![1] = row][1] = row
      BY <1>1, <1>4, LedgerExcept, Zenon
    <2> QED
      BY <1>1, <1>3, <2>1, Zenon
  <1>6. GrantedRows = {} /\ GrantedRows' = {1} /\ OpenRows(ledger') = {}
    BY <1>1, <1>4, <1>5 DEF GrantedRows, OpenRows
  <1>7. ASSUME NEW m \in Services PROVE granted[m] = Ungranted /\ ~Owns(m)
    <2>1. ledger[1].grant = Ungranted
      BY <1>1 DEF IInv, RowsWellFormed
    <2>2. granted[m] = Ungranted
      BY <1>1, <2>1 DEF IInv, GrantsOnLedger
    <2> QED
      BY <2>2, UngrantedType DEF Owns
  <1>8. ledger[1].svc = Ring[1]
    BY <1>1 DEF IInv, RowsWellFormed
  <1>9. ledger[1].key = 0 /\ ledger[1].kind = "fallback"
    BY <1>1, <1>6, <1>8, ModeAssumption DEF TInv, KeysCount, KindsFit, OnDemand
  <1> QED
    BY <1>1, <1>4, <1>5, <1>6, <1>7, <1>8, <1>9

LEMMA GenesisGrantToken ==
  ASSUME IInv, TInv, IssueGenesisGrant
  PROVE  TInv'
  <1>1. /\ DOMAIN ledger = {1} /\ DOMAIN ledger' = {1} /\ ledger[1].state = "open"
        /\ GrantedRows = {} /\ GrantedRows' = {1} /\ OpenRows(ledger') = {}
        /\ ledger'[1].state = "granted" /\ ledger'[1].grant = GenesisGrant
        /\ SameId(ledger'[1], ledger[1])
        /\ ledger[1].svc = Ring[1] /\ ledger[1].key = 0 /\ ledger[1].kind = "fallback"
        /\ \A m \in Services : granted[m] = Ungranted /\ ~Owns(m)
    BY GenesisGrantShape
  <1>2. UNCHANGED <<view, granted, phase, chosen, rest, resident, worker, job, windows>>
    BY DEF IssueGenesisGrant
  <1>3. KindsFit' /\ RequestIdsUnique'
    BY <1>1 DEF SameId, TInv, KindsFit, RequestIdsUnique
  <1>4. OneStanding' /\ OwnerAsksNot' /\ AskedOnce'
    BY <1>1 DEF OneStanding, OwnerAsksNot, AskedOnce, StandingRows
  <1>5. Remembers' /\ OwnerOnCard'
    BY <1>1, <1>2, RingMembers DEF Remembers, OwnerOnCard, Owns
  <1>6. HasCandidate' /\ NothingLeftOver'
    BY <1>2 DEF TInv, HasCandidate, NothingLeftOver, Candidates
  <1>7. Newest(1)' /\ ledger'[1].grant.seq = 0
    BY <1>1 DEF Newest, GenesisGrant
  <1>8. OwnGrantsKnown'
    BY <1>1, <1>2, <1>7 DEF OwnGrantsKnown, Ungranted
  <1>9. RaisedForIt'
    BY <1>1 DEF RaisedForIt, NeverSeen, UnseenGrants
  <1>10. IdsKept'
    BY <1>1, <1>2, MemoryTypes DEF SameId, TInv, IdsKept
  <1>11. KeysCount'
    BY <1>1, <1>7, ModeAssumption DEF SameId, KeysCount, OnDemand
  <1> QED
    BY <1>3, <1>4, <1>5, <1>6, <1>8, <1>9, <1>10, <1>11 DEF TInv

LEMMA InitTInv == Init => TInv
  <1> SUFFICES ASSUME Init PROVE TInv
    OBVIOUS
  <1>1. /\ ledger = <<>> /\ DOMAIN ledger = {} /\ GrantedRows = {} /\ OpenRows(ledger) = {}
        /\ \A m \in Services : /\ view[m] = NoRows /\ rest[m] = NoRows /\ DOMAIN NoRows = {}
                               /\ granted[m] = Ungranted /\ ~Owns(m) /\ phase[m] = "poll"
    BY UngrantedType DEF Init, GrantedRows, OpenRows, NoRows, Owns
  <1>2. KindsFit /\ OwnerAsksNot /\ KeysCount /\ RequestIdsUnique /\ AskedOnce
    BY <1>1 DEF KindsFit, OwnerAsksNot, KeysCount, RequestIdsUnique, AskedOnce
  <1>3. OneStanding /\ OwnGrantsKnown
    BY <1>1 DEF OneStanding, OwnGrantsKnown, StandingRows
  <1>4. Remembers /\ HasCandidate /\ OwnerOnCard /\ NothingLeftOver /\ IdsKept
    BY <1>1, RingMembers DEF Remembers, HasCandidate, OwnerOnCard, NothingLeftOver, IdsKept
  <1>5. RaisedForIt
    BY <1>1 DEF RaisedForIt, NeverSeen
  <1> QED
    BY <1>2, <1>3, <1>4, <1>5 DEF TInv

LEMMA FallbackIdleNext == IInv /\ FallbackIdle /\ [Next]_vars => FallbackIdle'
  <1> SUFFICES ASSUME IInv, FallbackIdle, [Next]_vars, NEW f \in Fallback
               PROVE  worker'[f] = "idle"
    BY DEF FallbackIdle
  <1>1. worker[f] = "idle" /\ f \in Services /\ f \notin OnDemand
    BY RingMembers DEF FallbackIdle, OnDemand
  <1>2. CASE UNCHANGED vars \/ IssueGenesisRequest \/ IssueGenesisGrant
    BY <1>1, <1>2 DEF vars, IssueGenesisRequest, IssueGenesisGrant
  <1>3. ASSUME NEW m \in Services, Worker(m) PROVE worker'[f] = "idle"
    BY <1>1, <1>3 DEF Worker, Request, Wake, Release, IInv, TypeOK
  <1>4. ASSUME NEW m \in Services, Manager(m) PROVE worker'[f] = "idle"
    BY <1>1, <1>4 DEF Manager, Transfer, Poll, Acquire, Preempt, Rescan, Select, Vacate,
                      Close, Publish, IInv, TypeOK
  <1> QED
    BY <1>2, <1>3, <1>4 DEF Next

LEMMA NextTInv ==
  ASSUME Patient
  PROVE  IInv /\ IInv' /\ WorkersInStep /\ FallbackIdle /\ TInv /\ [Next]_vars => TInv'
  <1> SUFFICES ASSUME IInv, IInv', WorkersInStep, FallbackIdle, TInv, [Next]_vars
               PROVE  TInv'
    OBVIOUS
  <1>1. CASE IssueGenesisRequest
    BY <1>1, GenesisRequestToken
  <1>2. CASE IssueGenesisGrant
    BY <1>2, GenesisGrantToken
  <1>3. ASSUME NEW m \in Services, Worker(m) PROVE TInv'
    BY <1>3, RequestToken, WakeToken, ReleaseToken DEF Worker
  <1>4. ASSUME NEW m \in Services, Manager(m) PROVE TInv'
    BY <1>4, PollToken, AcquireToken, PreemptToken, RescanToken, SelectsKnown, SelectsReturn,
       VacateToken, CloseToken, PublishToken DEF Manager, Transfer
  <1>5. CASE UNCHANGED vars
    <2>1. SameRows
      BY <1>5 DEF vars, SameRows, SameId
    <2>2. AskedOnce'
      BY <1>5, <2>1, AskersStand DEF vars
    <2>3. HasCandidate' /\ OwnerOnCard' /\ NothingLeftOver'
      BY <1>5 DEF vars, TInv, HasCandidate, OwnerOnCard, NothingLeftOver, Candidates, Owns
    <2> QED
      BY <1>5, <2>1, <2>2, <2>3, QuietStep DEF vars, TInv
  <1> QED
    BY <1>1, <1>2, <1>3, <1>4, <1>5 DEF Next

LEMMA TokenInvariance == ASSUME Patient PROVE Spec => [](IInv /\ TInv)
  <1>1. Init => WorkersInStep /\ FallbackIdle
    BY RingMembers DEF Init, WorkersInStep, WorkerInStep, FallbackIdle
  <1> QED
    BY <1>1, InitIInv, NextIInv, WorkersNext, InitTInv, FallbackIdleNext, NextTInv, PTL DEF Spec

(* Request ids never collide, although the owner and the member may both   *)
(* create the standing request of the same sequence number                 *)
(* (_ensure_fallback_request): whoever raises one does so for a member that*)
(* has none, above every grant it had.                                     *)
THEOREM RequestIdsNeverCollide == ASSUME Patient PROVE Spec => []RequestIdsUnique
  BY TokenInvariance, PTL DEF TInv

(* An ON_DEMAND member becomes the owner only on a request of its own: the *)
(* return request an owner without a candidate writes                      *)
(* (_ensure_fallback_request) is for a FALLBACK member.                    *)
THEOREM OnDemandMembersAsk == ASSUME Patient PROVE Spec => []OnDemandOwnersAsked
  <1>1. IInv /\ TInv => OnDemandOwnersAsked
    BY DEF TInv, KindsFit, OnDemandOwnersAsked, OnDemand
  <1> QED
    BY <1>1, TokenInvariance, PTL

-----------------------------------------------------------------------------
(* The refinement: who the owner is, and what a step does to the token.    *)

(* Once the token exists there is a newest grant, and it names the owner.  *)
SomeNewest == GrantedRows # {} => \E i \in DOMAIN ledger : Newest(i)

NewestNamesOwner == \A i \in DOMAIN ledger : Newest(i) => LedgerOwner = ledger[i].svc

LEMMA OwnerNamed == IInv => NewestNamesOwner
  <1> SUFFICES ASSUME IInv, NEW i \in DOMAIN ledger, Newest(i)
               PROVE  LedgerOwner = ledger[i].svc
    BY DEF NewestNamesOwner
  <1> DEFINE Top(k) == \A j \in GrantedRows : ledger[j].grant.seq <= ledger[k].grant.seq
             top == CHOOSE k \in GrantedRows : Top(k)
  <1>1. i \in GrantedRows /\ Top(i)
    BY DEF Newest
  <1>2. top \in GrantedRows /\ Top(top)
    <2> HIDE DEF Top
    <2> QED
      BY <1>1
  <1>3. LedgerOwner = ledger[top].svc
    BY <1>1 DEF LedgerOwner
  <1> HIDE DEF top
  <1>4. Newest(top) /\ top \in DOMAIN ledger
    BY <1>2 DEF Newest, GrantedRows
  <1>5. top = i
    BY <1>4, NewestIsOne
  <1> QED
    BY <1>3, <1>5

LEMMA OwnerNamedNext ==
  IInv' => \A i \in DOMAIN ledger' : Newest(i)' => LedgerOwner' = ledger'[i].svc
  <1>1. IInv' => NewestNamesOwner'
    BY OwnerNamed, PTL
  <1> QED
    BY <1>1 DEF NewestNamesOwner

LEMMA OwnerKept ==
  ASSUME IInv, IInv', SomeNewest, GrantedRows' = GrantedRows,
         \A i \in GrantedRows : i \in DOMAIN ledger' /\ ledger'[i].svc = ledger[i].svc,
         \A i : Newest(i)' <=> Newest(i)
  PROVE  LedgerOwner' = LedgerOwner /\ SomeNewest'
  <1>1. CASE GrantedRows = {}
    BY <1>1 DEF LedgerOwner, SomeNewest
  <1>2. CASE GrantedRows # {}
    <2>1. PICK i \in DOMAIN ledger : Newest(i)
      BY <1>2 DEF SomeNewest
    <2>2. i \in DOMAIN ledger' /\ Newest(i)' /\ ledger'[i].svc = ledger[i].svc
      BY <2>1 DEF Newest
    <2>3. LedgerOwner' = ledger'[i].svc /\ LedgerOwner = ledger[i].svc
      BY <2>1, <2>2, OwnerNamed, OwnerNamedNext DEF NewestNamesOwner
    <2> QED
      BY <2>2, <2>3 DEF SomeNewest
  <1> QED
    BY <1>1, <1>2

(* What the steps of one manager leave alone.                              *)
OwnerStays == LedgerOwner' = LedgerOwner /\ SomeNewest'

LEMMA QuietToken ==
  ASSUME IInv, IInv', SomeNewest, SameRows
  PROVE  OwnerStays /\ Asking' = Asking
  <1>1. /\ GrantedRows' = GrantedRows /\ OpenRows(ledger') = OpenRows(ledger)
        /\ \A i : Newest(i)' <=> Newest(i)
    BY RowsStand
  <1>2. \A i \in GrantedRows : i \in DOMAIN ledger' /\ ledger'[i].svc = ledger[i].svc
    BY DEF SameRows, SameId, GrantedRows
  <1>3. OwnerStays
    BY <1>1, <1>2, OwnerKept DEF OwnerStays
  <1>4. \A i \in OpenRows(ledger) : ledger'[i].svc = ledger[i].svc /\ ledger'[i].kind = ledger[i].kind
    BY DEF SameRows, SameId, OpenRows
  <1> QED
    BY <1>1, <1>3, <1>4 DEF Asking

LEMMA RaisedToken ==
  ASSUME IInv, IInv', SomeNewest, NEW r \in Row, r.state = "open", ledger' = Append(ledger, r)
  PROVE  /\ OwnerStays
         /\ Asking' = IF r.kind = "on_demand" /\ r.svc \in OnDemand
                      THEN Asking \cup {r.svc} ELSE Asking
  <1> DEFINE pos == Len(ledger) + 1
  <1>1. /\ ledger'[pos] = r /\ DOMAIN ledger' = DOMAIN ledger \cup {pos}
        /\ \A i \in DOMAIN ledger : ledger'[i] = ledger[i]
        /\ GrantedRows' = GrantedRows
        /\ OpenRows(ledger') = OpenRows(ledger) \cup {pos}
        /\ \A i \in GrantedRows : i \in DOMAIN ledger /\ ledger'[i] = ledger[i]
        /\ \A i : Newest(i)' <=> Newest(i)
    BY RowGrows
  <1> HIDE DEF pos
  <1>2. OwnerStays
    BY <1>1, OwnerKept DEF OwnerStays
  <1>3. \A i \in OpenRows(ledger) : ledger'[i] = ledger[i]
    BY <1>1 DEF OpenRows
  <1>4. CASE r.kind = "on_demand" /\ r.svc \in OnDemand
    <2>1. ASSUME NEW s \in OnDemand PROVE s \in Asking' <=> s \in Asking \/ s = r.svc
      BY <1>1, <1>3, <1>4 DEF Asking
    <2>2. Asking \subseteq OnDemand /\ Asking' \subseteq OnDemand
      BY DEF Asking
    <2> QED
      BY <1>2, <1>4, <2>1, <2>2
  <1>5. CASE ~(r.kind = "on_demand" /\ r.svc \in OnDemand)
    BY <1>1, <1>2, <1>3, <1>5 DEF Asking
  <1> QED
    BY <1>4, <1>5

(* Only the owner is past the top of its loop.                             *)
LEMMA OwnerAlone ==
  ASSUME IInv, NEW m \in Services, Owns(m)
  PROVE  /\ LedgerOwner = m /\ m # Authority
         /\ \A n \in Services \ {m} : ~resident[n] /\ phase[n] = "poll"
  <1>1. LedgerOwner = m
    BY OwnerIsNewest, OwnerNamed DEF NewestNamesOwner
  <1>2. m # Authority
    BY AuthorityAssumption
  <1>3. \A n \in Services \ {m} : ~Owns(n)
    BY OneOwner
  <1> QED
    BY <1>1, <1>2, <1>3 DEF IInv, TransferInOrder

TokenStep == Token!Next \/ UNCHANGED Token!tokenVars

(* A step that changes neither the ledger's owner nor residency, whom to   *)
(* ask nor whether the owner has vacated is none of the token's.           *)
LEMMA TokenUntouched ==
  ASSUME OwnerStays, Asking' = Asking, UNCHANGED resident,
         \A n \in Services : phase'[n] \in {"vacated", "closed"} <=>
                             phase[n] \in {"vacated", "closed"}
  PROVE  TokenStep /\ SomeNewest'
  BY DEF OwnerStays, TokenStep, Token!tokenVars

LEMMA GenesisGrantRefines ==
  ASSUME IInv, IInv', TInv, SomeNewest, IssueGenesisGrant
  PROVE  TokenStep /\ SomeNewest'
  <1>1. /\ DOMAIN ledger = {1} /\ DOMAIN ledger' = {1} /\ GrantedRows = {} /\ GrantedRows' = {1}
        /\ OpenRows(ledger') = {} /\ SameId(ledger'[1], ledger[1])
        /\ ledger[1].svc = Ring[1] /\ ledger[1].kind = "fallback"
    BY GenesisGrantShape
  <1>2. Newest(1)'
    BY <1>1, GenesisGrantShape DEF Newest, GenesisGrant
  <1>3. LedgerOwner = Authority /\ LedgerOwner' = Ring[1]
    BY <1>1, <1>2, OwnerNamedNext DEF LedgerOwner, SameId
  <1>4. Asking = {} /\ Asking' = {}
    BY <1>1 DEF Asking, OpenRows
  <1>5. Token!Genesis(Ring[1])
    BY <1>3, <1>4, ModeAssumption DEF Token!Genesis, IssueGenesisGrant
  <1> QED
    BY <1>1, <1>2, <1>5, RingMembers DEF TokenStep, Token!Next, SomeNewest

LEMMA RequestRefines ==
  ASSUME IInv, IInv', TInv, SomeNewest, NEW s \in Services, Request(s)
  PROVE  TokenStep /\ SomeNewest'
  <1> DEFINE r == OpenRow(s, "on_demand", windows'[s])
  <1>1. /\ s \in OnDemand /\ worker[s] = "idle" /\ ledger' = Append(ledger, r)
        /\ windows'[s] \in Nat /\ ledger # <<>> /\ ledger[1].state # "open"
        /\ UNCHANGED <<resident, phase>>
    BY DEF Request, IInv, TypeOK
  <1>2. r \in Row /\ r.state = "open" /\ r.svc = s /\ r.kind = "on_demand"
    BY <1>1, OpenRowType DEF OpenRow
  <1> HIDE DEF r
  <1>3. OwnerStays /\ Asking' = Asking \cup {s}
    BY <1>1, <1>2, RaisedToken
  <1>4. s \notin Asking
    BY <1>1 DEF Asking, TInv, AskedOnce
  <1>5. LedgerOwner # Authority
    <2>1. 1 \in GrantedRows
      <3>1. ledger \in Seq(Row)
        BY LedgerTypes
      <3>2. 1 \in DOMAIN ledger
        BY <1>1, <3>1
      <3> QED
        BY <1>1, <3>2 DEF GrantedRows
    <2>2. PICK i \in DOMAIN ledger : Newest(i)
      BY <2>1 DEF SomeNewest
    <2>3. LedgerOwner = ledger[i].svc /\ ledger[i].svc \in Services
      BY <2>2, OwnerNamed, LedgerTypes DEF Row, NewestNamesOwner
    <2> QED
      BY <2>3, AuthorityAssumption
  <1>6. Token!Ask(s)
    BY <1>1, <1>3, <1>4, <1>5 DEF Token!Ask, OwnerStays, OnDemand
  <1> QED
    BY <1>3, <1>6 DEF TokenStep, Token!Next, OwnerStays

LEMMA AcquireRefines ==
  ASSUME IInv, IInv', TInv, SomeNewest, NEW m \in Services, Acquire(m)
  PROVE  TokenStep /\ SomeNewest'
  <1>1. SameRows
    BY DEF SameRows, SameId, Acquire
  <1>2. OwnerStays /\ Asking' = Asking
    BY <1>1, QuietToken
  <1>3. phase[m] = "acquire" /\ Owns(m)
    BY DEF Acquire, IInv, TransferInOrder
  <1>4. ~resident[m]
    BY <1>3 DEF IInv, TransferInOrder
  <1>5. /\ resident'[m] = TRUE /\ \A n \in Services \ {m} : resident'[n] = resident[n]
        /\ phase'[m] = "poll" /\ \A n \in Services \ {m} : phase'[n] = phase[n]
    BY DEF Acquire, IInv, TypeOK
  <1>6. /\ LedgerOwner = m /\ m # Authority
        /\ \A n \in Services \ {m} : ~resident[n] /\ phase[n] = "poll"
    BY <1>3, OwnerAlone
  <1>7. Token!Enter
    BY <1>3, <1>4, <1>2, <1>5, <1>6 DEF Token!Enter, OwnerStays
  <1> QED
    BY <1>2, <1>7 DEF TokenStep, Token!Next, OwnerStays

LEMMA VacateRefines ==
  ASSUME IInv, IInv', TInv, SomeNewest, NEW m \in Services, Vacate(m)
  PROVE  TokenStep /\ SomeNewest'
  <1>1. SameRows
    BY DEF SameRows, SameId, Vacate
  <1>2. OwnerStays /\ Asking' = Asking
    BY <1>1, QuietToken
  <1>3. /\ phase[m] = "selected" /\ Owns(m) /\ resident[m]
        /\ ~resident'[m] /\ \A n \in Services \ {m} : resident'[n] = resident[n]
        /\ phase'[m] = "vacated"
    BY DEF Vacate, IInv, TransferInOrder, TypeOK, TInv, OwnerOnCard
  <1>4. LedgerOwner = m /\ \A n \in Services \ {m} : ~resident[n]
    BY <1>3, OwnerAlone
  <1>5. Token!Leave
    BY <1>2, <1>3, <1>4 DEF Token!Leave, OwnerStays
  <1> QED
    BY <1>2, <1>5 DEF TokenStep, Token!Next, OwnerStays

LEMMA PublishRefines ==
  ASSUME IInv, IInv', TInv, SomeNewest, NEW m \in Services, Publish(m)
  PROVE  TokenStep /\ SomeNewest'
  <1>1. PICK c, g : Grants(m, c, g)
    BY PublishShape
  <1>0. PICK t \in Services : t = ledger[c].svc
    BY <1>1 DEF Grants
  <1>2. /\ OpenRows(ledger') = OpenRows(ledger) \ {c} /\ Newest(c)'
        /\ \A i \in DOMAIN ledger : SameId(ledger'[i], ledger[i])
    BY <1>1, GrantRows
  <1>3. /\ Owns(m) /\ c \in DOMAIN ledger /\ ledger[c].state = "open" /\ t \in Services \ {m}
        /\ DOMAIN ledger' = DOMAIN ledger /\ UNCHANGED resident
        /\ phase'[m] = "poll" /\ \A n \in Services \ {m} : phase'[n] = phase[n]
    BY <1>0, <1>1 DEF Grants
  <1>4. LedgerOwner' = t /\ SomeNewest'
    BY <1>0, <1>2, <1>3, OwnerNamedNext DEF SameId, SomeNewest
  <1>5. /\ LedgerOwner = m /\ \A n \in Services \ {m} : phase[n] = "poll"
    BY <1>3, OwnerAlone
  <1>6. phase[m] = "closed"
    BY DEF Publish
  <1>7. t \in Asking \cup Fallback
    <2> SUFFICES ASSUME t \notin Fallback PROVE t \in Asking
      OBVIOUS
    <2>1. ledger[c].kind = "on_demand" /\ c \in OpenRows(ledger) /\ t \in OnDemand
      BY <1>0, <1>3 DEF TInv, KindsFit, OpenRows, OnDemand
    <2> QED
      BY <1>0, <2>1 DEF Asking
  <1>8. Asking' = Asking \ {t}
    <2>1. ASSUME NEW i \in OpenRows(ledger), i # c, ledger[i].svc = t, t \in OnDemand
          PROVE  FALSE
      <3>1. c \in OpenRows(ledger)
        BY <1>3 DEF OpenRows
      <3> QED
        BY <1>0, <2>1, <3>1 DEF TInv, AskedOnce
    <2>2. \A i \in OpenRows(ledger) : ledger'[i].svc = ledger[i].svc
                                      /\ ledger'[i].kind = ledger[i].kind
      BY <1>2 DEF SameId, OpenRows
    <2> QED
      BY <1>0, <1>2, <2>1, <2>2 DEF Asking
  <1>9. Token!Pass(t)
    BY <1>3, <1>4, <1>5, <1>6, <1>7, <1>8 DEF Token!Pass
  <1> QED
    BY <1>4, <1>9 DEF TokenStep, Token!Next

(* The steps that are not the token's.                                     *)
LEMMA StutterRefines ==
  ASSUME Patient, IInv, IInv', TInv, SomeNewest, NEW m \in Services,
         Wake(m) \/ Release(m) \/ Poll(m) \/ Preempt(m) \/ Rescan(m) \/ Select(m) \/ Close(m)
  PROVE  TokenStep /\ SomeNewest'
  <1>1. /\ UNCHANGED resident
        /\ \A n \in Services : phase'[n] \in {"vacated", "closed"} <=>
                               phase[n] \in {"vacated", "closed"}
    <2>1. CASE Poll(m)
      <3>1. phase'[m] \in {"acquire", "poll"} /\ phase[m] = "poll"
            /\ \A n \in Services \ {m} : phase'[n] = phase[n]
        BY <2>1, PollShape
      <3> QED
        BY <2>1, <3>1 DEF Poll
    <2>2. CASE ~Poll(m)
      BY <2>2 DEF Wake, Release, Preempt, Rescan, Select, Close, IInv, TypeOK
    <2> QED
      BY <2>1, <2>2
  <1>2. OwnerStays /\ Asking' = Asking
    <2>1. ASSUME NEW f \in Services, NEW key \in Nat,
                 ledger' = Append(ledger, OpenRow(f, "fallback", key))
          PROVE  OwnerStays /\ Asking' = Asking
      <3>1. /\ OpenRow(f, "fallback", key) \in Row /\ OpenRow(f, "fallback", key).state = "open"
            /\ OpenRow(f, "fallback", key).kind = "fallback"
        BY OpenRowType DEF OpenRow
      <3> QED
        BY <2>1, <3>1, RaisedToken
    <2>2. CASE SameRows
      BY <2>2, QuietToken
    <2>3. CASE ledger' = ledger
      BY <2>2, <2>3 DEF SameRows, SameId
    <2>4. CASE Poll(m)
      BY <2>1, <2>3, <2>4, PollRegisters
    <2>5. CASE Select(m)
      <3>1. CASE Candidates(m) # {}
        BY <2>3, <2>5, <3>1 DEF Select
      <3>2. CASE Candidates(m) = {}
        <4>1. /\ granted[m].source \in Services /\ granted[m].seq + 1 \in Nat
              /\ ledger' = Append(ledger, OpenRow(granted[m].source, "fallback", granted[m].seq + 1))
          BY <2>5, <3>2, ReturnShape, ReturnsToFallback, RingMembers
        <4> QED
          BY <2>1, <4>1
      <3> QED
        BY <3>1, <3>2
    <2>6. CASE Close(m)
      BY <2>2, <2>6, CloseShape
    <2>7. CASE Wake(m) \/ Release(m) \/ Preempt(m) \/ Rescan(m)
      BY <2>3, <2>7 DEF Wake, Release, Preempt, Rescan
    <2> QED
      BY <2>4, <2>5, <2>6, <2>7
  <1> QED
    BY <1>1, <1>2, TokenUntouched

LEMMA NextRefines ==
  ASSUME Patient
  PROVE  IInv /\ IInv' /\ TInv /\ SomeNewest /\ [Next]_vars => TokenStep /\ SomeNewest'
  <1> SUFFICES ASSUME IInv, IInv', TInv, SomeNewest, [Next]_vars
               PROVE  TokenStep /\ SomeNewest'
    OBVIOUS
  <1>1. CASE IssueGenesisRequest
    <2>1. /\ OpenRow(Ring[1], "fallback", 0) \in Row
          /\ OpenRow(Ring[1], "fallback", 0).state = "open"
          /\ OpenRow(Ring[1], "fallback", 0).kind = "fallback"
      BY RingMembers, OpenRowType DEF OpenRow
    <2>2. OwnerStays /\ Asking' = Asking
      BY <1>1, <2>1, GenesisRequestShape, RaisedToken
    <2> QED
      BY <1>1, <2>2, TokenUntouched DEF IssueGenesisRequest
  <1>2. CASE IssueGenesisGrant
    BY <1>2, GenesisGrantRefines
  <1>3. ASSUME NEW m \in Services, Worker(m) PROVE TokenStep /\ SomeNewest'
    BY <1>3, RequestRefines, StutterRefines DEF Worker
  <1>4. ASSUME NEW m \in Services, Manager(m) PROVE TokenStep /\ SomeNewest'
    BY <1>4, AcquireRefines, VacateRefines, PublishRefines, StutterRefines
    DEF Manager, Transfer
  <1>5. CASE UNCHANGED vars
    <2>1. SameRows
      BY <1>5 DEF vars, SameRows, SameId
    <2>2. OwnerStays /\ Asking' = Asking
      BY <2>1, QuietToken
    <2> QED
      BY <1>5, <2>2, TokenUntouched DEF vars
  <1> QED
    BY <1>1, <1>2, <1>3, <1>4, <1>5 DEF Next

(* Every step of the ring is a step of the abstract token or leaves it     *)
(* alone: a member enters the empty card, leaves it before it passes the   *)
(* token on, and passes it to one that asks or to a FALLBACK member.       *)
THEOREM RingImplementsToken == ASSUME Patient PROVE Spec => ImplementsToken
  <1>1. Init => Token!Init /\ SomeNewest
    BY DEF Init, Token!Init, SomeNewest, LedgerOwner, GrantedRows, Asking, OpenRows
  <1>2. TokenStep => [Token!Next]_(Token!tokenVars)
    BY DEF TokenStep
  <1> QED
    BY <1>1, <1>2, InitIInv, NextIInv, TokenInvariance, NextRefines, PTL
    DEF Spec, ImplementsToken, Token!Spec
=============================================================================
