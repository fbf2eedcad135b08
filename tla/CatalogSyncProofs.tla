-------------------------- MODULE CatalogSyncProofs --------------------------
(***************************************************************************)
(* Theorems about overlapping syncs of one database, for any runs, any      *)
(* catalog with pairwise disjoint resources and any editions of its records *)
(* whose links go back to earlier resources.                               *)
(***************************************************************************)
EXTENDS CatalogSync, FoldTheorems

LEMMA CatalogFacts ==
    /\ Resources \subseteq Nat \ {0} /\ 1 \in Resources
    /\ \A s \in Resources : Catalog[s] \in Seq(Seq(Url))
    /\ \A s \in Resources : \A p \in DOMAIN Catalog[s] : Catalog[s][p] \in Seq(Url)
    /\ Free \notin Run
<1>1. Catalog \in Seq(Seq(Seq(Url))) /\ Catalog # <<>>
  BY CatalogAssumption
<1>2. Resources = 1 .. Len(Catalog) /\ Len(Catalog) \in Nat /\ Len(Catalog) # 0
  BY <1>1 DEF Resources
<1>3. \A s \in Resources : Catalog[s] \in Seq(Seq(Url))
  BY <1>1 DEF Resources
<1>4. \A s \in Resources : \A p \in DOMAIN Catalog[s] : Catalog[s][p] \in Seq(Url)
  BY <1>3
<1>5. QED
  BY <1>2, <1>3, <1>4, CatalogAssumption

LEMMA TableFacts ==
    /\ \A u \in Url : Table(u) \in Resources /\ u \in UrlsOf(Table(u))
    /\ \A s \in Resources : \A u \in UrlsOf(s) : u \in Url /\ Table(u) = s
<1>1. \A u \in Url : Table(u) \in Resources /\ u \in UrlsOf(Table(u))
  BY DEF Table, Url
<1>2. \A s \in Resources : \A u \in UrlsOf(s) : u \in Url
  BY DEF Url
<1>3. \A s \in Resources : \A u \in UrlsOf(s) : Table(u) = s
  BY <1>1, <1>2, CatalogAssumption
<1>4. QED
  BY <1>1, <1>2, <1>3

LEMMA EditionFacts == \A u \in Url : 0 \in Editions /\ DOMAIN Links[u] \subseteq Editions
BY CatalogAssumption DEF Editions

\* The record of a transaction.
LEMMA RecordFacts ==
    ASSUME TypeOK, NEW r \in Run, buffer[r] # <<>>
    PROVE  /\ Head(buffer[r]) \in Url \X Editions
           /\ TheUrl(r) \in Url /\ TheEdition(r) \in Editions
           /\ Table(TheUrl(r)) \in Resources
           /\ Tail(buffer[r]) \in Seq(Url \X Editions)
<1>1. buffer[r] \in Seq(Url \X Editions)
  BY DEF TypeOK
<1>2. Head(buffer[r]) \in Url \X Editions /\ Tail(buffer[r]) \in Seq(Url \X Editions)
  BY <1>1
<1>3. QED
  BY <1>2, TableFacts DEF TheUrl, TheEdition

LEMMA InitSafe == Init => Safe
<1> SUFFICES ASSUME Init PROVE Safe
  OBVIOUS
<1>1. TypeOK
  BY CatalogFacts, EditionFacts DEF Init, TypeOK, Working, Ended
<1>2. InTransaction = {} /\ Present = {}
  BY DEF Init, InTransaction, Present
<1>3. LocksAreHeld /\ SetLinksAreTargets /\ LinksPointToRows /\ RowsAreWhole
  BY <1>2 DEF Init, LocksAreHeld, SetLinksAreTargets, LinksPointToRows, RowsAreWhole
<1>4. KeysAreOwned
  BY <1>2, TableFacts DEF Init, KeysAreOwned
<1>5. QED
  BY <1>1, <1>3, <1>4 DEF Safe

-----------------------------------------------------------------------------
(***************************************************************************)
(* Steps that write no rows and begin no transaction: a run between its     *)
(* records, the end of a transaction without a commit, SWAPI.              *)
(***************************************************************************)
LEMMA QuietSafe ==
    ASSUME Safe, TypeOK',
           InTransaction' \subseteq InTransaction,
           UNCHANGED <<row, value, links, nextPk>>,
           \A r \in InTransaction' :
              /\ buffer'[r] = buffer[r] /\ pk'[r] = pk[r] /\ toSet'[r] = toSet[r]
              /\ added'[r] = added[r] /\ removed'[r] = removed[r]
              /\ lock[TheUrl(r)] = r => lock'[TheUrl(r)] = r,
           \A r \in Run \ InTransaction' : added'[r] = {}
    PROVE  Safe'
<1>1. /\ \A u \in Url : Id(u)' = Id(u)
      /\ Present' = Present
      /\ \A r \in InTransaction' : TheUrl(r)' = TheUrl(r) /\ TheEdition(r)' = TheEdition(r)
  BY DEF Id, Present, TheUrl, TheEdition
<1>2. LocksAreHeld'
  BY <1>1 DEF Safe, LocksAreHeld
<1>3. KeysAreOwned'
  BY <1>1 DEF Safe, KeysAreOwned, Present
<1>4. LinksPointToRows'
  BY <1>1 DEF Safe, LinksPointToRows, Present
<1>5. SetLinksAreTargets'
  <2> SUFFICES ASSUME NEW r \in InTransaction', NEW s \in Resources
               PROVE  IF s \in toSet'[r]
                      THEN \A id \in added'[r] : id[1] # s
                      ELSE Targets(TheUrl(r)', TheEdition(r)', s) # {} =>
                             \A v \in Present' \cap UrlsOf(s) :
                                Id(v)' \in LinksAfter(r, TheUrl(r))'
                                   => v \in Links[TheUrl(r)'][TheEdition(r)']
    BY DEF SetLinksAreTargets
  <2>1. LinksAfter(r, TheUrl(r))' = LinksAfter(r, TheUrl(r))
    BY <1>1 DEF LinksAfter
  <2>2. QED
    BY <1>1, <2>1, TableFacts DEF Safe, SetLinksAreTargets
<1>6. RowsAreWhole'
  BY <1>1, TableFacts DEF Safe, RowsAreWhole, Present, Targets
<1>7. QED
  BY <1>2, <1>3, <1>4, <1>5, <1>6 DEF Safe

LEMMA BetweenRecordsSafe ==
    ASSUME Safe, NEW r \in Run,
           Start(r) \/ Fetch(r) \/ FetchFails(r) \/ NextResource(r) \/ RecordAborts(r)
    PROVE  Safe'
<1> USE DEF tables, trans, counts, place, InTransaction
<1>1. CASE Start(r)
  <2>1. TypeOK'
    BY <1>1 DEF Safe, TypeOK, Start, Working
  <2>2. QED
    BY <1>1, <2>1, QuietSafe DEF Safe, TypeOK, LocksAreHeld, Start
<1>2. CASE Fetch(r)
  <2> DEFINE page == Catalog[stage[r]][pageNo[r]]
             read == [i \in DOMAIN page |-> <<page[i], edition[page[i]]>>]
  <2>1. page \in Seq(Url)
    BY <1>2, CatalogFacts DEF Fetch, Safe, TypeOK
  <2>2. read \in Seq(Url \X Editions)
    <3>1. DOMAIN page = 1 .. Len(page) /\ Len(page) \in Nat /\ \A i \in 1 .. Len(page) : page[i] \in Url
      BY <2>1
    <3>2. \A i \in 1 .. Len(page) : <<page[i], edition[page[i]]>> \in Url \X Editions
      BY <3>1 DEF Safe, TypeOK
    <3> HIDE DEF page
    <3>3. read \in [1 .. Len(page) -> Url \X Editions]
      BY <3>1, <3>2
    <3>4. QED
      BY <3>1, <3>3, SeqDef
  <2>3. buffer' = [buffer EXCEPT ![r] = read] /\ pageNo' = [pageNo EXCEPT ![r] = @ + 1]
        /\ UNCHANGED <<edition, row, value, links, nextPk, lock, at, stage, pk, toSet,
                       added, removed, synced, errors, calm>>
    BY <1>2 DEF Fetch
  <2> HIDE DEF read, page
  <2>4. TypeOK'
    <3>1. buffer' \in [Run -> Seq(Url \X Editions)]
      BY <2>2, <2>3 DEF Safe, TypeOK
    <3>2. pageNo' \in [Run -> Nat \ {0}]
      BY <2>3 DEF Safe, TypeOK
    <3>3. QED
      BY <2>3, <3>1, <3>2 DEF Safe, TypeOK
  <2>5. r \notin InTransaction
    BY <1>2 DEF Fetch
  <2>6. QED
    BY <2>3, <2>4, <2>5, QuietSafe DEF Safe, TypeOK, LocksAreHeld
<1>3. CASE FetchFails(r)
  <2>1. TypeOK'
    BY <1>3 DEF Safe, TypeOK, FetchFails, Ended
  <2>2. QED
    BY <1>3, <2>1, QuietSafe DEF Safe, TypeOK, LocksAreHeld, FetchFails
<1>4. CASE NextResource(r)
  <2>1. After(stage[r]) # 0 => After(stage[r]) \in Resources
    BY DEF After
  <2>2. TypeOK'
    <3>1. CASE After(stage[r]) # 0
      <4>1. /\ stage' = [stage EXCEPT ![r] = After(stage[r])]
            /\ pageNo' = [pageNo EXCEPT ![r] = 1]
            /\ UNCHANGED at
        BY <1>4, <3>1 DEF NextResource
      <4>2. stage' \in [Run -> Resources] /\ pageNo' \in [Run -> Nat \ {0}]
        BY <2>1, <3>1, <4>1 DEF Safe, TypeOK
      <4>3. QED
        BY <1>4, <4>1, <4>2 DEF Safe, TypeOK, NextResource
    <3>2. CASE After(stage[r]) = 0
      BY <1>4, <3>2 DEF Safe, TypeOK, NextResource, Ended
    <3>3. QED
      BY <3>1, <3>2
  <2>3. QED
    BY <1>4, <2>2, QuietSafe DEF Safe, TypeOK, LocksAreHeld, NextResource
<1>5. CASE RecordAborts(r)
  <2>1. TypeOK'
    BY <1>5 DEF Safe, TypeOK, RecordAborts, Ended
  <2>2. QED
    BY <1>5, <2>1, QuietSafe DEF Safe, TypeOK, LocksAreHeld, RecordAborts
<1>6. QED
  BY <1>1, <1>2, <1>3, <1>4, <1>5

\* A transaction that ends, by a commit or a rollback.
LEMMA EndRecordType ==
    ASSUME TypeOK, LocksAreHeld, NEW r \in Run, buffer[r] # <<>>, EndRecord(r),
           synced' \in [Run -> Nat], errors' \in [Run -> Nat],
           row' \in [Url -> Nat], value' \in [Url -> Editions],
           links' \in [Url -> SUBSET (Resources \X Nat)]
    PROVE  /\ TypeOK'
           /\ InTransaction' = InTransaction \ {r}
           /\ \A q \in InTransaction' :
                 /\ buffer'[q] = buffer[q] /\ pk'[q] = pk[q] /\ toSet'[q] = toSet[q]
                 /\ added'[q] = added[q] /\ removed'[q] = removed[q]
                 /\ lock[TheUrl(q)] = q => lock'[TheUrl(q)] = q
           /\ \A q \in Run \ InTransaction' : added'[q] = {}
<1>1. Tail(buffer[r]) \in Seq(Url \X Editions)
  BY RecordFacts
<1>2. TypeOK'
  BY <1>1 DEF TypeOK, EndRecord, Forget, place, Working
<1>3. InTransaction' = InTransaction \ {r}
  BY DEF InTransaction, EndRecord, TypeOK
<1>4. \A q \in InTransaction' : lock[TheUrl(q)] = q => lock'[TheUrl(q)] = q
  <2>1. \A q \in InTransaction : TheUrl(q) \in Url
    BY RecordFacts DEF InTransaction, LocksAreHeld
  <2>2. QED
    BY <1>3, <2>1 DEF EndRecord
<1>5. \A q \in Run \ InTransaction' : added'[q] = {}
  BY <1>3 DEF LocksAreHeld, TypeOK, EndRecord, Forget
<1>6. QED
  BY <1>2, <1>3, <1>4, <1>5 DEF TypeOK, EndRecord, Forget, InTransaction

LEMMA RecordFailsSafe ==
    ASSUME Safe, NEW r \in Run, RecordFails(r)
    PROVE  Safe'
<1>1. /\ buffer[r] # <<>> /\ EndRecord(r) /\ UNCHANGED <<row, value, links, nextPk>>
      /\ errors' = [errors EXCEPT ![r] = @ + 1] /\ UNCHANGED synced
  BY DEF RecordFails, tables, EndRecord, CountError
<1>2. /\ TypeOK'
      /\ InTransaction' = InTransaction \ {r}
      /\ \A q \in InTransaction' :
            /\ buffer'[q] = buffer[q] /\ pk'[q] = pk[q] /\ toSet'[q] = toSet[q]
            /\ added'[q] = added[q] /\ removed'[q] = removed[q]
            /\ lock[TheUrl(q)] = q => lock'[TheUrl(q)] = q
      /\ \A q \in Run \ InTransaction' : added'[q] = {}
  <2>1. errors' \in [Run -> Nat] /\ synced' \in [Run -> Nat]
    BY <1>1 DEF Safe, TypeOK
  <2>2. /\ row' \in [Url -> Nat] /\ value' \in [Url -> Editions]
        /\ links' \in [Url -> SUBSET (Resources \X Nat)]
    BY <1>1 DEF Safe, TypeOK
  <2>3. QED
    BY <1>1, <2>1, <2>2, EndRecordType DEF Safe
<1>3. QED
  BY <1>1, <1>2, QuietSafe

LEMMA KillSafe ==
    ASSUME Safe, NEW r \in Run, Kill(r)
    PROVE  Safe'
<1>1. TypeOK'
  BY DEF Safe, TypeOK, Kill, Forget, Ended, tables, place, counts
<1>2. /\ InTransaction' = InTransaction \ {r}
      /\ UNCHANGED <<row, value, links, nextPk>>
  BY DEF InTransaction, Kill, Safe, TypeOK, tables
<1>3. \A q \in InTransaction' :
         /\ buffer'[q] = buffer[q] /\ pk'[q] = pk[q] /\ toSet'[q] = toSet[q]
         /\ added'[q] = added[q] /\ removed'[q] = removed[q]
  BY <1>2 DEF Kill, Forget, InTransaction, Safe, TypeOK
<1>4. \A q \in InTransaction' : TheUrl(q) \in Url
  BY <1>2, RecordFacts DEF InTransaction, Safe, LocksAreHeld
<1>5. \A q \in InTransaction' : lock[TheUrl(q)] = q => lock'[TheUrl(q)] = q
  BY <1>2, <1>4 DEF Kill
<1>6. \A q \in Run \ InTransaction' : added'[q] = {}
  BY <1>2 DEF Kill, Forget, Safe, LocksAreHeld, TypeOK
<1>7. QED
  BY <1>1, <1>2, <1>3, <1>5, <1>6, QuietSafe

LEMMA PublishSafe ==
    ASSUME Safe, NEW u \in Url, Publish(u)
    PROVE  Safe'
<1>1. edition[u] + 1 \in Editions
  BY EditionFacts DEF Publish
<1>2. TypeOK'
  BY <1>1 DEF Safe, TypeOK, Publish, Disturb, tables, place, trans, counts
<1>3. QED
  BY <1>2, QuietSafe DEF Safe, LocksAreHeld, Publish, tables, trans, InTransaction

-----------------------------------------------------------------------------
(***************************************************************************)
(* The statements of a transaction.                                        *)
(***************************************************************************)
LEMMA UpsertSafe ==
    ASSUME Safe, NEW r \in Run, Upsert(r)
    PROVE  Safe'
<1> DEFINE u == TheUrl(r)
           t == Table(u)
           fresh == row[u] = 0
           key == IF fresh THEN nextPk[t] ELSE row[u]
<1>1. /\ buffer[r] # <<>> /\ u \in Url /\ t \in Resources /\ TheEdition(r) \in Editions
      /\ key \in Nat /\ key # 0
  BY RecordFacts DEF Upsert, Safe, TypeOK
<1>2. /\ UNCHANGED <<row, value, links, buffer, added, removed>>
      /\ lock[u] = Free /\ lock' = [lock EXCEPT ![u] = r]
      /\ pk' = [pk EXCEPT ![r] = key]
      /\ nextPk' = IF fresh THEN [nextPk EXCEPT ![t] = @ + 1] ELSE nextPk
      /\ toSet' = [toSet EXCEPT ![r] =
                     {s \in Resources : Targets(u, TheEdition(r), s) # {}}]
      /\ at[r] = "iterate" /\ at' = [at EXCEPT ![r] = "transaction"]
      /\ UNCHANGED <<edition, stage, pageNo, synced, errors, calm>>
  BY DEF Upsert, MayLock, WriteNothingYet, tables, place, counts
<1>3. /\ r \notin InTransaction /\ InTransaction' = InTransaction \cup {r}
      /\ pk'[r] = key /\ lock'[u] = r
      /\ \A q \in InTransaction : pk'[q] = pk[q] /\ toSet'[q] = toSet[q]
      /\ added[r] = {}
  BY <1>1, <1>2 DEF InTransaction, Safe, TypeOK, LocksAreHeld
<1>4. /\ \A q \in Run : TheUrl(q)' = TheUrl(q) /\ TheEdition(q)' = TheEdition(q)
      /\ \A v \in Url : Id(v)' = Id(v)
      /\ Present' = Present
      /\ \A q \in InTransaction : TheUrl(q) \in Url /\ TheUrl(q) # u
      /\ InTransaction \subseteq Run
  <2>1. \A q \in InTransaction : TheUrl(q) \in Url /\ TheUrl(q) # u
    BY <1>2, RecordFacts, CatalogFacts DEF InTransaction, Safe, LocksAreHeld
  <2>2. QED
    BY <1>2, <2>1 DEF TheUrl, TheEdition, Id, Present, InTransaction
<1> HIDE DEF u, t, key
<1>5. TypeOK'
  <2>1. nextPk' \in [Resources -> Nat \ {0}]
    BY <1>1, <1>2 DEF Safe, TypeOK
  <2>2. QED
    BY <1>1, <1>2, <2>1 DEF Safe, TypeOK, Working
<1>6. LocksAreHeld'
  <2>1. /\ buffer'[r] # <<>> /\ lock'[TheUrl(r)'] = r /\ pk'[r] # 0
        /\ row'[TheUrl(r)'] # 0 => pk'[r] = row'[TheUrl(r)']
    BY <1>1, <1>2, <1>3, <1>4 DEF u, key
  <2>2. ASSUME NEW q \in InTransaction
        PROVE  /\ buffer'[q] # <<>> /\ lock'[TheUrl(q)'] = q /\ pk'[q] # 0
               /\ row'[TheUrl(q)'] # 0 => pk'[q] = row'[TheUrl(q)']
    <3>1. /\ TheUrl(q)' = TheUrl(q) /\ TheUrl(q) \in Url \ {u}
          /\ buffer'[q] = buffer[q] /\ pk'[q] = pk[q] /\ row' = row
      BY <1>2, <1>3, <1>4
    <3>2. /\ buffer[q] # <<>> /\ lock[TheUrl(q)] = q /\ pk[q] # 0
          /\ row[TheUrl(q)] # 0 => pk[q] = row[TheUrl(q)]
      BY DEF Safe, LocksAreHeld
    <3>3. lock'[TheUrl(q)] = lock[TheUrl(q)]
      BY <1>2, <3>1 DEF Safe, TypeOK
    <3>4. QED
      BY <3>1, <3>2, <3>3
  <2>3. \A q \in Run \ InTransaction' : added'[q] = {}
    BY <1>2, <1>3 DEF Safe, LocksAreHeld
  <2>4. QED
    BY <1>3, <2>1, <2>2, <2>3 DEF LocksAreHeld
<1>7. KeysAreOwned'
  <2>1. \A s \in Resources : nextPk[s] \in Nat /\ nextPk'[s] \in Nat /\ nextPk[s] <= nextPk'[s]
    BY <1>1, <1>2 DEF Safe, TypeOK
  <2>2. /\ fresh => key = nextPk[t] /\ key < nextPk'[t]
        /\ ~ fresh => key = row[u] /\ key < nextPk[t] /\ u \in Present /\ Id(u) = <<t, key>>
    BY <1>1, <1>2, <2>1 DEF key, t, Safe, TypeOK, KeysAreOwned, Present, Id
  <2>3. key < nextPk'[t]
    BY <1>1, <2>1, <2>2
  <2>4. /\ \A v \in Url : Table(v) \in Resources /\ row[v] \in Nat
        /\ \A q \in Run : \A id \in added[q] : id[1] \in Resources /\ id[2] \in Nat
        /\ \A q \in Run : pk[q] \in Nat
    BY TableFacts DEF Safe, TypeOK
  <2>5. \A v \in Url : row'[v] < nextPk'[Table(v)]
    BY <1>2, <2>1, <2>4 DEF Safe, KeysAreOwned
  <2>6. \A v, w \in Present' : Id(v)' = Id(w)' => v = w
    BY <1>4 DEF Safe, KeysAreOwned, Present
  <2>7. ASSUME NEW q \in InTransaction'
        PROVE  /\ pk'[q] < nextPk'[Table(TheUrl(q)')]
               /\ \A id \in added'[q] : id[2] < nextPk'[id[1]]
    <3>1. CASE q = r
      BY <1>2, <1>3, <1>4, <2>3, <3>1 DEF u, t
    <3>2. CASE q \in InTransaction
      <4>1. /\ pk[q] < nextPk[Table(TheUrl(q))] /\ Table(TheUrl(q)) \in Resources
            /\ \A id \in added[q] : id[2] < nextPk[id[1]]
        BY <1>4, <2>4, <3>2 DEF Safe, KeysAreOwned
      <4>2. q \in Run /\ TheUrl(q)' = TheUrl(q) /\ pk'[q] = pk[q] /\ added' = added
        BY <1>2, <1>3, <1>4, <3>2
      <4>3. pk[q] < nextPk'[Table(TheUrl(q))]
        BY <2>1, <2>4, <4>1, <4>2
      <4>4. ASSUME NEW id \in added[q]
            PROVE  id[2] < nextPk'[id[1]]
        BY <2>1, <2>4, <4>1, <4>2
      <4>5. QED
        BY <4>2, <4>3, <4>4
    <3>3. QED
      BY <1>3, <3>1, <3>2
  <2>8. ASSUME fresh
        PROVE  /\ \A v \in Present : Id(v) # <<t, key>>
               /\ \A q \in InTransaction' : <<t, key>> \notin added[q]
               /\ \A q \in InTransaction : <<Table(TheUrl(q)), pk[q]>> # <<t, key>>
    <3>1. \A v \in Present : Id(v) # <<t, key>>
      BY <1>1, <2>1, <2>2, <2>4, <2>8 DEF Safe, KeysAreOwned, Id, Present
    <3>2. ASSUME NEW q \in InTransaction, <<t, key>> \in added[q]
          PROVE  FALSE
      <4>1. <<t, key>>[2] < nextPk[<<t, key>>[1]]
        BY <3>2 DEF Safe, KeysAreOwned
      <4>2. key < nextPk[t]
        BY <4>1
      <4>3. QED
        BY <1>1, <2>1, <2>2, <2>8, <4>2
    <3>3. ASSUME NEW q \in InTransaction, <<Table(TheUrl(q)), pk[q]>> = <<t, key>>
          PROVE  FALSE
      <4>1. pk[q] < nextPk[Table(TheUrl(q))] /\ Table(TheUrl(q)) = t /\ pk[q] = key
        BY <3>3 DEF Safe, KeysAreOwned
      <4>2. QED
        BY <1>1, <2>1, <2>2, <2>8, <4>1
    <3>4. QED
      BY <1>3, <3>1, <3>2, <3>3
  <2>9. ASSUME NEW q \in InTransaction', row'[TheUrl(q)'] = 0
        PROVE  /\ \A v \in Present' : Id(v)' # <<Table(TheUrl(q)'), pk'[q]>>
               /\ \A p \in InTransaction' : <<Table(TheUrl(q)'), pk'[q]>> \notin added'[p]
               /\ \A p \in InTransaction' \ {q} :
                     <<Table(TheUrl(p)'), pk'[p]>> # <<Table(TheUrl(q)'), pk'[q]>>
    <3>1. CASE q = r
      <4>1. fresh
        BY <1>2, <1>4, <2>9, <3>1 DEF u
      <4>2. Table(TheUrl(q)') = t /\ pk'[q] = key
        BY <1>3, <1>4, <3>1 DEF u, t
      <4>3. \A p \in InTransaction' \ {q} : p \in InTransaction /\ pk'[p] = pk[p] /\ TheUrl(p)' = TheUrl(p)
        BY <1>3, <1>4, <3>1
      <4>4. QED
        BY <1>2, <1>4, <2>8, <4>1, <4>2, <4>3 DEF Present
    <3>2. CASE q \in InTransaction
      <4>1. /\ TheUrl(q)' = TheUrl(q) /\ pk'[q] = pk[q] /\ row[TheUrl(q)] = 0
        BY <1>2, <1>3, <1>4, <2>9, <3>2
      <4>2. /\ \A v \in Present : Id(v) # <<Table(TheUrl(q)), pk[q]>>
            /\ \A p \in InTransaction : <<Table(TheUrl(q)), pk[q]>> \notin added[p]
            /\ \A p \in InTransaction \ {q} :
                  <<Table(TheUrl(p)), pk[p]>> # <<Table(TheUrl(q)), pk[q]>>
        BY <3>2, <4>1 DEF Safe, KeysAreOwned
      <4>3. <<t, key>> # <<Table(TheUrl(q)), pk[q]>>
        <5>1. CASE fresh
          BY <2>8, <3>2, <5>1
        <5>2. CASE ~ fresh
          BY <2>2, <4>2, <5>2
        <5>3. QED
          BY <5>1, <5>2
      <4>4. Table(TheUrl(r)') = t
        BY <1>3, <1>4 DEF u, t
      <4>5. QED
        BY <1>2, <1>3, <1>4, <4>1, <4>2, <4>3, <4>4 DEF Present
    <3>3. QED
      BY <1>3, <3>1, <3>2
  <2>10. QED
    BY <2>5, <2>6, <2>7, <2>9 DEF KeysAreOwned
<1>8. LinksPointToRows' /\ RowsAreWhole'
  BY <1>2, <1>4, TableFacts DEF Safe, LinksPointToRows, RowsAreWhole, Present, Targets
<1>9. SetLinksAreTargets'
  <2> SUFFICES ASSUME NEW q \in InTransaction', NEW s \in Resources
               PROVE  IF s \in toSet'[q]
                      THEN \A id \in added'[q] : id[1] # s
                      ELSE Targets(TheUrl(q)', TheEdition(q)', s) # {} =>
                             \A v \in Present' \cap UrlsOf(s) :
                                Id(v)' \in LinksAfter(q, TheUrl(q))'
                                   => v \in Links[TheUrl(q)'][TheEdition(q)']
    BY DEF SetLinksAreTargets
  <2>1. CASE q = r
    <3>1. /\ added'[q] = {}
          /\ s \in toSet'[q] <=> Targets(TheUrl(q)', TheEdition(q)', s) # {}
      BY <1>2, <1>3, <1>4, <2>1 DEF u, Safe, TypeOK
    <3>2. QED
      BY <3>1
  <2>2. CASE q \in InTransaction
    <3>1. LinksAfter(q, TheUrl(q))' = LinksAfter(q, TheUrl(q))
      BY <1>2, <1>3, <1>4, <2>2 DEF LinksAfter
    <3>2. QED
      BY <1>2, <1>3, <1>4, <2>2, <3>1, TableFacts DEF Safe, SetLinksAreTargets
  <2>3. QED
    BY <1>3, <2>1, <2>2
<1>10. QED
  BY <1>5, <1>6, <1>7, <1>8, <1>9 DEF Safe

LEMMA SetLinksSafe ==
    ASSUME Safe, NEW r \in Run, NEW s \in Resources, SetLinks(r, s)
    PROVE  Safe'
<1> DEFINE u   == TheUrl(r)
           new == {Id(v) : v \in Targets(u, TheEdition(r), s) \cap Present}
           old == {id \in links[u] : id[1] = s}
<1>1. /\ UNCHANGED <<row, value, links, nextPk, lock, at, buffer, pk>>
      /\ UNCHANGED <<edition, stage, pageNo, synced, errors, calm>>
      /\ s \in toSet[r] /\ toSet' = [toSet EXCEPT ![r] = @ \ {s}]
      /\ added' = [added EXCEPT ![r] = @ \cup (new \ old)]
      /\ removed' = [removed EXCEPT ![r] = @ \cup (old \ new)]
      /\ r \in InTransaction
  BY DEF SetLinks, IsNext, tables, place, counts, InTransaction
<1>2. /\ InTransaction' = InTransaction /\ InTransaction \subseteq Run
      /\ Present' = Present /\ Present \subseteq Url
      /\ \A q \in Run : TheUrl(q)' = TheUrl(q) /\ TheEdition(q)' = TheEdition(q)
      /\ \A v \in Url : Id(v)' = Id(v)
  BY <1>1 DEF InTransaction, Present, TheUrl, TheEdition, Id
<1>3. u \in Url
  BY <1>1, <1>2, RecordFacts DEF Safe, LocksAreHeld
<1>4. /\ new \subseteq Resources \X Nat /\ old \subseteq Resources \X Nat
      /\ \A id \in new : id[1] = s /\ id[2] < nextPk[id[1]]
  <2>1. ASSUME NEW v \in Targets(u, TheEdition(r), s) \cap Present
        PROVE  /\ Id(v) \in Resources \X Nat /\ Id(v)[1] = s
               /\ Id(v)[2] < nextPk[Id(v)[1]]
    BY TableFacts DEF Targets, Present, Id, Safe, TypeOK, KeysAreOwned
  <2>2. old \subseteq Resources \X Nat
    BY <1>3 DEF Safe, TypeOK
  <2>3. QED
    BY <2>1, <2>2
<1>5. /\ added'[r] = added[r] \cup (new \ old) /\ removed'[r] = removed[r] \cup (old \ new)
      /\ toSet'[r] = toSet[r] \ {s}
      /\ \A q \in Run \ {r} : /\ added'[q] = added[q] /\ removed'[q] = removed[q]
                              /\ toSet'[q] = toSet[q]
  BY <1>1 DEF Safe, TypeOK
<1> HIDE DEF u, new, old
<1>6. TypeOK'
  <2>1. added' \in [Run -> SUBSET (Resources \X Nat)] /\ removed' \in [Run -> SUBSET (Resources \X Nat)]
    BY <1>1, <1>4 DEF Safe, TypeOK
  <2>2. toSet' \in [Run -> SUBSET Resources]
    BY <1>1 DEF Safe, TypeOK
  <2>3. QED
    BY <1>1, <2>1, <2>2 DEF Safe, TypeOK
<1>7. LocksAreHeld'
  BY <1>1, <1>2, <1>5 DEF Safe, LocksAreHeld
<1>8. KeysAreOwned'
  <2>1. ASSUME NEW q \in InTransaction, NEW id \in added'[q]
        PROVE  id[2] < nextPk[id[1]]
    BY <1>2, <1>4, <1>5 DEF Safe, KeysAreOwned
  <2>2. ASSUME NEW q \in InTransaction, row[TheUrl(q)] = 0, NEW p \in InTransaction
        PROVE  <<Table(TheUrl(q)), pk[q]>> \notin added'[p]
    <3>1. <<Table(TheUrl(q)), pk[q]>> \notin added[p] /\ <<Table(TheUrl(q)), pk[q]>> \notin new
      BY <2>2 DEF Safe, KeysAreOwned, new
    <3>2. QED
      BY <1>2, <1>5, <3>1
  <2>3. QED
    BY <1>1, <1>2, <2>1, <2>2 DEF Safe, KeysAreOwned, Present
<1>9. LinksPointToRows' /\ RowsAreWhole'
  BY <1>1, <1>2, TableFacts DEF Safe, LinksPointToRows, RowsAreWhole, Present, Targets
<1>10. SetLinksAreTargets'
  <2> SUFFICES ASSUME NEW q \in InTransaction, NEW z \in Resources
               PROVE  IF z \in toSet'[q]
                      THEN \A id \in added'[q] : id[1] # z
                      ELSE Targets(TheUrl(q), TheEdition(q), z) # {} =>
                             \A v \in Present \cap UrlsOf(z) :
                                Id(v) \in (links[TheUrl(q)] \ removed'[q]) \cup added'[q]
                                   => v \in Links[TheUrl(q)][TheEdition(q)]
    BY <1>1, <1>2, TableFacts DEF SetLinksAreTargets, LinksAfter
  <2>1. CASE q # r
    BY <1>2, <1>5, <2>1 DEF Safe, SetLinksAreTargets, LinksAfter
  <2>2. CASE q = r /\ z \in toSet'[q]
    BY <1>4, <1>5, <2>2 DEF Safe, SetLinksAreTargets
  <2>3. CASE q = r /\ z \notin toSet'[q]
    <3> SUFFICES ASSUME Targets(u, TheEdition(r), z) # {}, NEW v \in Present \cap UrlsOf(z),
                        Id(v) \in (links[u] \ removed'[r]) \cup added'[r]
                 PROVE  v \in Links[u][TheEdition(r)]
      BY <2>3 DEF u
    <3>1. Id(v)[1] = z
      BY TableFacts DEF Id
    <3>2. CASE z = s
      <4>1. Id(v) \notin added[r]
        BY <1>1, <3>1, <3>2 DEF Safe, SetLinksAreTargets
      <4>2. Id(v) \in new
        BY <1>5, <3>1, <3>2, <4>1 DEF old
      <4>3. PICK w \in Targets(u, TheEdition(r), s) \cap Present : Id(v) = Id(w)
        BY <4>2 DEF new
      <4>4. v = w
        BY <4>3 DEF Safe, KeysAreOwned
      <4>5. QED
        BY <4>3, <4>4 DEF Targets
    <3>3. CASE z # s
      <4>1. z \notin toSet[r]
        BY <1>5, <2>3, <3>3
      <4>2. Id(v) \in LinksAfter(r, u)
        BY <1>4, <1>5, <3>1, <3>3 DEF LinksAfter
      <4>3. QED
        BY <1>1, <4>1, <4>2 DEF Safe, SetLinksAreTargets, u
    <3>4. QED
      BY <3>2, <3>3
  <2>4. QED
    BY <2>1, <2>2, <2>3
<1>11. QED
  BY <1>6, <1>7, <1>8, <1>9, <1>10 DEF Safe

\* The administrator waits for transactions that hold the row.
LEMMA DeleteRowSafe ==
    ASSUME Safe, NEW u \in Url, DeleteRow(u)
    PROVE  Safe'
<1>1. /\ u \in Present /\ lock[u] = Free
      /\ row' = [row EXCEPT ![u] = 0]
      /\ links' = [v \in Url |-> IF v = u THEN {} ELSE links[v] \ {Id(u)}]
      /\ UNCHANGED <<edition, value, nextPk, lock, at, stage, pageNo, buffer, pk, toSet,
                     added, removed, synced, errors>>
      /\ calm' = [r \in Run |-> calm[r] /\ at[r] \notin Working]
  BY DEF DeleteRow, Disturb, place, trans, counts
<1>2. /\ InTransaction' = InTransaction /\ InTransaction \subseteq Run
      /\ Present' = Present \ {u} /\ Present \subseteq Url
      /\ \A q \in Run : TheUrl(q)' = TheUrl(q) /\ TheEdition(q)' = TheEdition(q)
      /\ \A v \in Url \ {u} : Id(v)' = Id(v) /\ row'[v] = row[v]
      /\ row'[u] = 0
  BY <1>1 DEF InTransaction, Present, TheUrl, TheEdition, Id, Safe, TypeOK
<1>3. \A q \in InTransaction : TheUrl(q) \in Url /\ TheUrl(q) # u
  BY <1>1, <1>2, RecordFacts, CatalogFacts DEF Safe, LocksAreHeld
<1>4. /\ \A v \in Url : links'[v] \subseteq links[v] /\ Id(u) \notin links'[v]
      /\ links'[u] = {}
  BY <1>1, <1>2 DEF Safe, LinksPointToRows
<1>5. TypeOK'
  <2>1. links' \in [Url -> SUBSET (Resources \X Nat)]
    BY <1>1 DEF Safe, TypeOK
  <2>2. row' \in [Url -> Nat] /\ calm' \in [Run -> BOOLEAN]
    BY <1>1 DEF Safe, TypeOK
  <2>3. QED
    BY <1>1, <2>1, <2>2 DEF Safe, TypeOK
<1>6. LocksAreHeld'
  BY <1>1, <1>2, <1>3 DEF Safe, LocksAreHeld
<1>7. KeysAreOwned'
  <2>1. \A v \in Url : row'[v] < nextPk[Table(v)]
    <3>1. 0 < nextPk[Table(u)]
      BY TableFacts DEF Safe, TypeOK
    <3>2. QED
      BY <1>2, <3>1 DEF Safe, KeysAreOwned
  <2>2. \A v, w \in Present' : Id(v)' = Id(w)' => v = w
    BY <1>2 DEF Safe, KeysAreOwned
  <2>3. QED
    BY <1>1, <1>2, <1>3, <2>1, <2>2 DEF Safe, KeysAreOwned
<1>8. LinksPointToRows'
  <2>1. ASSUME NEW v \in Url, NEW id \in links'[v]
        PROVE  id \in {Id(w)' : w \in Present'}
    <3>1. id \in links[v] /\ id # Id(u)
      BY <1>4, <2>1
    <3>2. PICK w \in Present : id = Id(w)
      BY <3>1 DEF Safe, LinksPointToRows
    <3>3. w # u /\ Id(w)' = Id(w)
      BY <1>2, <3>1, <3>2
    <3>4. QED
      BY <1>2, <3>2, <3>3
  <2>2. \A v \in Url \ Present' : links'[v] = {}
    BY <1>2, <1>4 DEF Safe, LinksPointToRows
  <2>3. QED
    BY <2>1, <2>2 DEF LinksPointToRows
<1>9. SetLinksAreTargets'
  <2> SUFFICES ASSUME NEW q \in InTransaction, NEW z \in Resources, z \notin toSet[q],
                      Targets(TheUrl(q), TheEdition(q), z) # {},
                      NEW v \in Present' \cap UrlsOf(z),
                      Id(v)' \in (links'[TheUrl(q)] \ removed[q]) \cup added[q]
               PROVE  v \in Links[TheUrl(q)][TheEdition(q)]
    BY <1>1, <1>2 DEF Safe, SetLinksAreTargets, LinksAfter, Targets
  <2>1. Id(v)' = Id(v) /\ v \in Present
    BY <1>2
  <2>2. Id(v) \in LinksAfter(q, TheUrl(q))
    BY <1>3, <1>4, <2>1 DEF LinksAfter
  <2>3. QED
    BY <2>1, <2>2 DEF Safe, SetLinksAreTargets
<1>10. RowsAreWhole'
  <2> SUFFICES ASSUME NEW v \in Present', NEW z \in Resources,
                      Targets(v, value[v], z) # {}, NEW id \in links'[v], id[1] = z
               PROVE  id \in {Id(w)' : w \in Targets(v, value[v], z)}
    BY <1>1 DEF RowsAreWhole, Targets
  <2>1. v \in Url /\ v \in Present /\ id \in links[v] /\ id # Id(u)
    BY <1>2, <1>4
  <2>2. PICK w \in Targets(v, value[v], z) : id = Id(w)
    BY <2>1 DEF Safe, RowsAreWhole
  <2>3. w \in Url /\ w # u
    BY <2>1, <2>2, TableFacts DEF Targets
  <2>4. QED
    BY <1>2, <2>2, <2>3
<1>11. QED
  BY <1>5, <1>6, <1>7, <1>8, <1>9, <1>10 DEF Safe

\* The row and its links become visible at once.
LEMMA CommitSafe ==
    ASSUME Safe, NEW r \in Run, Commit(r)
    PROVE  Safe'
<1>1. PICK u \in Url, e \in Editions, key \in Nat :
         u = TheUrl(r) /\ e = TheEdition(r) /\ key = pk[r]
  BY RecordFacts DEF Commit, InTransaction, Safe, TypeOK, LocksAreHeld
<1>2. /\ r \in InTransaction /\ buffer[r] # <<>> /\ u \in Url /\ e \in Editions
      /\ Table(u) \in Resources
      /\ key \in Nat /\ key # 0
      /\ row[u] # 0 => key = row[u]
      /\ InTransaction \subseteq Run /\ Present \subseteq Url
  BY <1>1, TableFacts DEF Commit, InTransaction, Present, Safe, TypeOK, LocksAreHeld
<1>3. /\ row' = [row EXCEPT ![u] = key]
      /\ value' = [value EXCEPT ![u] = e]
      /\ links' = [links EXCEPT ![u] = LinksAfter(r, u)]
      /\ toSet[r] = {} /\ UNCHANGED nextPk
      /\ added[r] \subseteq {Id(v) : v \in Present}
      /\ EndRecord(r) /\ synced' = [synced EXCEPT ![r] = @ + 1] /\ UNCHANGED errors
  BY <1>1 DEF Commit, TargetsExist, EndRecord
<1>4. /\ TypeOK'
      /\ InTransaction' = InTransaction \ {r}
      /\ \A q \in InTransaction' :
            /\ buffer'[q] = buffer[q] /\ pk'[q] = pk[q] /\ toSet'[q] = toSet[q]
            /\ added'[q] = added[q] /\ removed'[q] = removed[q]
            /\ lock[TheUrl(q)] = q => lock'[TheUrl(q)] = q
      /\ \A q \in Run \ InTransaction' : added'[q] = {}
  <2>1. LinksAfter(r, u) \in SUBSET (Resources \X Nat)
    BY <1>2 DEF LinksAfter, Safe, TypeOK
  <2>2. links' \in [Url -> SUBSET (Resources \X Nat)]
    BY <1>3, <2>1 DEF Safe, TypeOK
  <2>3. /\ row' \in [Url -> Nat] /\ value' \in [Url -> Editions]
        /\ synced' \in [Run -> Nat] /\ errors' \in [Run -> Nat]
    BY <1>2, <1>3 DEF Safe, TypeOK
  <2>4. QED
    BY <1>2, <1>3, <2>2, <2>3, EndRecordType DEF Safe
<1>5. /\ row'[u] = key /\ value'[u] = e /\ links'[u] = LinksAfter(r, u)
      /\ \A v \in Url \ {u} : /\ row'[v] = row[v] /\ value'[v] = value[v]
                              /\ links'[v] = links[v] /\ Id(v)' = Id(v)
      /\ Id(u)' = <<Table(u), key>>
      /\ row[u] # 0 => Id(u)' = Id(u)
  BY <1>2, <1>3 DEF Id, Safe, TypeOK
<1>6. /\ Present' = Present \cup {u}
      /\ \A v \in Present : Id(v)' = Id(v)
      /\ u \notin Present <=> row[u] = 0
  BY <1>2, <1>5 DEF Present
<1>7. \A q \in InTransaction' : /\ q \in InTransaction \ {r} /\ TheUrl(q)' = TheUrl(q)
                                /\ TheEdition(q)' = TheEdition(q)
                                /\ TheUrl(q) \in Url /\ TheUrl(q) # u
  <2>1. \A q \in InTransaction \ {r} : TheUrl(q) \in Url
    BY <1>2, RecordFacts DEF Safe, LocksAreHeld
  <2>2. \A q \in InTransaction \ {r} : TheUrl(q) # u
    BY <1>1, <1>2 DEF Safe, LocksAreHeld
  <2>3. QED
    BY <1>4, <2>1, <2>2 DEF TheUrl, TheEdition
\* The key of a row that this commit inserts is nobody else's.
<1>8. ASSUME row[u] = 0
      PROVE  /\ \A v \in Present : Id(v) # Id(u)'
             /\ \A q \in InTransaction : Id(u)' \notin added[q]
             /\ \A q \in InTransaction' : <<Table(TheUrl(q)), pk[q]>> # Id(u)'
             /\ \A v \in Url : Id(u)' \notin links[v]
  <2>1. /\ \A v \in Present : Id(v) # <<Table(u), key>>
        /\ \A q \in InTransaction : <<Table(u), key>> \notin added[q]
        /\ \A q \in InTransaction \ {r} : <<Table(TheUrl(q)), pk[q]>> # <<Table(u), key>>
    BY <1>1, <1>2, <1>8 DEF Safe, KeysAreOwned
  <2>2. \A v \in Url : <<Table(u), key>> \notin links[v]
    BY <2>1 DEF Safe, LinksPointToRows
  <2>3. QED
    BY <1>4, <1>5, <2>1, <2>2
<1>9. LocksAreHeld'
  BY <1>4, <1>5, <1>7 DEF Safe, LocksAreHeld
<1>10. KeysAreOwned'
  <2>1. key < nextPk[Table(u)]
    BY <1>1, <1>2 DEF Safe, KeysAreOwned
  <2>2. \A v \in Url : row'[v] < nextPk'[Table(v)]
    BY <1>3, <1>5, <2>1 DEF Safe, KeysAreOwned
  <2>3. \A v, w \in Present' : Id(v)' = Id(w)' => v = w
    BY <1>6, <1>8 DEF Safe, KeysAreOwned
  <2>4. ASSUME NEW q \in InTransaction'
        PROVE  /\ pk'[q] < nextPk'[Table(TheUrl(q)')]
               /\ \A id \in added'[q] : id[2] < nextPk'[id[1]]
    BY <1>3, <1>4, <1>7 DEF Safe, KeysAreOwned
  <2>5. ASSUME NEW q \in InTransaction', row'[TheUrl(q)'] = 0
        PROVE  /\ \A v \in Present' : Id(v)' # <<Table(TheUrl(q)'), pk'[q]>>
               /\ \A p \in InTransaction' : <<Table(TheUrl(q)'), pk'[q]>> \notin added'[p]
               /\ \A p \in InTransaction' \ {q} :
                     <<Table(TheUrl(p)'), pk'[p]>> # <<Table(TheUrl(q)'), pk'[q]>>
    <3>1. /\ q \in InTransaction /\ TheUrl(q)' = TheUrl(q) /\ pk'[q] = pk[q]
          /\ row[TheUrl(q)] = 0
      BY <1>4, <1>5, <1>7, <2>5
    <3>2. /\ \A v \in Present : Id(v) # <<Table(TheUrl(q)), pk[q]>>
          /\ \A p \in InTransaction : <<Table(TheUrl(q)), pk[q]>> \notin added[p]
          /\ \A p \in InTransaction \ {q} :
                <<Table(TheUrl(p)), pk[p]>> # <<Table(TheUrl(q)), pk[q]>>
      BY <3>1 DEF Safe, KeysAreOwned
    <3>3. Id(u)' # <<Table(TheUrl(q)), pk[q]>>
      BY <1>6, <1>8, <3>2
    <3>4. QED
      BY <1>4, <1>6, <1>7, <3>1, <3>2, <3>3
  <2>6. QED
    BY <2>2, <2>3, <2>4, <2>5 DEF KeysAreOwned
<1>11. LinksPointToRows'
  <2>1. links'[u] \subseteq links[u] \cup added[r]
    BY <1>5 DEF LinksAfter
  <2>2. \A v \in Url : links'[v] \subseteq {Id(w) : w \in Present}
    BY <1>2, <1>3, <1>5, <2>1 DEF Safe, LinksPointToRows
  <2>3. {Id(w) : w \in Present} \subseteq {Id(w)' : w \in Present'}
    BY <1>6
  <2>4. \A v \in Url \ Present' : links'[v] = {}
    BY <1>5, <1>6 DEF Safe, LinksPointToRows
  <2>5. QED
    BY <2>2, <2>3, <2>4 DEF LinksPointToRows
<1>12. SetLinksAreTargets'
  <2> SUFFICES ASSUME NEW q \in InTransaction', NEW z \in Resources
               PROVE  IF z \in toSet'[q]
                      THEN \A id \in added'[q] : id[1] # z
                      ELSE Targets(TheUrl(q)', TheEdition(q)', z) # {} =>
                             \A v \in Present' \cap UrlsOf(z) :
                                Id(v)' \in LinksAfter(q, TheUrl(q))'
                                   => v \in Links[TheUrl(q)'][TheEdition(q)']
    BY DEF SetLinksAreTargets
  <2>1. LinksAfter(q, TheUrl(q))' = LinksAfter(q, TheUrl(q))
    BY <1>4, <1>5, <1>7 DEF LinksAfter
  <2>2. u \notin Present => Id(u)' \notin LinksAfter(q, TheUrl(q))
    BY <1>6, <1>7, <1>8 DEF LinksAfter
  <2>3. QED
    BY <1>4, <1>6, <1>7, <2>1, <2>2 DEF Safe, SetLinksAreTargets
<1>13. RowsAreWhole'
  <2> SUFFICES ASSUME NEW v \in Present', NEW z \in Resources,
                      Targets(v, value'[v], z) # {}, NEW id \in links'[v], id[1] = z
               PROVE  id \in {Id(w)' : w \in Targets(v, value'[v], z)}
    BY DEF RowsAreWhole, Targets
  <2>1. PICK w \in Present : id = Id(w)
    <3>1. links'[u] \subseteq links[u] \cup added[r]
      BY <1>5 DEF LinksAfter
    <3>2. QED
      BY <1>2, <1>3, <1>5, <1>6, <3>1 DEF Safe, LinksPointToRows
  <2>2. w \in UrlsOf(z) /\ Id(w)' = id
    BY <1>2, <1>6, <2>1, TableFacts DEF Id
  <2>3. w \in Links[v][value'[v]]
    <3>1. CASE v = u
      BY <1>1, <1>2, <1>3, <1>5, <2>1, <2>2, <3>1 DEF Safe, SetLinksAreTargets, Targets
    <3>2. CASE v # u
      <4>1. v \in Present /\ value'[v] = value[v] /\ links'[v] = links[v]
        BY <1>2, <1>5, <1>6, <3>2
      <4>2. PICK x \in Targets(v, value[v], z) : id = Id(x)
        BY <4>1 DEF Safe, RowsAreWhole
      <4>3. x \in Present
        BY <2>1, <4>2, TableFacts DEF Targets, Present, Id
      <4>4. x = w
        BY <2>1, <4>2, <4>3 DEF Safe, KeysAreOwned
      <4>5. QED
        BY <4>1, <4>2, <4>4 DEF Targets
    <3>3. QED
      BY <3>1, <3>2
  <2>4. QED
    BY <2>2, <2>3 DEF Targets
<1>14. QED
  BY <1>4, <1>9, <1>10, <1>11, <1>12, <1>13 DEF Safe

-----------------------------------------------------------------------------
LEMMA NextSafe == Safe /\ [Next]_vars => Safe'
<1> SUFFICES ASSUME Safe, [Next]_vars
             PROVE  Safe'
  OBVIOUS
<1>1. ASSUME NEW r \in Run, Step(r)
      PROVE  Safe'
  <2>1. CASE Fetch(r) \/ NextResource(r) \/ RecordAborts(r) \/ FetchFails(r)
    BY <2>1, BetweenRecordsSafe
  <2>2. CASE Upsert(r)
    BY <2>2, UpsertSafe
  <2>3. ASSUME NEW s \in Resources, SetLinks(r, s)
        PROVE  Safe'
    BY <2>3, SetLinksSafe
  <2>4. CASE Commit(r)
    BY <2>4, CommitSafe
  <2>5. CASE CommitRefused(r) \/ RecordFails(r)
    BY <2>5, RecordFailsSafe DEF CommitRefused
  <2>6. QED
    BY <1>1, <2>1, <2>2, <2>3, <2>4, <2>5 DEF Step, Progress
<1>2. CASE Environment
  BY <1>2, BetweenRecordsSafe, KillSafe, PublishSafe, DeleteRowSafe DEF Environment
<1>3. CASE UNCHANGED vars
  <2>1. TypeOK'
    BY <1>3 DEF vars, Safe, TypeOK
  <2>2. QED
    BY <1>3, <2>1, QuietSafe DEF vars, InTransaction, Safe, LocksAreHeld
<1>4. QED
  BY <1>1, <1>2, <1>3 DEF Next

\* Its first half holds by itself.
LEMMA SafeHolds == Spec => []Safe
BY InitSafe, NextSafe, PTL DEF Spec

\* Every variable keeps its type.
THEOREM SyncTypeCorrect == Spec => []TypeOK
<1>1. Safe => TypeOK
  BY DEF Safe
<1>2. QED
  BY <1>1, SafeHolds, PTL

\* Whatever overlaps, is killed or deleted, a link leads to a row that is there.
THEOREM LinksLeadToRows == Spec => []LinksPointToRows
<1>1. Safe => LinksPointToRows
  BY DEF Safe
<1>2. QED
  BY <1>1, SafeHolds, PTL

\* The columns and the links of a row are of one edition of its record.
THEOREM RowsStayWhole == Spec => []RowsAreWhole
<1>1. Safe => RowsAreWhole
  BY DEF Safe
<1>2. QED
  BY <1>1, SafeHolds, PTL

\* No sync, alone or beside another, gives an item another primary key.
THEOREM IdentitiesAreStable == Spec => IdentityIsStable
<1>1. Safe /\ [Next]_vars => [\A u \in Present : row'[u] \in {row[u], 0}]_vars
  <2> SUFFICES ASSUME Safe, [Next]_vars, NEW u \in Present
               PROVE  row'[u] \in {row[u], 0}
    OBVIOUS
  <2>1. u \in Url /\ row[u] # 0
    BY DEF Present
  <2>2. ASSUME NEW r \in Run, Commit(r)
        PROVE  row'[u] \in {row[u], 0}
    <3>1. row[TheUrl(r)] # 0 => pk[r] = row[TheUrl(r)]
      BY <2>2 DEF Commit, InTransaction, Safe, LocksAreHeld
    <3>2. row' = [row EXCEPT ![TheUrl(r)] = pk[r]]
      BY <2>2 DEF Commit
    <3>3. QED
      BY <2>1, <3>1, <3>2 DEF Safe, TypeOK
  <2>3. ASSUME NEW v \in Url, DeleteRow(v)
        PROVE  row'[u] \in {row[u], 0}
    BY <2>1, <2>3 DEF DeleteRow, Safe, TypeOK
  <2>4. \/ UNCHANGED row
        \/ \E r \in Run : Commit(r)
        \/ \E v \in Url : DeleteRow(v)
    BY DEF Next, vars, tables, Step, Progress, Fetch, NextResource, Upsert, WriteNothingYet,
        SetLinks, CommitRefused, RecordFails, RecordAborts, FetchFails, Environment, Start,
        Kill, Publish
  <2>5. QED
    BY <2>2, <2>3, <2>4
<1>2. QED
  BY <1>1, SafeHolds, PTL DEF Spec, IdentityIsStable
-----------------------------------------------------------------------------
(***************************************************************************)
(* The counters.                                                           *)
(***************************************************************************)
\* The number of records of each page.
PageSizes == [sp \in AllPages |-> Len(Catalog[sp[1]][sp[2]])]

\* There are finitely many pages, and each has a number of records.
LEMMA PageFacts ==
    /\ IsFiniteSet(AllPages)
    /\ PageSizes \in [AllPages -> Int]
    /\ \A s \in Resources : DOMAIN Catalog[s] \subseteq Nat \ {0}
    /\ \A s \in Resources : \A p \in DOMAIN Catalog[s] : <<s, p>> \in AllPages
    /\ \A sp \in AllPages : /\ sp = <<sp[1], sp[2]>>
                            /\ sp[1] \in Resources /\ sp[2] \in DOMAIN Catalog[sp[1]]
    /\ \A s \in Resources : \A p \in DOMAIN Catalog[s] : \A n \in Nat \ {0} :
          n \notin DOMAIN Catalog[s] => p < n
<1>1. \A s \in Resources : DOMAIN Catalog[s] = 1 .. Len(Catalog[s]) /\ Len(Catalog[s]) \in Nat
  <2>1. \A s \in Resources : Catalog[s] \in Seq(Seq(Url))
    BY CatalogFacts
  <2>2. QED
    BY <2>1
<1>2. ASSUME NEW s \in Resources
      PROVE  IsFiniteSet({s} \X DOMAIN Catalog[s])
  <2>1. PICK n \in Nat : DOMAIN Catalog[s] = 1 .. n
    BY <1>1
  <2>2. IsFiniteSet(DOMAIN Catalog[s])
    BY <2>1, FS_Interval
  <2>3. IsFiniteSet({s})
    BY FS_Singleton
  <2>4. QED
    BY <2>3, <2>2, FS_Product
<1>3. IsFiniteSet(AllPages)
  <2> DEFINE pages(s) == {s} \X DOMAIN Catalog[s]
             parts == {pages(s) : s \in Resources}
  <2>1. Catalog \in Seq(Seq(Seq(Url)))
    BY CatalogAssumption
  <2>2. Resources = 1 .. Len(Catalog) /\ Len(Catalog) \in Nat
    BY <2>1 DEF Resources
  <2>3. IsFiniteSet(Resources)
    BY <2>2, FS_Interval
  <2>4. \A e \in parts : IsFiniteSet(e)
    BY <1>2
  <2>5. IsFiniteSet(parts)
    <3> DEFINE f == [s \in Resources |-> pages(s)]
    <3>1. f \in Surjection(Resources, parts)
      BY DEF Surjection
    <3> HIDE DEF f, parts
    <3>2. QED
      BY <2>3, <3>1, FS_Surjection
  <2>6. AllPages = UNION parts
    BY DEF AllPages
  <2> HIDE DEF parts
  <2>7. QED
    BY <2>4, <2>5, <2>6, FS_UNION
<1>4. \A sp \in AllPages : /\ sp = <<sp[1], sp[2]>>
                           /\ sp[1] \in Resources /\ sp[2] \in DOMAIN Catalog[sp[1]]
  BY DEF AllPages
<1>5. ASSUME NEW s \in Resources, NEW p \in DOMAIN Catalog[s]
      PROVE  <<s, p>> \in AllPages
  <2>1. <<s, p>> \in {s} \X DOMAIN Catalog[s]
    OBVIOUS
  <2>2. QED
    BY <2>1 DEF AllPages
<1>6. ASSUME NEW sp \in AllPages
      PROVE  Len(Catalog[sp[1]][sp[2]]) \in Int
  <2>1. Catalog[sp[1]][sp[2]] \in Seq(Url)
    BY <1>4, CatalogFacts
  <2>2. QED
    BY <2>1
<1>7. PageSizes \in [AllPages -> Int]
  BY <1>6 DEF PageSizes
<1>8. QED
  BY <1>1, <1>3, <1>4, <1>5, <1>7, CatalogFacts

\* What the runs have to count, as a sum that can be reasoned about page by page.
FetchedAddsUp ==
    \A F, r : IsSum(F, PageSizes, AllPages) /\ IsFiniteSet(AllPages) => RecordsFetched(r) = F[PagesFetched(r)]

LEMMA FetchedSum == FetchedAddsUp
<1> SUFFICES ASSUME NEW F, NEW r, IsSum(F, PageSizes, AllPages), IsFiniteSet(AllPages)
             PROVE  RecordsFetched(r) = F[PagesFetched(r)]
  BY DEF FetchedAddsUp
<1> DEFINE P == PagesFetched(r)
           Body(g) == [s \in SUBSET P |->
                          IF s = {} THEN 0
                          ELSE Len(Catalog[Pick(s)[1]][Pick(s)[2]]) + g[s \ {Pick(s)}]]
           it == CHOOSE g : g = Body(g)
           part == [sp \in P |-> PageSizes[sp]]
<1>1. P \in SUBSET AllPages
  BY DEF PagesFetched
<1>2. IsFiniteSet(P)
  BY <1>1, FS_Subset
<1>3. PICK h : IsSum(h, part, P)
  <2> HIDE DEF P, part
  <2>1. QED BY <1>2, SumExists
<1>4. \A s \in SUBSET P : s # {} => part[Pick(s)] = Len(Catalog[Pick(s)[1]][Pick(s)[2]])
  BY <1>1, PickIn DEF PageSizes
<1>5. h = Body(h)
  <2> HIDE DEF P, part
  <2>1. QED BY <1>3, <1>4 DEF IsSum
<1> HIDE DEF Body
<1>6. it = Body(it)
  BY <1>5
<1> USE DEF Body
<1>7. IsSum(it, part, P)
  <2> HIDE DEF P, part, it
  <2>1. QED BY <1>6, <1>4 DEF IsSum
<1>8. RecordsFetched(r) = it[P]
  BY DEF MapThenSumSet, MapThenFoldSet, Pick, RecordsFetched
<1>9. it[P] = F[P]
  <2>1. \A x \in P : PageSizes[x] = part[x]
    OBVIOUS
  <2> HIDE DEF P, part, it
  <2>2. QED BY <1>1, <1>7, <2>1, SumPart
<1>10. QED
  BY <1>8, <1>9

\* One step of a run.
LEMMA CountStep ==
    ASSUME Safe, EveryRecordCounted, [Next]_vars
    PROVE  EveryRecordCounted'
<1>1. PICK F : IsSum(F, PageSizes, AllPages)
  BY PageFacts, SumExists
<1>2. \A r : RecordsFetched(r) = F[PagesFetched(r)]
  BY <1>1, FetchedSum, PageFacts DEF FetchedAddsUp
<1>3. FetchedAddsUp'
  BY FetchedSum, PTL
<1>4. \A r : RecordsFetched(r)' = F[PagesFetched(r)']
  BY <1>1, <1>3, PageFacts DEF FetchedAddsUp
<1> TypeOK
  BY DEF Safe
<1>5. ASSUME NEW r \in Run
      PROVE  /\ synced[r] \in Nat /\ errors[r] \in Nat
             /\ stage[r] \in Resources /\ stage[r] \in Nat /\ pageNo[r] \in Nat \ {0}
             /\ buffer[r] \in Seq(Url \X Editions) /\ Len(buffer[r]) \in Nat
  <2>1. buffer[r] \in Seq(Url \X Editions)
    BY DEF TypeOK
  <2>2. stage[r] \in Resources /\ stage[r] \in Nat
    BY CatalogFacts DEF TypeOK
  <2>3. QED
    BY <2>1, <2>2, LenProperties DEF TypeOK
<1>6. \A r \in Run : synced[r] + errors[r] + Len(buffer[r]) = F[PagesFetched(r)]
  BY <1>2 DEF EveryRecordCounted
<1>7. ASSUME \A r \in Run : synced'[r] + errors'[r] + Len(buffer'[r]) = F[PagesFetched(r)']
      PROVE  EveryRecordCounted'
  BY <1>4, <1>7 DEF EveryRecordCounted
\* The others than r are where they were.
<1>8. ASSUME NEW r \in Run,
             \A q \in Run \ {r} : /\ synced'[q] = synced[q] /\ errors'[q] = errors[q]
                                 /\ buffer'[q] = buffer[q]
                                 /\ stage'[q] = stage[q] /\ pageNo'[q] = pageNo[q],
             synced'[r] + errors'[r] + Len(buffer'[r]) = F[PagesFetched(r)']
      PROVE  EveryRecordCounted'
  <2>1. \A q \in Run \ {r} : PagesFetched(q)' = PagesFetched(q)
    BY <1>8 DEF PagesFetched
  <2>2. QED
    BY <1>6, <1>7, <1>8, <2>1
<1>9. ASSUME UNCHANGED <<stage, pageNo, buffer, synced, errors>>
      PROVE  EveryRecordCounted'
  <2>1. \A r \in Run : PagesFetched(r)' = PagesFetched(r)
    BY <1>9 DEF PagesFetched
  <2>2. QED
    BY <1>9, <1>6, <1>7, <2>1
<1>10. ASSUME NEW r \in Run, Fetch(r)
      PROVE  EveryRecordCounted'
  <2> DEFINE s == stage[r]
             p == pageNo[r]
             page == Catalog[s][p]
  <2>1. /\ buffer[r] = <<>> /\ p \in DOMAIN Catalog[s] /\ s \in Resources /\ p \in Nat /\ s \in Nat
        /\ buffer' = [buffer EXCEPT ![r] = [i \in DOMAIN page |-> <<page[i], edition[page[i]]>>]]
        /\ pageNo' = [pageNo EXCEPT ![r] = p + 1]
        /\ UNCHANGED <<stage, synced, errors>>
    BY <1>5, <1>10 DEF Fetch, counts
  <2>2. <<s, p>> \in AllPages /\ PageSizes[<<s, p>>] = Len(page)
    BY <2>1, PageFacts DEF PageSizes
  <2>3. PagesFetched(r)' = PagesFetched(r) \cup {<<s, p>>}
    <3>1. \A sp \in AllPages : sp[2] \in Nat /\ sp = <<sp[1], sp[2]>>
      BY <2>1, PageFacts
    <3>2. stage'[r] = s /\ pageNo'[r] = p + 1
      BY <2>1 DEF TypeOK
    <3>3. PagesFetched(r)' =
             {sp \in AllPages : sp[1] < s \/ (sp[1] = s /\ sp[2] < p + 1)}
      BY <3>2, <2>1 DEF PagesFetched
    <3> HIDE DEF s, p
    <3>4. PagesFetched(r) = {sp \in AllPages : sp[1] < s \/ (sp[1] = s /\ sp[2] < p)}
      BY DEF PagesFetched, s, p
    <3>5. ASSUME NEW sp \in AllPages
          PROVE  (sp[1] < s \/ (sp[1] = s /\ sp[2] < p + 1))
                    <=> (sp[1] < s \/ (sp[1] = s /\ sp[2] < p)) \/ sp = <<s, p>>
      <4>1. sp[2] < p + 1 <=> (sp[2] < p \/ sp[2] = p)
        <5>1. sp[2] \in Nat /\ p \in Nat
          BY <2>1, <3>1
        <5>2. QED
          BY <5>1
      <4>2. sp = <<s, p>> <=> (sp[1] = s /\ sp[2] = p)
        BY <3>1
      <4>3. QED
        BY <4>1, <4>2
    <3>6. QED
      BY <2>2, <3>3, <3>4, <3>5 DEF s, p
  <2>4. <<s, p>> \notin PagesFetched(r) /\ PagesFetched(r) \in SUBSET AllPages
    BY <2>1 DEF PagesFetched
  <2>5. F[PagesFetched(r)'] = F[PagesFetched(r)] + Len(page)
    <3>1. IsFiniteSet(AllPages) /\ PageSizes \in [AllPages -> Int]
      BY PageFacts
    <3>2. PICK done \in SUBSET AllPages : done = PagesFetched(r)
      BY <2>4
    <3>3. PICK next \in AllPages : next = <<s, p>>
      BY <2>2
    <3>4. next \notin done
      BY <2>4, <3>2, <3>3
    <3>5. PICK sizes \in [AllPages -> Int] : sizes = PageSizes
      BY <3>1
    <3>6. PICK more : more = done \cup {next}
      OBVIOUS
    <3>7. F[more] = F[done] + sizes[next]
      BY <1>1, <3>1, <3>4, <3>5, <3>6, SumAdd
    <3>8. QED
      BY <2>2, <2>3, <3>2, <3>3, <3>5, <3>6, <3>7
  <2>6. Len(buffer'[r]) = Len(page)
    <3>1. page \in Seq(Url)
      BY <2>1, CatalogFacts
    <3> HIDE DEF page
    <3>2. buffer'[r] = [i \in 1 .. Len(page) |-> <<page[i], edition[page[i]]>>]
      BY <2>1, <3>1 DEF TypeOK
    <3>3. Len(page) \in Nat
      BY <3>1
    <3>4. QED
      BY <3>2, <3>3
  <2> HIDE DEF page
  <2>7. synced'[r] + errors'[r] + Len(buffer'[r]) = F[PagesFetched(r)']
    <3>1. Len(buffer[r]) = 0 /\ synced[r] + errors[r] + 0 = F[PagesFetched(r)]
      BY <1>6, <2>1
    <3>2. QED
      BY <1>5, <2>1, <2>5, <2>6, <3>1
  <2>8. QED
    BY <1>8, <2>1, <2>7 DEF TypeOK
<1>11. ASSUME NEW r \in Run, NextResource(r)
       PROVE  EveryRecordCounted'
  <2>1. /\ pageNo[r] \notin DOMAIN Catalog[stage[r]] /\ UNCHANGED <<buffer, synced, errors>>
    BY <1>11 DEF NextResource, counts
  <2>2. CASE UNCHANGED <<stage, pageNo>>
    BY <2>1, <2>2, <1>9
  <2>3. CASE ~ UNCHANGED <<stage, pageNo>>
    <3>1. /\ stage' = [stage EXCEPT ![r] = stage[r] + 1]
          /\ pageNo' = [pageNo EXCEPT ![r] = 1]
      BY <1>11, <2>3 DEF NextResource, place, After
    <3>2. PagesFetched(r)' = PagesFetched(r)
      <4>1. \A sp \in AllPages : sp[1] = stage[r] => sp[2] < pageNo[r]
        BY <1>5, <2>1, PageFacts
      <4>2. \A sp \in AllPages : sp[1] \in Nat /\ sp[2] \in Nat \ {0}
        BY PageFacts, CatalogFacts
      <4>3. stage'[r] = stage[r] + 1 /\ pageNo'[r] = 1
        BY <3>1 DEF TypeOK
      <4>4. PagesFetched(r)' =
               {sp \in AllPages : sp[1] < stage[r] + 1 \/ (sp[1] = stage[r] + 1 /\ sp[2] < 1)}
        BY <4>3 DEF PagesFetched
      <4>5. PagesFetched(r) = {sp \in AllPages : sp[1] < stage[r] \/ sp[1] = stage[r]}
        BY <4>1 DEF PagesFetched
      <4>6. ASSUME NEW sp \in AllPages
            PROVE  (sp[1] < stage[r] + 1 \/ (sp[1] = stage[r] + 1 /\ sp[2] < 1))
                      <=> (sp[1] < stage[r] \/ sp[1] = stage[r])
        <5>1. sp[1] \in Nat /\ sp[2] \in Nat \ {0}
          BY <4>2
        <5>2. stage[r] \in Nat
          BY <1>5
        <5>3. ~ (sp[2] < 1)
          BY <5>1
        <5>4. QED
          BY <5>1, <5>3, <5>2
      <4>7. QED
        BY <4>4, <4>5, <4>6
    <3>3. QED
      BY <1>6, <1>8, <2>1, <3>1, <3>2 DEF TypeOK
  <2>4. QED
    BY <2>2, <2>3
<1>12. ASSUME NEW r \in Run, Commit(r) \/ RecordFails(r)
       PROVE  EveryRecordCounted'
  <2>1. buffer[r] # <<>>
    BY <1>12 DEF RecordFails, Commit, Safe, LocksAreHeld, InTransaction
  <2>2. /\ buffer' = [buffer EXCEPT ![r] = Tail(buffer[r])]
        /\ UNCHANGED <<stage, pageNo>>
        /\ \/ synced' = [synced EXCEPT ![r] = @ + 1] /\ errors' = errors
           \/ errors' = [errors EXCEPT ![r] = @ + 1] /\ synced' = synced
    BY <1>12 DEF Commit, RecordFails, CountError, EndRecord, place
  <2>3. Len(buffer'[r]) = Len(buffer[r]) - 1
    <3>1. Len(Tail(buffer[r])) = Len(buffer[r]) - 1
      BY <1>5, <2>1, HeadTailProperties
    <3>2. QED
      BY <2>2, <3>1 DEF TypeOK
  <2>4. synced'[r] + errors'[r] = synced[r] + errors[r] + 1
    BY <1>5, <2>2 DEF TypeOK
  <2>5. PagesFetched(r)' = PagesFetched(r)
    BY <2>2 DEF PagesFetched
  <2>6. synced'[r] + errors'[r] + Len(buffer'[r]) = F[PagesFetched(r)']
    BY <1>5, <1>6, <2>3, <2>4, <2>5
  <2>7. QED
    BY <1>8, <2>2, <2>6 DEF TypeOK
<1>13. CASE UNCHANGED vars
  BY <1>13, <1>9 DEF vars, place, counts
<1>14. ASSUME NEW r \in Run, Start(r) \/ FetchFails(r) \/ Upsert(r) \/ RecordAborts(r) \/ Kill(r)
       PROVE  EveryRecordCounted'
  BY <1>14, <1>9 DEF Start, FetchFails, Upsert, RecordAborts, Kill, place, counts
<1>15. ASSUME NEW r \in Run, NEW s \in Resources, SetLinks(r, s)
       PROVE  EveryRecordCounted'
  BY <1>15, <1>9 DEF SetLinks, place, counts
<1>16. ASSUME NEW u \in Url, Publish(u) \/ DeleteRow(u)
       PROVE  EveryRecordCounted'
  BY <1>16, <1>9 DEF Publish, DeleteRow, place, counts
<1>17. QED
  BY <1>10, <1>11, <1>12, <1>13, <1>14, <1>15, <1>16
  DEF Next, Step, Progress, Environment, CommitRefused

\* Every record of the pages that a run has fetched is counted once, or still
\* ahead of it: whatever fails, is rolled back or is killed.
THEOREM EveryRecordIsCounted == Spec => []EveryRecordCounted
<1>1. ASSUME Init
      PROVE  EveryRecordCounted
  <2>1. PICK F : IsSum(F, PageSizes, AllPages)
    BY PageFacts, SumExists
  <2>2. \A r : RecordsFetched(r) = F[PagesFetched(r)]
    BY <2>1, FetchedSum, PageFacts DEF FetchedAddsUp
  <2>3. ASSUME NEW r \in Run
        PROVE  synced[r] + errors[r] + Len(buffer[r]) = RecordsFetched(r)
    <3>1. \A sp \in AllPages : sp[1] \in Nat \ {0} /\ sp[2] \in Nat \ {0}
      BY PageFacts, CatalogFacts
    <3>2. PagesFetched(r) = {}
      BY <1>1, <3>1 DEF Init, PagesFetched
    <3>3. F[{}] = 0
      BY <2>1, SumEmpty
    <3>4. synced[r] = 0 /\ errors[r] = 0 /\ Len(buffer[r]) = 0
      BY <1>1, EmptySeq DEF Init
    <3>5. RecordsFetched(r) = 0
      BY <2>2, <3>2, <3>3
    <3>6. QED
      BY <3>4, <3>5
  <2>4. QED
    BY <2>3 DEF EveryRecordCounted
<1>2. Safe /\ EveryRecordCounted /\ [Next]_vars => EveryRecordCounted'
  BY CountStep
<1>3. QED
  BY <1>1, <1>2, SafeHolds, PTL DEF Spec

-----------------------------------------------------------------------------
(***************************************************************************)
(* The other half of IInv: clean runs mirror SWAPI.  Most steps move one    *)
(* run, write no row and bring no record behind the run.                   *)
(***************************************************************************)
\* A run that does not move passes no record.
LEMMA PassedRests ==
    ASSUME NEW q \in Run, NEW u \in Url,
           at'[q] = at[q], calm'[q] = calm[q], errors'[q] = errors[q],
           buffer'[q] = buffer[q], stage'[q] = stage[q], pageNo'[q] = pageNo[q]
    PROVE  Passed(q, u)' <=> Passed(q, u)
<1>1. u \in Ahead(q)' <=> u \in Ahead(q)
  BY DEF Ahead
<1>2. q \in Active' <=> q \in Active
  BY DEF Active
<1>3. QED
  BY <1>1, <1>2 DEF Passed

LEMMA SettledStep ==
    ASSUME NEW r \in Run,
           \A q \in Run \ {r} :
              /\ at'[q] = at[q] /\ calm'[q] = calm[q] /\ errors'[q] = errors[q]
              /\ buffer'[q] = buffer[q] /\ stage'[q] = stage[q] /\ pageNo'[q] = pageNo[q],
           NEW u \in Url, Passed(r, u)' => Passed(r, u), Settled(u)'
    PROVE  Settled(u)
<1>1. PICK q \in Run : Passed(q, u)'
  BY DEF Settled
<1>2. CASE q = r
  BY <1>1, <1>2 DEF Settled
<1>3. CASE q # r
  <2>1. Passed(q, u)' <=> Passed(q, u)
    BY <1>3, PassedRests
  <2>2. QED
    BY <1>1, <2>1 DEF Settled
<1>4. QED
  BY <1>2, <1>3

\* What a step of one run leaves current.
LEMMA OneRunIsCurrent ==
    ASSUME RunsAreCurrent, NEW r \in Run, UNCHANGED <<edition, calm>>,
           \A q \in Run \ {r} :
              /\ at'[q] = at[q] /\ stage'[q] = stage[q] /\ pageNo'[q] = pageNo[q]
              /\ buffer'[q] = buffer[q] /\ removed'[q] = removed[q] /\ toSet'[q] = toSet[q],
           at'[r] # "queued", r \in Active,
           \A i \in DOMAIN buffer'[r] :
              /\ buffer'[r][i][1] \in UrlsOf(stage'[r])
              /\ calm[r] => buffer'[r][i][2] = edition[buffer'[r][i][1]],
           r \notin InTransaction' => removed'[r] = {},
           r \in InTransaction' => \A id \in removed'[r] : id[1] \notin toSet'[r]
    PROVE  RunsAreCurrent'
<1>1. Active' \subseteq Active /\ \A q \in Run \ {r} : q \in InTransaction' <=> q \in InTransaction
  BY DEF Active, InTransaction
<1>2. \A p, q \in Active' : calm'[p] = calm'[q]
  BY <1>1 DEF RunsAreCurrent
<1>3. \A q \in Run : at'[q] = "queued" => stage'[q] = 1 /\ pageNo'[q] = 1 /\ buffer'[q] = <<>>
  BY DEF RunsAreCurrent
<1>4. ASSUME NEW q \in Run, NEW i \in DOMAIN buffer'[q]
      PROVE  /\ buffer'[q][i][1] \in UrlsOf(stage'[q])
             /\ q \in Active' /\ calm'[q] => buffer'[q][i][2] = edition'[buffer'[q][i][1]]
  <2>1. CASE q = r
    BY <2>1
  <2>2. CASE q # r
    BY <1>1, <2>2 DEF RunsAreCurrent
  <2>3. QED
    BY <2>1, <2>2
<1>5. ASSUME NEW q \in Run \ InTransaction'
      PROVE  removed'[q] = {}
  BY <1>1 DEF RunsAreCurrent
<1>6. ASSUME NEW q \in InTransaction'
      PROVE  \A id \in removed'[q] : id[1] \notin toSet'[q]
  BY <1>1 DEF RunsAreCurrent, InTransaction
<1>7. QED
  BY <1>2, <1>3, <1>4, <1>5, <1>6 DEF RunsAreCurrent, UrlsOf

\* Nothing is written, nothing passed, and a transaction that begins has set no links.
LEMMA NothingPassed ==
    ASSUME CleanKept, UNCHANGED <<edition, row, value, links>>,
           \A u \in Url : Settled(u)' => Settled(u),
           \A q \in InTransaction' :
              \/ /\ q \in InTransaction /\ TheUrl(q) \in Url
                 /\ calm'[q] = calm[q] /\ errors'[q] = errors[q]
                 /\ buffer'[q] = buffer[q] /\ toSet'[q] = toSet[q]
                 /\ added'[q] = added[q] /\ removed'[q] = removed[q]
              \/ calm'[q] => \A s \in Resources \ toSet'[q] :
                           Targets(TheUrl(q)', edition'[TheUrl(q)'], s) = {}
    PROVE  WritesMirror' /\ SettledIsMirrored'
<1>1. Present' = Present /\ \A v : Id(v)' = Id(v)
  BY DEF Present, Id
<1>2. ASSUME NEW q \in InTransaction', calm'[q], errors'[q] = 0 \/ Settled(TheUrl(q))',
             NEW s \in Resources \ toSet'[q], Targets(TheUrl(q)', edition'[TheUrl(q)'], s) # {}
      PROVE  /\ Targets(TheUrl(q)', edition'[TheUrl(q)'], s) \subseteq Present'
             /\ {id \in LinksAfter(q, TheUrl(q))' : id[1] = s} =
                   {Id(v)' : v \in Targets(TheUrl(q)', edition'[TheUrl(q)'], s)}
  <2>1. /\ q \in InTransaction /\ TheUrl(q) \in Url
        /\ calm'[q] = calm[q] /\ errors'[q] = errors[q]
        /\ buffer'[q] = buffer[q] /\ toSet'[q] = toSet[q]
        /\ added'[q] = added[q] /\ removed'[q] = removed[q]
    BY <1>2
  <2>2. PICK u \in Url : u = TheUrl(q) /\ u = TheUrl(q)'
    BY <2>1 DEF TheUrl
  <2>3. LinksAfter(q, u)' = LinksAfter(q, u)
    BY <2>1 DEF LinksAfter
  <2>4. errors[q] = 0 \/ Settled(u)
    <3>1. Settled(u)' => Settled(u)
      OBVIOUS
    <3>2. Settled(TheUrl(q))' => Settled(u)'
      BY <2>2 DEF Settled, Passed
    <3>3. QED
      BY <1>2, <2>1, <3>1, <3>2
  <2>5. /\ Targets(u, edition[u], s) \subseteq Present
        /\ {id \in LinksAfter(q, u) : id[1] = s} = {Id(v) : v \in Targets(u, edition[u], s)}
    BY <1>2, <2>1, <2>2, <2>4 DEF CleanKept, WritesMirror
  <2>6. QED
    BY <1>1, <2>2, <2>3, <2>5
<1>3. ASSUME NEW u \in Url, Settled(u)'
      PROVE  Mirrored(u)'
  <2>1. Mirrored(u)
    BY <1>3 DEF CleanKept, SettledIsMirrored
  <2>2. QED
    BY <1>1, <2>1 DEF Mirrored, Mirrors, Targets
<1>4. QED
  BY <1>2, <1>3 DEF WritesMirror, SettledIsMirrored

\* The steps of a run that write nothing and pass nothing.
LEMMA OneRunKeepsClean ==
    ASSUME Safe, CleanKept, NEW r \in Run, UNCHANGED <<edition, row, value, links, calm>>,
           \A q \in Run \ {r} :
              /\ at'[q] = at[q] /\ stage'[q] = stage[q] /\ pageNo'[q] = pageNo[q]
              /\ buffer'[q] = buffer[q] /\ removed'[q] = removed[q] /\ toSet'[q] = toSet[q]
              /\ added'[q] = added[q] /\ errors'[q] = errors[q],
           at'[r] # "queued", r \in Active,
           \A i \in DOMAIN buffer'[r] :
              /\ buffer'[r][i][1] \in UrlsOf(stage'[r])
              /\ calm[r] => buffer'[r][i][2] = edition[buffer'[r][i][1]],
           r \notin InTransaction' => removed'[r] = {},
           r \in InTransaction' => \A id \in removed'[r] : id[1] \notin toSet'[r],
           r \in InTransaction' /\ calm[r] =>
              \A s \in Resources \ toSet'[r] : Targets(TheUrl(r)', edition[TheUrl(r)'], s) = {},
           \A u \in Url : Passed(r, u)' => Passed(r, u)
    PROVE  CleanKept'
<1>1. RunsAreCurrent'
  BY OneRunIsCurrent DEF CleanKept
<1>2. \A u \in Url : Settled(u)' => Settled(u)
  BY SettledStep
<1>3. ASSUME NEW q \in InTransaction', q # r
      PROVE  q \in InTransaction /\ TheUrl(q) \in Url
  <2>1. q \in InTransaction /\ q \in Run
    BY <1>3 DEF InTransaction
  <2>2. QED
    BY <2>1, RecordFacts DEF Safe, LocksAreHeld
<1>4. \A q \in InTransaction' :
         \/ /\ q \in InTransaction /\ TheUrl(q) \in Url
            /\ calm'[q] = calm[q] /\ errors'[q] = errors[q]
            /\ buffer'[q] = buffer[q] /\ toSet'[q] = toSet[q]
            /\ added'[q] = added[q] /\ removed'[q] = removed[q]
         \/ calm'[q] => \A s \in Resources \ toSet'[q] :
                              Targets(TheUrl(q)', edition'[TheUrl(q)'], s) = {}
  BY <1>3 DEF InTransaction
<1>5. WritesMirror' /\ SettledIsMirrored'
  BY <1>2, <1>4, NothingPassed
<1>6. QED
  BY <1>1, <1>5 DEF CleanKept

\* The records that a run has in hand, and what of it comes next.
LEMMA InHand ==
    ASSUME TypeOK, RunsAreCurrent, NEW r \in Run, buffer[r] # <<>>
    PROVE  /\ 1 \in DOMAIN buffer[r] /\ Head(buffer[r]) = buffer[r][1]
           /\ TheUrl(r) \in UrlsOf(stage[r]) /\ TheUrl(r) \in Url
           /\ stage[r] \in Resources /\ Table(TheUrl(r)) = stage[r]
           /\ r \in Active /\ calm[r] => TheEdition(r) = edition[TheUrl(r)]
           /\ \A i \in DOMAIN Tail(buffer[r]) :
                 i + 1 \in DOMAIN buffer[r] /\ Tail(buffer[r])[i] = buffer[r][i + 1]
           /\ \A i \in DOMAIN buffer[r] :
                 i # 1 => i - 1 \in DOMAIN Tail(buffer[r])
                            /\ Tail(buffer[r])[i - 1] = buffer[r][i]
<1>1. buffer[r] \in Seq(Url \X Editions) /\ stage[r] \in Resources
  BY DEF TypeOK
<1>2. 1 \in DOMAIN buffer[r] /\ Head(buffer[r]) = buffer[r][1]
  BY <1>1
<1>3. /\ \A i \in DOMAIN Tail(buffer[r]) :
            i + 1 \in DOMAIN buffer[r] /\ Tail(buffer[r])[i] = buffer[r][i + 1]
      /\ \A i \in DOMAIN buffer[r] :
            i # 1 => i - 1 \in DOMAIN Tail(buffer[r]) /\ Tail(buffer[r])[i - 1] = buffer[r][i]
  BY <1>1
<1>4. TheUrl(r) = buffer[r][1][1] /\ TheEdition(r) = buffer[r][1][2]
  BY <1>2 DEF TheUrl, TheEdition
<1>5. /\ TheUrl(r) \in UrlsOf(stage[r])
      /\ r \in Active /\ calm[r] => TheEdition(r) = edition[TheUrl(r)]
  BY <1>2, <1>4 DEF RunsAreCurrent
<1>6. QED
  BY <1>1, <1>2, <1>3, <1>5, TableFacts

LEMMA InitClean == Init => CleanKept
<1> SUFFICES ASSUME Init PROVE CleanKept
  OBVIOUS
<1>1. Active = {} /\ InTransaction = {}
  BY DEF Init, Active, InTransaction, Working
<1>2. \A r \in Run : buffer[r] = <<>> /\ stage[r] = 1 /\ pageNo[r] = 1 /\ removed[r] = {}
  BY DEF Init
<1>3. \A u \in Url : edition[u] \in DOMAIN Links[u]
  BY CatalogAssumption DEF Init
<1>4. RunsAreCurrent
  BY <1>1, <1>2, <1>3 DEF RunsAreCurrent
<1>5. WritesMirror /\ SettledIsMirrored
  BY <1>1 DEF WritesMirror, SettledIsMirrored, Settled, Passed
<1>6. QED
  BY <1>4, <1>5 DEF CleanKept

\* A run that starts has everything ahead of it.
LEMMA StartKeepsClean ==
    ASSUME Safe, CleanKept, NEW r \in Run, Start(r)
    PROVE  CleanKept'
<1>1. /\ UNCHANGED <<edition, row, value, links, stage, pageNo, buffer, toSet, added, removed, errors>>
      /\ at[r] = "queued" /\ at'[r] = "iterate" /\ calm'[r] = (\A q \in Active : calm[q])
      /\ \A q \in Run \ {r} : at'[q] = at[q] /\ calm'[q] = calm[q]
  BY DEF Start, tables, place, trans, counts, Safe, TypeOK
<1>2. stage[r] = 1 /\ pageNo[r] = 1 /\ buffer[r] = <<>> /\ r \notin Active
  BY <1>1 DEF CleanKept, RunsAreCurrent, Active, Working
<1>3. Active' = Active \cup {r} /\ InTransaction' = InTransaction /\ InTransaction \subseteq Run
  BY <1>1 DEF Active, Working, InTransaction
<1>4. RunsAreCurrent'
  <2>1. \A p, q \in Active' : calm'[p] = calm'[q]
    <3>1. \A q \in Active : calm[q] \in BOOLEAN /\ calm'[q] = calm[q]
      BY <1>1, <1>2 DEF Active, Safe, TypeOK
    <3>2. \A p, q \in Active : calm[p] = calm[q]
      BY DEF CleanKept, RunsAreCurrent
    <3>3. CASE \A q \in Active : calm[q] = TRUE
      <4>1. calm'[r] = TRUE
        BY <1>1, <3>3
      <4>2. QED
        BY <1>3, <3>1, <3>3, <4>1
    <3>4. CASE \E q \in Active : calm[q] = FALSE
      <4>1. calm'[r] = FALSE
        BY <1>1, <3>4
      <4>2. \A q \in Active : calm[q] = FALSE
        BY <3>2, <3>4
      <4>3. QED
        BY <1>3, <3>1, <4>1, <4>2
    <3>5. QED
      BY <3>1, <3>3, <3>4
  <2>2. \A q \in Run : at'[q] = "queued" => stage'[q] = 1 /\ pageNo'[q] = 1 /\ buffer'[q] = <<>>
    BY <1>1 DEF CleanKept, RunsAreCurrent
  <2>3. ASSUME NEW q \in Run, NEW i \in DOMAIN buffer'[q]
        PROVE  /\ buffer'[q][i][1] \in UrlsOf(stage'[q])
               /\ q \in Active' /\ calm'[q] => buffer'[q][i][2] = edition'[buffer'[q][i][1]]
    BY <1>1, <1>2, <1>3 DEF CleanKept, RunsAreCurrent
  <2>4. /\ \A q \in Run \ InTransaction' : removed'[q] = {}
        /\ \A q \in InTransaction' : \A id \in removed'[q] : id[1] \notin toSet'[q]
        /\ \A u \in Url : edition'[u] \in DOMAIN Links[u]
    BY <1>1, <1>3 DEF CleanKept, RunsAreCurrent
  <2>5. QED
    BY <2>1, <2>2, <2>3, <2>4 DEF RunsAreCurrent, UrlsOf
<1>5. \A u \in Url : u \in Ahead(r)'
  <2> SUFFICES ASSUME NEW u \in Url
               PROVE  u \in Ahead(r)'
    OBVIOUS
  <2>1. stage'[r] = 1 /\ pageNo'[r] = 1
    BY <1>1, <1>2
  <2>2. Table(u) \in Resources /\ u \in UrlsOf(Table(u)) /\ Table(u) \in Nat \ {0}
    BY TableFacts, CatalogFacts
  <2>3. CASE Table(u) = 1
    <3>1. PICK p \in DOMAIN Catalog[1] : \E i \in DOMAIN Catalog[1][p] : Catalog[1][p][i] = u
      BY <2>2, <2>3 DEF UrlsOf
    <3>2. p \in Nat \ {0}
      BY <2>2, <2>3, PageFacts
    <3>3. QED
      BY <2>1, <3>1, <3>2 DEF Ahead
  <2>4. CASE Table(u) # 1
    BY <2>1, <2>2, <2>4 DEF Ahead
  <2>5. QED
    BY <2>3, <2>4
<1>6. \A u \in Url : Settled(u)' => Settled(u)
  BY <1>1, <1>5, SettledStep DEF Passed
<1>7. ASSUME NEW q \in InTransaction'
      PROVE  /\ q \in InTransaction /\ TheUrl(q) \in Url
             /\ calm'[q] = calm[q] /\ errors'[q] = errors[q]
             /\ buffer'[q] = buffer[q] /\ toSet'[q] = toSet[q]
             /\ added'[q] = added[q] /\ removed'[q] = removed[q]
  <2>1. q \in InTransaction /\ q # r
    BY <1>1, <1>3 DEF InTransaction
  <2>2. QED
    BY <1>1, <1>3, <2>1, RecordFacts DEF Safe, LocksAreHeld
<1>8. WritesMirror' /\ SettledIsMirrored'
  BY <1>1, <1>6, <1>7, NothingPassed
<1>9. QED
  BY <1>4, <1>8 DEF CleanKept

\* The records of a page stay ahead when they move into the buffer.
LEMMA FetchKeepsClean ==
    ASSUME Safe, CleanKept, NEW r \in Run, Fetch(r)
    PROVE  CleanKept'
<1> DEFINE pages == Catalog[stage[r]]
           page  == pages[pageNo[r]]
           read  == [i \in DOMAIN page |-> <<page[i], edition[page[i]]>>]
<1>1. /\ UNCHANGED <<edition, row, value, links, calm, at, stage, toSet, added, removed, errors>>
      /\ at[r] = "iterate" /\ buffer[r] = <<>> /\ pageNo[r] \in DOMAIN pages
      /\ buffer' = [buffer EXCEPT ![r] = read] /\ pageNo' = [pageNo EXCEPT ![r] = @ + 1]
  BY DEF Fetch, tables, trans, counts
<1>2. /\ stage[r] \in Resources /\ pageNo[r] \in Nat
      /\ buffer'[r] = read /\ pageNo'[r] = pageNo[r] + 1
      /\ \A q \in Run \ {r} : buffer'[q] = buffer[q] /\ pageNo'[q] = pageNo[q]
  BY <1>1 DEF Safe, TypeOK
<1>3. r \in Active /\ r \notin InTransaction /\ InTransaction' = InTransaction /\ Active' = Active
  BY <1>1 DEF Active, Working, InTransaction
<1>4. removed[r] = {}
  BY <1>3 DEF CleanKept, RunsAreCurrent
<1>5. \A i \in DOMAIN read : read[i] = <<page[i], edition[page[i]]>> /\ page[i] \in UrlsOf(stage[r])
  <2>1. \A i \in DOMAIN read : i \in DOMAIN page /\ read[i] = <<page[i], edition[page[i]]>>
    OBVIOUS
  <2>2. ASSUME NEW i \in DOMAIN page
        PROVE  page[i] \in UrlsOf(stage[r])
    <3>1. page[i] \in {pages[pageNo[r]][j] : j \in DOMAIN pages[pageNo[r]]}
      OBVIOUS
    <3>2. QED
      BY <1>1, <3>1 DEF UrlsOf
  <2>3. QED
    BY <2>1, <2>2
<1>6. ASSUME NEW u \in Url, Passed(r, u)'
      PROVE  Passed(r, u)
  <2>1. r \in Active /\ calm[r] /\ errors[r] = 0 /\ u \notin Ahead(r)'
    BY <1>1, <1>3, <1>6 DEF Passed
  <2>2. ASSUME u \in Ahead(r)
        PROVE  u \in Ahead(r)'
    <3>1. CASE Table(u) > stage[r]
      BY <1>1, <3>1 DEF Ahead
    <3>2. ASSUME NEW p \in DOMAIN pages, p >= pageNo[r], NEW i \in DOMAIN pages[p], pages[p][i] = u
          PROVE  u \in Ahead(r)'
      <4>1. p \in Nat
        BY <1>2, PageFacts
      <4>2. CASE p = pageNo[r]
        <5>1. i \in DOMAIN read /\ read[i][1] = u
          BY <1>5, <3>2, <4>2
        <5>2. QED
          BY <1>2, <5>1 DEF Ahead
      <4>3. CASE p # pageNo[r]
        <5>1. p >= pageNo'[r]
          BY <1>2, <3>2, <4>1, <4>3
        <5>2. QED
          BY <1>1, <3>2, <5>1 DEF Ahead
      <4>4. QED
        BY <4>2, <4>3
    <3>3. \/ Table(u) > stage[r]
          \/ \E p \in DOMAIN pages : p >= pageNo[r] /\ \E i \in DOMAIN pages[p] : pages[p][i] = u
      BY <1>1, <2>2 DEF Ahead
    <3>4. QED
      BY <3>1, <3>2, <3>3
  <2>3. QED
    BY <2>1, <2>2 DEF Passed
<1> HIDE DEF read, page, pages
<1>7. QED
  BY <1>1, <1>2, <1>3, <1>4, <1>5, <1>6, OneRunKeepsClean

\* The records of the next resource were ahead before, and those of this one are
\* behind.
LEMMA NextResourceKeepsClean ==
    ASSUME Safe, CleanKept, NEW r \in Run, NextResource(r)
    PROVE  CleanKept'
<1>1. /\ UNCHANGED <<edition, row, value, links, calm, buffer, toSet, added, removed, errors>>
      /\ at[r] = "iterate" /\ buffer[r] = <<>> /\ pageNo[r] \notin DOMAIN Catalog[stage[r]]
      /\ \/ /\ stage[r] + 1 \in Resources
            /\ stage' = [stage EXCEPT ![r] = stage[r] + 1] /\ pageNo' = [pageNo EXCEPT ![r] = 1]
            /\ UNCHANGED at
         \/ at' = [at EXCEPT ![r] = "finished"] /\ UNCHANGED <<stage, pageNo>>
  BY DEF NextResource, After, tables, trans, counts, place
<1>2. /\ stage[r] \in Resources /\ stage[r] \in Nat /\ pageNo[r] \in Nat \ {0}
      /\ \A q \in Run \ {r} : at'[q] = at[q] /\ stage'[q] = stage[q] /\ pageNo'[q] = pageNo[q]
  BY <1>1, CatalogFacts DEF Safe, TypeOK
<1>3. /\ r \in Active /\ r \notin InTransaction /\ r \notin InTransaction' /\ at'[r] # "queued"
  BY <1>1 DEF Active, Working, InTransaction, Safe, TypeOK
<1>4. removed[r] = {}
  BY <1>3 DEF CleanKept, RunsAreCurrent
<1>5. ASSUME NEW u \in Url, Passed(r, u)'
      PROVE  Passed(r, u)
  <2>1. /\ stage[r] + 1 \in Resources
        /\ stage'[r] = stage[r] + 1 /\ pageNo'[r] = 1
    <3>1. r \in Active'
      BY <1>5 DEF Passed
    <3>2. at'[r] # "finished"
      BY <3>1 DEF Active, Working
    <3>3. QED
      BY <1>1, <3>2 DEF Safe, TypeOK
  <2>2. calm[r] /\ errors[r] = 0 /\ u \notin Ahead(r)'
    BY <1>1, <1>5 DEF Passed
  <2>3. Table(u) \in Nat /\ Table(u) \in Resources /\ u \in UrlsOf(Table(u))
    BY TableFacts, CatalogFacts
  <2>4. Table(u) # stage[r] + 1
    <3>1. SUFFICES ASSUME Table(u) = stage[r] + 1
                   PROVE  u \in Ahead(r)'
      BY <2>2
    <3>2. PICK p \in DOMAIN Catalog[stage'[r]] :
             \E i \in DOMAIN Catalog[stage'[r]][p] : Catalog[stage'[r]][p][i] = u
      BY <2>1, <2>3, <3>1 DEF UrlsOf
    <3>3. p >= pageNo'[r]
      BY <2>1, <3>2, PageFacts
    <3>4. QED
      BY <3>2, <3>3 DEF Ahead
  <2>5. ~ (Table(u) > stage[r] + 1)
    BY <2>1, <2>2 DEF Ahead
  <2>6. ~ (Table(u) > stage[r])
    BY <1>2, <2>3, <2>4, <2>5
  <2>7. \A p \in DOMAIN Catalog[stage[r]] : ~ (p >= pageNo[r])
    BY <1>1, <1>2, PageFacts, CatalogFacts
  <2>8. u \notin Ahead(r)
    BY <1>1, <2>6, <2>7 DEF Ahead
  <2>9. QED
    BY <1>3, <2>2, <2>8 DEF Passed
<1>6. QED
  BY <1>1, <1>2, <1>3, <1>4, <1>5, OneRunKeepsClean

\* A run that ends, by an exception or with its process.
LEMMA EndKeepsClean ==
    ASSUME Safe, CleanKept, NEW r \in Run, FetchFails(r) \/ RecordAborts(r) \/ Kill(r)
    PROVE  CleanKept'
<1>1. /\ UNCHANGED <<edition, row, value, links, calm, stage, pageNo, buffer, errors>>
      /\ at[r] \in Working /\ at'[r] \in Ended
      /\ \A q \in Run \ {r} : /\ at'[q] = at[q] /\ toSet'[q] = toSet[q]
                              /\ added'[q] = added[q] /\ removed'[q] = removed[q]
      /\ removed'[r] = removed[r] \/ removed'[r] = {}
      /\ at[r] = "transaction" => removed'[r] = {}
  BY DEF FetchFails, RecordAborts, Kill, Forget, tables, trans, counts, place, Working, Ended,
      Safe, TypeOK
<1>2. /\ r \in Active /\ r \notin Active' /\ r \notin InTransaction' /\ at'[r] # "queued"
  BY <1>1 DEF Active, Working, Ended, InTransaction
<1>3. removed'[r] = {}
  BY <1>1 DEF CleanKept, RunsAreCurrent, InTransaction
<1>4. \A i \in DOMAIN buffer'[r] :
         /\ buffer'[r][i][1] \in UrlsOf(stage'[r])
         /\ calm[r] => buffer'[r][i][2] = edition[buffer'[r][i][1]]
  BY <1>1, <1>2 DEF CleanKept, RunsAreCurrent
<1>5. \A u \in Url : Passed(r, u)' => Passed(r, u)
  BY <1>2 DEF Passed
<1>6. QED
  BY <1>1, <1>2, <1>3, <1>4, <1>5, OneRunKeepsClean

\* Links are left to set for every resource that the edition names.
LEMMA UpsertKeepsClean ==
    ASSUME Safe, CleanKept, NEW r \in Run, Upsert(r)
    PROVE  CleanKept'
<1>1. /\ UNCHANGED <<edition, row, value, links, calm, stage, pageNo, buffer, errors, added, removed>>
      /\ at[r] = "iterate" /\ buffer[r] # <<>>
      /\ toSet' = [toSet EXCEPT ![r] =
                      {s \in Resources : Targets(TheUrl(r), TheEdition(r), s) # {}}]
      /\ at' = [at EXCEPT ![r] = "transaction"]
  BY DEF Upsert, WriteNothingYet, tables, counts, place
<1>2. /\ at'[r] = "transaction"
      /\ toSet'[r] = {s \in Resources : Targets(TheUrl(r), TheEdition(r), s) # {}}
      /\ \A q \in Run \ {r} : at'[q] = at[q] /\ toSet'[q] = toSet[q]
  BY <1>1 DEF Safe, TypeOK
<1>3. r \in Active /\ r \notin InTransaction /\ r \in InTransaction' /\ at'[r] # "queued"
  BY <1>1, <1>2 DEF Active, Working, InTransaction
<1>4. removed'[r] = {}
  BY <1>1, <1>3 DEF CleanKept, RunsAreCurrent
<1>5. \A i \in DOMAIN buffer'[r] :
         /\ buffer'[r][i][1] \in UrlsOf(stage'[r])
         /\ calm[r] => buffer'[r][i][2] = edition[buffer'[r][i][1]]
  BY <1>1, <1>3 DEF CleanKept, RunsAreCurrent
<1>6. \A u \in Url : Passed(r, u)' => Passed(r, u)
  <2>1. ASSUME NEW u \in Url
        PROVE  u \in Ahead(r)' <=> u \in Ahead(r)
    BY <1>1 DEF Ahead
  <2>2. QED
    BY <1>1, <1>3, <2>1 DEF Passed
<1>7. ASSUME calm[r], NEW s \in Resources \ toSet'[r]
      PROVE  Targets(TheUrl(r)', edition[TheUrl(r)'], s) = {}
  <2>1. TheEdition(r) = edition[TheUrl(r)]
    BY <1>1, <1>3, <1>7, InHand DEF Safe, CleanKept
  <2>2. TheUrl(r)' = TheUrl(r)
    BY <1>1 DEF TheUrl
  <2>3. Targets(TheUrl(r), edition[TheUrl(r)], s) = {}
    BY <1>2, <1>7, <2>1
  <2>4. QED
    BY <2>2, <2>3
<1>8. QED
  BY <1>1, <1>2, <1>3, <1>4, <1>5, <1>6, <1>7, OneRunKeepsClean

\* The record at hand is behind the run, which now has an error or a row.
LEMMA EndRecordMoves ==
    ASSUME Safe, CleanKept, NEW r \in Run, buffer[r] # <<>>, r \in Active, EndRecord(r)
    PROVE  /\ \A q \in Run \ {r} :
                 /\ at'[q] = at[q] /\ stage'[q] = stage[q] /\ pageNo'[q] = pageNo[q]
                 /\ buffer'[q] = buffer[q] /\ removed'[q] = removed[q] /\ toSet'[q] = toSet[q]
                 /\ added'[q] = added[q] /\ calm'[q] = calm[q]
           /\ UNCHANGED <<edition, calm>>
           /\ at'[r] = "iterate" /\ removed'[r] = {} /\ r \notin InTransaction'
           /\ \A i \in DOMAIN buffer'[r] :
                 /\ buffer'[r][i][1] \in UrlsOf(stage'[r])
                 /\ calm[r] => buffer'[r][i][2] = edition[buffer'[r][i][1]]
           /\ \A u \in Url : u \in Ahead(r) => u \in Ahead(r)' \/ u = TheUrl(r)
<1>1. /\ UNCHANGED <<edition, calm, stage, pageNo>>
      /\ buffer' = [buffer EXCEPT ![r] = Tail(@)] /\ at' = [at EXCEPT ![r] = "iterate"]
      /\ \A q \in Run \ {r} : removed'[q] = removed[q] /\ toSet'[q] = toSet[q] /\ added'[q] = added[q]
      /\ removed'[r] = {}
  BY DEF EndRecord, Forget, place, Safe, TypeOK
<1>2. /\ buffer'[r] = Tail(buffer[r]) /\ at'[r] = "iterate" /\ r \notin InTransaction'
      /\ \A q \in Run \ {r} : buffer'[q] = buffer[q] /\ at'[q] = at[q]
  BY <1>1 DEF Safe, TypeOK, InTransaction
<1>3. TypeOK /\ RunsAreCurrent
  BY DEF Safe, CleanKept
<1>4. ASSUME NEW i \in DOMAIN buffer'[r]
      PROVE  /\ buffer'[r][i][1] \in UrlsOf(stage'[r])
             /\ calm[r] => buffer'[r][i][2] = edition[buffer'[r][i][1]]
  <2>1. i + 1 \in DOMAIN buffer[r] /\ buffer'[r][i] = buffer[r][i + 1]
    BY <1>2, <1>3, <1>4, InHand
  <2>2. QED
    BY <1>1, <1>3, <2>1 DEF RunsAreCurrent
<1>5. ASSUME NEW u \in Url, u \in Ahead(r), u # TheUrl(r)
      PROVE  u \in Ahead(r)'
  <2>1. ASSUME NEW i \in DOMAIN buffer[r], buffer[r][i][1] = u
        PROVE  u \in Ahead(r)'
    <3>1. i # 1
      BY <1>3, <1>5, <2>1, InHand DEF TheUrl
    <3>2. i - 1 \in DOMAIN buffer'[r] /\ buffer'[r][i - 1] = buffer[r][i]
      BY <1>2, <1>3, <3>1, InHand
    <3>3. QED
      BY <2>1, <3>2 DEF Ahead
  <2>2. CASE Table(u) > stage[r]
    BY <1>1, <2>2 DEF Ahead
  <2>3. CASE \E p \in DOMAIN Catalog[stage[r]] :
                p >= pageNo[r] /\ \E i \in DOMAIN Catalog[stage[r]][p] : Catalog[stage[r]][p][i] = u
    BY <1>1, <2>3 DEF Ahead
  <2>4. QED
    BY <1>5, <2>1, <2>2, <2>3 DEF Ahead
<1>6. QED
  BY <1>1, <1>2, <1>4, <1>5

LEMMA RecordFailsKeepsClean ==
    ASSUME Safe, CleanKept, NEW r \in Run, RecordFails(r)
    PROVE  CleanKept'
<1>1. /\ UNCHANGED <<row, value, links>> /\ buffer[r] # <<>> /\ r \in Active
      /\ errors' = [errors EXCEPT ![r] = @ + 1] /\ EndRecord(r)
  BY DEF RecordFails, tables, CountError, Active
<1>2. /\ errors'[r] = errors[r] + 1 /\ errors[r] \in Nat
      /\ \A q \in Run \ {r} : errors'[q] = errors[q]
  BY <1>1 DEF Safe, TypeOK
<1>3. \A u \in Url : Passed(r, u)' => Passed(r, u)
  BY <1>2 DEF Passed
<1>4. QED
  BY <1>1, <1>2, <1>3, EndRecordMoves, OneRunKeepsClean

\* Nobody who is at work stays calm.
LEMMA DisturbKeepsClean ==
    ASSUME Safe, CleanKept, NEW u \in Url, Publish(u) \/ DeleteRow(u)
    PROVE  CleanKept'
<1>1. /\ UNCHANGED <<at, stage, pageNo, buffer, toSet, removed>>
      /\ calm' = [r \in Run |-> calm[r] /\ at[r] \notin Working]
      /\ \/ edition' = edition
         \/ edition' = [edition EXCEPT ![u] = @ + 1] /\ edition[u] + 1 \in DOMAIN Links[u]
  BY DEF Publish, DeleteRow, Disturb, place, trans
<1>2. /\ Active' = Active /\ InTransaction' = InTransaction /\ InTransaction \subseteq Active
      /\ \A r \in Active : r \in Run /\ ~ calm'[r]
  BY <1>1 DEF Active, InTransaction, Working
<1>3. \A v \in Url : edition'[v] \in DOMAIN Links[v]
  BY <1>1 DEF CleanKept, RunsAreCurrent, Safe, TypeOK
<1>4. \A p, q \in Active' : calm'[p] = calm'[q]
  BY <1>1, <1>2 DEF Active
<1>5. RunsAreCurrent'
  <2>1. \A q \in Run : at'[q] = "queued" => stage'[q] = 1 /\ pageNo'[q] = 1 /\ buffer'[q] = <<>>
    BY <1>1 DEF CleanKept, RunsAreCurrent
  <2>2. ASSUME NEW q \in Run, NEW i \in DOMAIN buffer'[q]
        PROVE  /\ buffer'[q][i][1] \in UrlsOf(stage'[q])
               /\ q \in Active' /\ calm'[q] => buffer'[q][i][2] = edition'[buffer'[q][i][1]]
    BY <1>1, <1>2 DEF CleanKept, RunsAreCurrent
  <2>3. /\ \A q \in Run \ InTransaction' : removed'[q] = {}
        /\ \A q \in InTransaction' : \A id \in removed'[q] : id[1] \notin toSet'[q]
    BY <1>1, <1>2 DEF CleanKept, RunsAreCurrent
  <2>4. QED
    BY <1>3, <1>4, <2>1, <2>2, <2>3 DEF RunsAreCurrent, UrlsOf
<1>6. WritesMirror' /\ SettledIsMirrored'
  BY <1>2 DEF WritesMirror, SettledIsMirrored, Settled, Passed
<1>7. QED
  BY <1>5, <1>6 DEF CleanKept

\* When a calm run without errors sets links, the targets are behind it, for
\* they are of earlier resources, and so have rows.
LEMMA TargetsHaveRows ==
    ASSUME Safe, CleanKept, NEW r \in InTransaction, NEW u \in Url, u = TheUrl(r),
           calm[r], errors[r] = 0 \/ Settled(u),
           NEW s \in Resources, Targets(u, edition[u], s) # {}
    PROVE  Targets(u, edition[u], s) \subseteq Present
<1>1. CASE Settled(u)
  BY <1>1 DEF CleanKept, SettledIsMirrored, Mirrored
<1>2. ASSUME errors[r] = 0, NEW v \in Targets(u, edition[u], s)
      PROVE  v \in Present
  <2>1. r \in Run /\ r \in Active /\ buffer[r] # <<>>
    BY DEF InTransaction, Active, Working, Safe, LocksAreHeld
  <2>2. /\ v \in Url /\ Table(v) = s /\ v \in Links[u][edition[u]]
        /\ edition[u] \in DOMAIN Links[u]
    BY <1>2, TableFacts DEF Targets, CleanKept, RunsAreCurrent
  <2>3. Table(u) = stage[r] /\ stage[r] \in Resources
    BY <2>1, InHand DEF Safe, CleanKept
  <2>4. Table(v) < Table(u)
    BY <2>2, LinksGoBack
  <2>5. stage[r] \in Nat /\ s \in Nat /\ s < stage[r]
    BY <2>2, <2>3, <2>4, CatalogFacts
  <2>6. v \notin UrlsOf(stage[r])
    BY <2>2, <2>3, <2>5, TableFacts
  <2>7. \A i \in DOMAIN buffer[r] : buffer[r][i][1] # v
    BY <2>1, <2>6 DEF CleanKept, RunsAreCurrent
  <2>8. ~ \E p \in DOMAIN Catalog[stage[r]] :
             p >= pageNo[r] /\ \E i \in DOMAIN Catalog[stage[r]][p] : Catalog[stage[r]][p][i] = v
    BY <2>6 DEF UrlsOf
  <2>9. ~ (Table(v) > stage[r])
    BY <2>2, <2>5
  <2>10. v \notin Ahead(r)
    BY <2>7, <2>8, <2>9 DEF Ahead
  <2>11. Settled(v)
    BY <1>2, <2>1, <2>10 DEF Settled, Passed
  <2>12. QED
    BY <2>2, <2>11 DEF CleanKept, SettledIsMirrored, Mirrored
<1>3. QED
  BY <1>1, <1>2

\* What is linked after a .set() is what SWAPI says now.
LEMMA SetLinksKeepsClean ==
    ASSUME Safe, CleanKept, NEW r \in Run, NEW s \in Resources, SetLinks(r, s)
    PROVE  CleanKept'
<1>1. PICK u \in Url : u = TheUrl(r)
  BY RecordFacts DEF SetLinks, InTransaction, Safe, LocksAreHeld
<1> DEFINE new == {Id(v) : v \in Targets(u, TheEdition(r), s) \cap Present}
           old == {id \in links[u] : id[1] = s}
<1>2. /\ UNCHANGED <<edition, row, value, links, at, stage, pageNo, buffer, errors, calm>>
      /\ s \in toSet[r] /\ toSet' = [toSet EXCEPT ![r] = @ \ {s}]
      /\ added' = [added EXCEPT ![r] = @ \cup (new \ old)]
      /\ removed' = [removed EXCEPT ![r] = @ \cup (old \ new)]
      /\ r \in InTransaction /\ buffer[r] # <<>>
  BY <1>1 DEF SetLinks, IsNext, tables, place, counts, InTransaction, Safe, LocksAreHeld
<1>3. /\ added'[r] = added[r] \cup (new \ old) /\ removed'[r] = removed[r] \cup (old \ new)
      /\ toSet'[r] = toSet[r] \ {s}
      /\ \A q \in Run \ {r} : /\ added'[q] = added[q] /\ removed'[q] = removed[q]
                              /\ toSet'[q] = toSet[q]
  BY <1>2 DEF Safe, TypeOK
<1>4. /\ \A id \in new : id[1] = s
      /\ \A id \in old : id[1] = s
      /\ old \subseteq links[u]
      /\ \A id \in links[u] : id[1] = s => id \in old
  BY TableFacts DEF Targets, Id
<1>5. new = {Id(v) : v \in Targets(u, TheEdition(r), s) \cap Present}
  OBVIOUS
<1> HIDE DEF new, old
<1>6. /\ InTransaction' = InTransaction /\ Present' = Present /\ InTransaction \subseteq Run
      /\ \A v : Id(v)' = Id(v)
      /\ \A q : TheUrl(q)' = TheUrl(q)
      /\ r \in Active
  BY <1>2 DEF InTransaction, Present, TheUrl, Id, Active, Working
<1>7. RunsAreCurrent'
  <2>1. \A id \in removed'[r] : id[1] \notin toSet'[r]
    BY <1>2, <1>3, <1>4 DEF CleanKept, RunsAreCurrent
  <2>2. \A i \in DOMAIN buffer'[r] :
           /\ buffer'[r][i][1] \in UrlsOf(stage'[r])
           /\ calm[r] => buffer'[r][i][2] = edition[buffer'[r][i][1]]
    BY <1>2, <1>6 DEF CleanKept, RunsAreCurrent
  <2>3. r \in InTransaction' /\ at'[r] # "queued"
    BY <1>2, <1>6 DEF InTransaction
  <2>4. QED
    BY <1>2, <1>3, <1>6, <2>1, <2>2, <2>3, OneRunIsCurrent DEF CleanKept
<1>8. ASSUME NEW v \in Url
      PROVE  Settled(v)' => Settled(v)
  <2>1. \A q \in Run : Passed(q, v)' <=> Passed(q, v)
    BY <1>2, PassedRests
  <2>2. QED
    BY <2>1 DEF Settled
<1>9. ASSUME NEW v \in Url, Settled(v)'
      PROVE  Mirrored(v)'
  <2>1. Mirrored(v)
    BY <1>8, <1>9 DEF CleanKept, SettledIsMirrored
  <2>2. QED
    BY <1>2, <1>6, <2>1 DEF Mirrored, Mirrors, Targets
<1>10. WritesMirror'
  <2>1. ASSUME NEW q \in InTransaction', calm'[q], errors'[q] = 0 \/ Settled(TheUrl(q))',
               NEW t \in Resources \ toSet'[q], Targets(TheUrl(q)', edition'[TheUrl(q)'], t) # {}
        PROVE  /\ Targets(TheUrl(q)', edition'[TheUrl(q)'], t) \subseteq Present'
               /\ {id \in LinksAfter(q, TheUrl(q))' : id[1] = t} =
                     {Id(v)' : v \in Targets(TheUrl(q)', edition'[TheUrl(q)'], t)}
    <3>1. q \in InTransaction /\ q \in Run /\ TheUrl(q) \in Url
      BY <1>6, <2>1, RecordFacts DEF Safe, LocksAreHeld
    <3>2. PICK w \in Url : w = TheUrl(q) /\ w = TheUrl(q)'
      BY <1>6, <3>1
    <3>3. Settled(TheUrl(q))' => Settled(w)'
      BY <3>2 DEF Settled, Passed
    <3>4. calm[q] /\ (errors[q] = 0 \/ Settled(w)) /\ Targets(w, edition[w], t) # {}
      BY <1>2, <1>8, <2>1, <3>2, <3>3
    <3>5. /\ Targets(w, edition[w], t) \subseteq Present
          /\ \A id : id \in (links[w] \ removed'[q]) \cup added'[q] /\ id[1] = t <=>
                       \E v \in Targets(w, edition[w], t) : id = Id(v)
      <4>1. CASE t \notin toSet[q]
        <5>1. /\ Targets(w, edition[w], t) \subseteq Present
              /\ {id \in LinksAfter(q, w) : id[1] = t} = {Id(v) : v \in Targets(w, edition[w], t)}
          BY <3>1, <3>2, <3>4, <4>1 DEF CleanKept, WritesMirror
        <5>2. \A id : id[1] = t => (id \in (links[w] \ removed'[q]) \cup added'[q] <=> id \in LinksAfter(q, w))
          <6>1. CASE q = r
            <7>1. t # s
              BY <1>2, <4>1, <6>1
            <7>2. QED
              BY <1>2, <1>3, <1>4, <6>1, <7>1 DEF LinksAfter
          <6>2. CASE q # r
            BY <1>2, <1>3, <1>6, <6>2 DEF LinksAfter
          <6>3. QED
            BY <6>1, <6>2
        <5>3. QED
          BY <5>1, <5>2
      <4>2. CASE t \in toSet[q]
        <5>1. q = r /\ t = s /\ w = u
          BY <1>1, <1>3, <1>6, <3>1, <3>2, <3>4, <4>2
        <5>2. Targets(u, edition[u], s) \subseteq Present
          BY <1>2, <3>1, <3>2, <3>4, <5>1, TargetsHaveRows
        <5>3. TheEdition(r) = edition[u]
          BY <1>1, <1>2, <1>6, <3>1, <3>2, <3>4, <5>1, InHand DEF Safe, CleanKept
        <5>4. new = {Id(v) : v \in Targets(u, edition[u], s)}
          BY <1>5, <5>2, <5>3
        <5>5. /\ \A id \in added[r] : id[1] # s
              /\ \A id \in removed[r] : id[1] # s
          BY <1>2 DEF Safe, SetLinksAreTargets, CleanKept, RunsAreCurrent
        <5>6. \A id : id[1] = s => (id \in (links[u] \ removed'[r]) \cup added'[r] <=> id \in new)
          BY <1>2, <1>3, <1>4, <5>5 DEF LinksAfter
        <5>7. QED
          BY <1>4, <5>1, <5>2, <5>4, <5>6
      <4>3. QED
        BY <4>1, <4>2
    <3>6. LinksAfter(q, TheUrl(q))' = (links[w] \ removed'[q]) \cup added'[q]
      BY <1>2, <3>2 DEF LinksAfter
    <3>7. {id \in LinksAfter(q, TheUrl(q))' : id[1] = t} = {Id(v) : v \in Targets(w, edition[w], t)}
      BY <3>5, <3>6
    <3>8. QED
      BY <1>2, <1>6, <3>2, <3>5, <3>7
  <2>2. QED
    BY <2>1 DEF WritesMirror
<1>11. QED
  BY <1>7, <1>9, <1>10 DEF CleanKept, SettledIsMirrored

\* What a calm run commits is what SWAPI says now, and for the other runs the
\* rows that are there keep their ids.
LEMMA CommitKeepsClean ==
    ASSUME Safe, CleanKept, NEW r \in Run, Commit(r)
    PROVE  CleanKept'
<1>1. PICK u \in Url : u = TheUrl(r)
  BY RecordFacts DEF Commit, InTransaction, Safe, LocksAreHeld
<1>2. /\ r \in InTransaction /\ r \in Active /\ buffer[r] # <<>> /\ toSet[r] = {}
      /\ lock[u] = r
      /\ row' = [row EXCEPT ![u] = pk[r]] /\ value' = [value EXCEPT ![u] = TheEdition(r)]
      /\ links' = [links EXCEPT ![u] = LinksAfter(r, u)]
      /\ UNCHANGED errors /\ EndRecord(r)
      /\ row[u] # 0 => pk[r] = row[u]
      /\ pk[r] # 0
  BY <1>1 DEF Commit, InTransaction, Active, Working, Safe, LocksAreHeld
<1>3. /\ \A q \in Run \ {r} :
            /\ at'[q] = at[q] /\ stage'[q] = stage[q] /\ pageNo'[q] = pageNo[q]
            /\ buffer'[q] = buffer[q] /\ removed'[q] = removed[q] /\ toSet'[q] = toSet[q]
            /\ added'[q] = added[q] /\ calm'[q] = calm[q]
      /\ UNCHANGED <<edition, calm>>
      /\ at'[r] = "iterate" /\ removed'[r] = {} /\ r \notin InTransaction'
      /\ \A i \in DOMAIN buffer'[r] :
            /\ buffer'[r][i][1] \in UrlsOf(stage'[r])
            /\ calm[r] => buffer'[r][i][2] = edition[buffer'[r][i][1]]
      /\ \A v \in Url : v \in Ahead(r) => v \in Ahead(r)' \/ v = u
  BY <1>1, <1>2, EndRecordMoves
<1>4. /\ row'[u] = pk[r] /\ value'[u] = TheEdition(r) /\ links'[u] = LinksAfter(r, u)
      /\ \A v \in Url \ {u} : row'[v] = row[v] /\ value'[v] = value[v] /\ links'[v] = links[v]
  BY <1>2 DEF Safe, TypeOK
<1>5. /\ u \in Present' /\ Present \subseteq Present' /\ Present \subseteq Url
      /\ \A v \in Present : Id(v)' = Id(v)
  BY <1>2, <1>4 DEF Present, Id
<1>6. RunsAreCurrent'
  BY <1>2, <1>3, OneRunIsCurrent DEF CleanKept
<1>7. ASSUME NEW v \in Url \ {u}
      PROVE  Settled(v)' => Settled(v)
  <2>1. Passed(r, v)' => Passed(r, v)
    BY <1>2, <1>3 DEF Passed
  <2>2. QED
    BY <1>2, <1>3, <2>1, SettledStep
<1>8. ASSUME NEW v \in Url \ {u}, Settled(v)'
      PROVE  Mirrored(v)'
  <2>1. Mirrored(v)
    BY <1>7, <1>8 DEF CleanKept, SettledIsMirrored
  <2>2. ASSUME NEW s \in Resources, Targets(v, edition[v], s) # {}
        PROVE  /\ Targets(v, edition[v], s) \subseteq Present'
               /\ {id \in links'[v] : id[1] = s} = {Id(w)' : w \in Targets(v, edition[v], s)}
    <3>1. /\ Targets(v, edition[v], s) \subseteq Present
          /\ {id \in links[v] : id[1] = s} = {Id(w) : w \in Targets(v, edition[v], s)}
      BY <2>1, <2>2 DEF Mirrored, Mirrors
    <3>2. QED
      BY <1>4, <1>5, <3>1
  <2>3. v \in Present' /\ value'[v] = edition'[v]
    BY <1>3, <1>4, <1>5, <2>1 DEF Mirrored
  <2>4. QED
    BY <1>3, <2>2, <2>3 DEF Mirrored, Mirrors, Targets
<1>9. ASSUME Settled(u)'
      PROVE  Mirrored(u)'
  <2>1. PICK q \in Run : Passed(q, u)'
    BY <1>9 DEF Settled
  <2>2. q \in Active /\ calm[q] /\ errors[q] = 0
    BY <1>2, <1>3, <2>1 DEF Passed, Active
  <2>3. calm[r]
    BY <1>2, <2>2 DEF CleanKept, RunsAreCurrent
  <2>4. errors[r] = 0 \/ Settled(u)
    <3>1. CASE q = r
      BY <2>2, <3>1
    <3>2. CASE q # r
      <4>1. Passed(q, u)' <=> Passed(q, u)
        BY <1>2, <1>3, <3>2, PassedRests
      <4>2. QED
        BY <2>1, <4>1 DEF Settled
    <3>3. QED
      BY <3>1, <3>2
  <2>5. TheEdition(r) = edition[u]
    BY <1>1, <1>2, <2>3, InHand DEF Safe, CleanKept
  <2>6. ASSUME NEW s \in Resources, Targets(u, edition[u], s) # {}
        PROVE  /\ Targets(u, edition[u], s) \subseteq Present'
               /\ {id \in links'[u] : id[1] = s} = {Id(w)' : w \in Targets(u, edition[u], s)}
    <3>1. /\ Targets(u, edition[u], s) \subseteq Present
          /\ {id \in LinksAfter(r, u) : id[1] = s} = {Id(w) : w \in Targets(u, edition[u], s)}
      BY <1>1, <1>2, <2>3, <2>4, <2>6 DEF CleanKept, WritesMirror
    <3>2. QED
      BY <1>4, <1>5, <3>1
  <2>7. u \in Present' /\ value'[u] = edition'[u]
    BY <1>3, <1>4, <1>5, <2>5
  <2>8. QED
    BY <1>3, <2>6, <2>7 DEF Mirrored, Mirrors, Targets
<1>10. ASSUME NEW q \in InTransaction', calm'[q], errors'[q] = 0 \/ Settled(TheUrl(q))',
              NEW t \in Resources \ toSet'[q], Targets(TheUrl(q)', edition'[TheUrl(q)'], t) # {}
       PROVE  /\ Targets(TheUrl(q)', edition'[TheUrl(q)'], t) \subseteq Present'
              /\ {id \in LinksAfter(q, TheUrl(q))' : id[1] = t} =
                    {Id(v)' : v \in Targets(TheUrl(q)', edition'[TheUrl(q)'], t)}
  <2>1. q \in Run \ {r} /\ q \in InTransaction
    BY <1>3 DEF InTransaction
  <2>2. TheUrl(q) \in Url /\ TheUrl(q) # u
    BY <1>2, <2>1, RecordFacts DEF Safe, LocksAreHeld
  <2>3. PICK w \in Url \ {u} : w = TheUrl(q) /\ w = TheUrl(q)'
    BY <1>3, <2>1, <2>2 DEF TheUrl
  <2>4. Settled(TheUrl(q))' => Settled(w)'
    BY <2>3 DEF Settled, Passed
  <2>5. /\ calm[q] /\ (errors[q] = 0 \/ Settled(w)) /\ t \in Resources \ toSet[q]
        /\ Targets(w, edition[w], t) # {}
    BY <1>2, <1>3, <1>7, <1>10, <2>1, <2>3, <2>4
  <2>6. /\ Targets(w, edition[w], t) \subseteq Present
        /\ {id \in LinksAfter(q, w) : id[1] = t} = {Id(v) : v \in Targets(w, edition[w], t)}
    BY <2>1, <2>3, <2>5 DEF CleanKept, WritesMirror
  <2>7. LinksAfter(q, TheUrl(q))' = LinksAfter(q, w)
    BY <1>3, <1>4, <2>1, <2>3 DEF LinksAfter
  <2>8. {Id(v)' : v \in Targets(w, edition[w], t)} = {Id(v) : v \in Targets(w, edition[w], t)}
    BY <1>5, <2>6
  <2>9. QED
    BY <1>3, <1>5, <2>3, <2>6, <2>7, <2>8
<1>11. QED
  BY <1>6, <1>8, <1>9, <1>10 DEF CleanKept, WritesMirror, SettledIsMirrored

LEMMA NextKeepsClean == Safe /\ CleanKept /\ [Next]_vars => CleanKept'
<1> SUFFICES ASSUME Safe, CleanKept, [Next]_vars
             PROVE  CleanKept'
  OBVIOUS
<1>1. ASSUME NEW r \in Run, Step(r)
      PROVE  CleanKept'
  <2>1. CASE Fetch(r)
    BY <2>1, FetchKeepsClean
  <2>2. CASE NextResource(r)
    BY <2>2, NextResourceKeepsClean
  <2>3. CASE Upsert(r)
    BY <2>3, UpsertKeepsClean
  <2>4. CASE \E s \in Resources : SetLinks(r, s)
    BY <2>4, SetLinksKeepsClean
  <2>5. CASE Commit(r)
    BY <2>5, CommitKeepsClean
  <2>6. CASE CommitRefused(r) \/ RecordFails(r)
    BY <2>6, RecordFailsKeepsClean DEF CommitRefused
  <2>7. CASE RecordAborts(r) \/ FetchFails(r)
    BY <2>7, EndKeepsClean
  <2>8. QED
    BY <1>1, <2>1, <2>2, <2>3, <2>4, <2>5, <2>6, <2>7 DEF Step, Progress
<1>2. ASSUME NEW r \in Run, Start(r) \/ Kill(r)
      PROVE  CleanKept'
  BY <1>2, StartKeepsClean, EndKeepsClean
<1>3. ASSUME NEW u \in Url, Publish(u) \/ DeleteRow(u)
      PROVE  CleanKept'
  BY <1>3, DisturbKeepsClean
<1>4. CASE UNCHANGED vars
  <2>1. RunsAreCurrent'
    BY <1>4 DEF vars, CleanKept, RunsAreCurrent, Active, InTransaction
  <2>2. ASSUME NEW u \in Url
        PROVE  Settled(u)' => Settled(u)
    <3>1. \A q \in Run : Passed(q, u)' <=> Passed(q, u)
      BY <1>4, PassedRests DEF vars, place, counts
    <3>2. QED
      BY <3>1 DEF Settled
  <2>3. ASSUME NEW q \in InTransaction'
        PROVE  q \in InTransaction /\ TheUrl(q) \in Url
    <3>1. q \in InTransaction /\ q \in Run
      BY <1>4 DEF vars, InTransaction
    <3>2. QED
      BY <3>1, RecordFacts DEF Safe, LocksAreHeld
  <2>4. WritesMirror' /\ SettledIsMirrored'
    BY <1>4, <2>2, <2>3, NothingPassed DEF vars, tables, trans, counts
  <2>5. QED
    BY <2>1, <2>4 DEF CleanKept
<1>5. QED
  BY <1>1, <1>2, <1>3, <1>4 DEF Next, Environment

\* The conjuncts of IInv hold in every reachable state.
THEOREM SyncInductive == Spec => []IInv
<1>1. Init => IInv
  BY InitSafe, InitClean DEF IInv
<1>2. IInv /\ [Next]_vars => IInv'
  BY NextSafe, NextKeepsClean DEF IInv
<1>3. QED
  BY <1>1, <1>2, PTL DEF Spec

\* A run that ends without errors leaves the catalog as SWAPI describes it, with
\* all links, unless SWAPI has published or a row was deleted meanwhile, whatever
\* other runs do at the same time: at its end nothing is ahead of it, and what is
\* behind a calm run without errors mirrors SWAPI.
THEOREM CleanRunsMirror == Spec => CleanRunMirrors
<1> USE DEF CleanRunMirrors
<1>1. ASSUME IInv, [Next]_vars, NEW r \in Run, FinishesClean(r)
      PROVE  CatalogMirrors
  <2>1. at[r] = "iterate" /\ at'[r] = "finished" /\ errors[r] = 0 /\ calm[r] /\ r \in Active
    BY <1>1 DEF FinishesClean, Active, Working
  <2>2. NextResource(r)
    <3>1. ASSUME NEW q \in Run, Step(q)
          PROVE  NextResource(r)
      <4>1. CASE Fetch(q)
        BY <2>1, <4>1 DEF Fetch
      <4>2. CASE NextResource(q)
        <5>1. q = r
          BY <1>1, <2>1, <4>2 DEF NextResource, IInv, Safe, TypeOK
        <5>2. QED
          BY <4>2, <5>1
      <4>3. CASE Upsert(q) \/ FetchFails(q) \/ RecordAborts(q)
        BY <1>1, <2>1, <4>3 DEF Upsert, FetchFails, RecordAborts, IInv, Safe, TypeOK
      <4>4. CASE \E s \in Resources : SetLinks(q, s)
        BY <2>1, <4>4 DEF SetLinks
      <4>5. CASE Commit(q) \/ CommitRefused(q) \/ RecordFails(q)
        BY <1>1, <2>1, <4>5 DEF Commit, CommitRefused, RecordFails, EndRecord, IInv, Safe, TypeOK
      <4>6. QED
        BY <3>1, <4>1, <4>2, <4>3, <4>4, <4>5 DEF Step, Progress
    <3>2. ~ \E q \in Run : Start(q) \/ Kill(q)
      BY <1>1, <2>1 DEF Start, Kill, IInv, Safe, TypeOK
    <3>3. ~ \E u \in Url : Publish(u) \/ DeleteRow(u)
      BY <2>1 DEF Publish, DeleteRow
    <3>4. ~ UNCHANGED vars
      BY <2>1 DEF vars
    <3>5. QED
      BY <1>1, <3>1, <3>2, <3>3, <3>4 DEF Next, Environment
  <2>3. /\ buffer[r] = <<>> /\ pageNo[r] \notin DOMAIN Catalog[stage[r]]
        /\ stage[r] + 1 \notin Resources
        /\ stage[r] \in Resources /\ pageNo[r] \in Nat \ {0}
    <3>1. /\ buffer[r] = <<>> /\ pageNo[r] \notin DOMAIN Catalog[stage[r]]
          /\ After(stage[r]) = 0 \/ at' = at
          /\ stage[r] \in Resources /\ pageNo[r] \in Nat \ {0}
      BY <1>1, <2>2 DEF NextResource, IInv, Safe, TypeOK
    <3>2. After(stage[r]) = 0
      BY <2>1, <3>1
    <3>3. stage[r] \in Nat
      BY <3>1, CatalogFacts
    <3>4. stage[r] + 1 # 0
      BY <3>3
    <3>5. QED
      BY <3>1, <3>2, <3>4 DEF After
  <2>4. ASSUME NEW u \in Url
        PROVE  u \notin Ahead(r)
    <3>1. ~ (Table(u) > stage[r])
      BY <2>3, TableFacts, CatalogAssumption DEF Resources
    <3>2. \A p \in DOMAIN Catalog[stage[r]] : ~ (p >= pageNo[r])
      BY <2>3, PageFacts, CatalogFacts
    <3>3. QED
      BY <2>3, <3>1, <3>2 DEF Ahead
  <2>5. \A u \in Url : Mirrored(u)
    BY <1>1, <2>1, <2>4 DEF IInv, CleanKept, SettledIsMirrored, Settled, Passed
  <2>6. QED
    BY <2>5 DEF CatalogMirrors, Mirrored
<1>2. IInv /\ [Next]_vars => [\A r \in Run : FinishesClean(r) => CatalogMirrors]_vars
  BY <1>1
<1>3. QED
  BY <1>2, SyncInductive, PTL DEF Spec

=============================================================================
