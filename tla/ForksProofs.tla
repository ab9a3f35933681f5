----------------------------- MODULE ForksProofs -----------------------------
(***************************************************************************)
(* Proofs about the parts of MCForks that GostProofs leaves: the links and *)
(* the files of the file browser and the TLS obfuscation, for any number   *)
(* of links, requests, files and records.  Then what MCForks checks on a   *)
(* small instance, for its own specification: a behaviour that runs one    *)
(* part and leaves the others alone is a behaviour of each part.           *)
(***************************************************************************)
EXTENDS MCForks, GostProofs

--------------------------------------------------------------------------------
(* The links of the file browser. *)

\* A link in the database.
LinkType == [owner : Owners, expire : 0 .. MaxClock, state : {"unused", "there", "deleted"}]
\* A request that lists links: its copy of the slice, and how far it is.
ListingType ==
  [at : {"idle", "walk", "answered", "panicked", "failed"}, array : Seq(Hashes), len : 0 .. Cardinality(Hashes),
   next : Nat \ {0}, read : SUBSET Hashes]
\* The types.
ShareTypes ==
  clock \in 1 .. MaxClock /\ link \in [Hashes -> LinkType] /\ listing \in [Listings -> ListingType]

\* Among the first entries of an array, or in the slice of a listing, a link is
\* at one place.
Once(A, n, h) == \E k \in 1 .. n : \A j \in 1 .. n : A[j] = h <=> j = k
\* In the slice of a listing.
OnceIn(l, h) == Once(l.array, l.len, h)

\* What a listing read was there when it was read, so that it expires when it
\* did; what has not expired is at one place of the slice.
ListsOnce(l) ==
  l.at \in {"walk", "answered"} =>
    /\ l.len <= Len(l.array)
    /\ \A h \in l.read : link[h].state # "unused" /\ (Expired(h) \/ OnceIn(l, h))

\* What every step keeps.
ShareInv == ShareTypes /\ \A r \in Listings : ListsOnce(listing[r])

\* Numbers of links.
LEMMA HashNumbers ==
  /\ Cardinality(Hashes) \in Nat /\ MaxClock \in Nat \ {0}
  /\ \A read \in SUBSET Hashes : IsFiniteSet(read) /\ Cardinality(read) \in 0 .. Cardinality(Hashes)
<1>1. \A read \in SUBSET Hashes : IsFiniteSet(read) /\ Cardinality(read) <= Cardinality(Hashes)
  BY FileSharesAssumption, FS_Subset
<1> QED BY <1>1, FileSharesAssumption, FS_CardinalityType

\* A link is cut out: the others are where they were or one place before.
LEMMA CutKeepsOthers ==
  ASSUME NEW l \in ListingType, l.len <= Len(l.array), l.next <= l.len, NEW h \in Hashes, OnceIn(l, h),
         l.array[l.next] # h
  PROVE  OnceIn(CutOut(l), h)
<1>1. PICK A \in Seq(Hashes), n \in Nat, i \in Nat \ {0} : A = l.array /\ n = l.len /\ i = l.next
  BY HashNumbers DEF ListingType
<1>2. PICK k \in 1 .. n : \A j \in 1 .. n : A[j] = h <=> j = k
  BY <1>1 DEF OnceIn, Once
<1>3. DOMAIN A = 1 .. Len(A) /\ Len(A) \in Nat /\ n <= Len(A) /\ i <= n /\ k # i
  BY <1>1, <1>2
<1>4. PICK B : B = [j \in DOMAIN A |-> IF i <= j /\ j < n THEN A[j + 1] ELSE A[j]]
  OBVIOUS
<1>5. CutOut(l).array = B /\ CutOut(l).len = n - 1
  BY <1>1, <1>4 DEF CutOut, ListingType
<1>6. \A j \in 1 .. n - 1 : B[j] = IF i <= j THEN A[j + 1] ELSE A[j]
  BY <1>3, <1>4
<1>9. PICK c : c = CutOut(l)
  OBVIOUS
<1>10. c.array = B /\ c.len = n - 1
  BY <1>5, <1>9
<1>7. CASE k < i
  <2>1. k \in 1 .. n - 1 /\ \A j \in 1 .. n - 1 : B[j] = h <=> j = k
    BY <1>2, <1>3, <1>6, <1>7
  <2>2. Once(B, n - 1, h)
    BY <2>1 DEF Once
  <2>3. OnceIn(c, h)
    BY <1>10, <2>2 DEF OnceIn
  <2> QED BY <1>9, <2>3
<1>8. CASE k > i
  <2>1. k - 1 \in 1 .. n - 1 /\ \A j \in 1 .. n - 1 : B[j] = h <=> j = k - 1
    BY <1>2, <1>3, <1>6, <1>8
  <2>2. Once(B, n - 1, h)
    BY <2>1 DEF Once
  <2>3. OnceIn(c, h)
    BY <1>10, <2>2 DEF OnceIn
  <2> QED BY <1>9, <2>3
<1> QED BY <1>3, <1>7, <1>8

\* Cutting out keeps the types.
LEMMA CutIsTyped ==
  ASSUME NEW l \in ListingType, l.len <= Len(l.array), l.next <= l.len
  PROVE  /\ [CutOut(l) EXCEPT !.next = @ + 1] \in ListingType
         /\ CutOut(l).len <= Len(CutOut(l).array)
         /\ CutOut(l).at = l.at /\ CutOut(l).read = l.read
<1>1. PICK A \in Seq(Hashes), n \in 0 .. Cardinality(Hashes), i \in Nat \ {0} : A = l.array /\ n = l.len /\ i = l.next
  BY DEF ListingType
<1>2. DOMAIN A = 1 .. Len(A) /\ Len(A) \in Nat /\ n <= Len(A) /\ i <= n /\ \A j \in DOMAIN A : A[j] \in Hashes
  BY <1>1
<1>3. PICK B : B = [j \in DOMAIN A |-> IF i <= j /\ j < n THEN A[j + 1] ELSE A[j]]
  OBVIOUS
<1>4. \A j \in 1 .. Len(A) : (IF i <= j /\ j < n THEN A[j + 1] ELSE A[j]) \in Hashes
  <2> SUFFICES ASSUME NEW j \in 1 .. Len(A) PROVE (IF i <= j /\ j < n THEN A[j + 1] ELSE A[j]) \in Hashes
    OBVIOUS
  <2>1. i <= j /\ j < n => j + 1 \in DOMAIN A
    BY <1>1, <1>2
  <2> QED BY <1>2, <2>1
<1>5. B \in [1 .. Len(A) -> Hashes]
  BY <1>2, <1>3, <1>4
<1>6. B \in Seq(Hashes) /\ Len(B) = Len(A)
  BY <1>2, <1>5
<1>7. n - 1 \in 0 .. Cardinality(Hashes) /\ i + 1 \in Nat \ {0} /\ n - 1 <= Len(A)
  BY <1>1, <1>2, HashNumbers
<1>8. CutOut(l) = [l EXCEPT !.array = B, !.len = n - 1]
  BY <1>1, <1>3 DEF CutOut, ListingType
<1>9. CutOut(l) \in ListingType /\ CutOut(l).next = i
  BY <1>1, <1>6, <1>7, <1>8 DEF ListingType
<1>10. [CutOut(l) EXCEPT !.next = @ + 1] \in ListingType
  BY <1>7, <1>9 DEF ListingType
<1> QED BY <1>6, <1>7, <1>8, <1>10 DEF ListingType

\* One listing goes on, and no link that a listing read comes to be another.
LEMMA ListingKeeps ==
  ASSUME ShareInv, NEW r \in Listings, NEW m \in ListingType, listing' = [listing EXCEPT ![r] = m],
         ListsOnce(m)', clock' \in 1 .. MaxClock, clock <= clock', link' \in [Hashes -> LinkType],
         \A h \in Hashes : link[h].state # "unused" => link'[h].state # "unused" /\ link'[h].expire = link[h].expire
  PROVE  ShareInv'
<1>1. listing' \in [Listings -> ListingType] /\ listing'[r] = m /\ \A s \in Listings : s # r => listing'[s] = listing[s]
  BY DEF ShareInv, ShareTypes
<1>2. \A s \in Listings : s # r => ListsOnce(listing[s])'
  <2> SUFFICES ASSUME NEW s \in Listings, s # r PROVE ListsOnce(listing[s])'
    OBVIOUS
  <2>1. PICK l \in ListingType : l = listing[s] /\ listing'[s] = l /\ ListsOnce(l)
    BY <1>1 DEF ShareInv, ShareTypes
  <2>2. \A h \in l.read : h \in Hashes /\ link[h].expire \in Nat
    BY <2>1 DEF ListingType, ShareInv, ShareTypes, LinkType
  <2>3. clock \in Nat /\ clock' \in Nat
    BY DEF ShareInv, ShareTypes
  <2>4. \A h \in l.read : link[h].state # "unused" /\ Expired(h) => link'[h].state # "unused" /\ Expired(h)'
    BY <2>2, <2>3 DEF Expired
  <2> QED BY <2>1, <2>2, <2>4 DEF ListsOnce
<1>3. ListsOnce(listing[r])'
  BY <1>1 DEF ListsOnce
<1> QED BY <1>1, <1>2, <1>3 DEF ShareInv, ShareTypes

\* The clock and single links.
LEMMA LinksKeep ==
  ASSUME ShareInv, UNCHANGED listing, clock' \in 1 .. MaxClock, clock <= clock', link' \in [Hashes -> LinkType],
         \A h \in Hashes : link[h].state # "unused" => link'[h].state # "unused" /\ link'[h].expire = link[h].expire
  PROVE  ShareInv'
<1>1. \A s \in Listings : ListsOnce(listing[s])'
  <2> SUFFICES ASSUME NEW s \in Listings PROVE ListsOnce(listing[s])'
    OBVIOUS
  <2>1. PICK l \in ListingType : l = listing[s] /\ listing'[s] = l /\ ListsOnce(l)
    BY DEF ShareInv, ShareTypes
  <2>2. \A h \in l.read : h \in Hashes /\ link[h].expire \in Nat
    BY <2>1 DEF ListingType, ShareInv, ShareTypes, LinkType
  <2>3. clock \in Nat /\ clock' \in Nat
    BY DEF ShareInv, ShareTypes
  <2>4. \A h \in l.read : link[h].state # "unused" /\ Expired(h) => link'[h].state # "unused" /\ Expired(h)'
    BY <2>2, <2>3 DEF Expired
  <2> QED BY <2>1, <2>2, <2>4 DEF ListsOnce
<1> QED BY <1>1 DEF ShareInv, ShareTypes

\* A link that is deleted stays what it was otherwise.
LEMMA GoneIs ==
  ASSUME ShareTypes, NEW h \in Hashes
  PROVE  /\ Gone(h) \in [Hashes -> LinkType]
         /\ \A g \in Hashes : /\ link[g].state # "unused" => Gone(h)[g].state # "unused"
                              /\ Gone(h)[g].expire = link[g].expire
<1>1. [link[h] EXCEPT !.state = "deleted"] \in LinkType
  BY DEF ShareTypes, LinkType
<1>2. Gone(h) = [link EXCEPT ![h] = [link[h] EXCEPT !.state = "deleted"]]
  BY DEF Gone
<1>3. [link[h] EXCEPT !.state = "deleted"].state = "deleted" /\ [link[h] EXCEPT !.state = "deleted"].expire = link[h].expire
  BY DEF ShareTypes, LinkType
<1> QED BY <1>1, <1>2, <1>3 DEF ShareTypes

\* What a listing reads is at one place each.
LEMMA ReadOnce ==
  ASSUME NEW read \in SUBSET Hashes, NEW q \in [1 .. Cardinality(read) -> read], InDatabaseOrder(q)
  PROVE  \A h \in read : Once(q, Cardinality(read), h)
<1>1. PICK n \in Nat : n = Cardinality(read) /\ IsFiniteSet(read)
  BY HashNumbers
<1>2. IsFiniteSet(1 .. n) /\ Cardinality(1 .. n) = n
  BY FS_Interval
<1>3. \A i, j \in 1 .. n : q[i] = q[j] => i = j
  <2> SUFFICES ASSUME NEW i \in 1 .. n, NEW j \in 1 .. n, i # j PROVE q[i] # q[j]
    OBVIOUS
  <2>1. q[i] \in Nat /\ q[j] \in Nat /\ DOMAIN q = 1 .. n
    BY <1>1, FileSharesAssumption
  <2> QED BY <2>1 DEF InDatabaseOrder
<1>4. q \in Injection(1 .. n, read)
  BY <1>1, <1>3, Fun_IsInj
<1>5. q \in Surjection(1 .. n, read)
  BY <1>1, <1>2, <1>4, FS_Injection
<1>6. \A h \in read : \E k \in 1 .. n : q[k] = h
  BY <1>5 DEF Surjection
<1>7. \A h \in read : Once(q, n, h)
  BY <1>3, <1>6 DEF Once
<1> QED BY <1>1, <1>7

\* Every step of a listing, or of whoever shares and deletes, keeps the slices.
LEMMA SharesStep == ShareInv /\ [ShareNext]_shareVars => ShareInv'
<1> SUFFICES ASSUME ShareInv, [ShareNext]_shareVars PROVE ShareInv'
  OBVIOUS
<1>1. ShareTypes /\ clock \in Nat /\ clock <= clock /\ clock \in 1 .. MaxClock /\ MaxClock \in Nat
  BY HashNumbers DEF ShareInv, ShareTypes
<1>2. CASE Second
  <2>1. clock' \in 1 .. MaxClock /\ clock <= clock' /\ UNCHANGED <<link, listing>>
    BY <1>1, <1>2 DEF Second
  <2> QED BY <1>1, <2>1, LinksKeep DEF ShareTypes
<1>3. CASE DeleteLink \/ VisitLink
  <2>1. PICK h \in Hashes : link' = Gone(h) /\ UNCHANGED <<clock, listing>>
    BY <1>3 DEF DeleteLink, VisitLink, Links
  <2>2. /\ link' \in [Hashes -> LinkType]
        /\ \A g \in Hashes : /\ link[g].state # "unused" => link'[g].state # "unused"
                             /\ link'[g].expire = link[g].expire
    BY <1>1, <2>1, GoneIs
  <2> QED BY <1>1, <2>1, <2>2, LinksKeep
<1>4. CASE \E o \in Owners : PostLink(o)
  <2>1. PICK o \in Owners, h \in Hashes, e \in {0} \cup clock .. MaxClock :
          /\ link[h].state = "unused"
          /\ link' = [link EXCEPT ![h] = [owner |-> o, expire |-> e, state |-> "there"]]
          /\ UNCHANGED <<clock, listing>>
    BY <1>4 DEF PostLink
  <2>2. [owner |-> o, expire |-> e, state |-> "there"] \in LinkType
    <3>1. e \in 0 .. MaxClock
      BY <1>1
    <3> QED BY <3>1 DEF LinkType
  <2>3. /\ link' \in [Hashes -> LinkType]
        /\ \A g \in Hashes : link[g].state # "unused" => link'[g] = link[g]
    BY <1>1, <2>1, <2>2 DEF ShareTypes
  <2> QED BY <1>1, <2>1, <2>3, LinksKeep
<1>5. ASSUME NEW r \in Listings, NEW shown, BeginListing(r, shown) PROVE ShareInv'
  <2> DEFINE read == {h \in Links : link[h].owner \in shown}
  <2>1. read \in SUBSET Hashes /\ \A h \in read : link[h].state # "unused"
    BY DEF Links
  <2>2. PICK q \in [1 .. Cardinality(read) -> read] :
          /\ InDatabaseOrder(q) /\ UNCHANGED <<clock, link>>
          /\ listing' = [listing EXCEPT ![r] =
               [at |-> "walk", array |-> q, len |-> Cardinality(read), next |-> 1, read |-> read]]
    BY <1>5 DEF BeginListing
  <2> HIDE DEF read
  <2>3. PICK n \in 0 .. Cardinality(Hashes) : n = Cardinality(read)
    BY <2>1, HashNumbers
  <2>4. q \in Seq(Hashes) /\ Len(q) = n
    <3>1. q \in [1 .. n -> Hashes] /\ n \in Nat
      BY <2>1, <2>3
    <3> QED BY <3>1
  <2>5. PICK m : m = [at |-> "walk", array |-> q, len |-> n, next |-> 1, read |-> read]
    OBVIOUS
  <2>6. m \in ListingType
    BY <2>1, <2>4, <2>5 DEF ListingType
  <2>7. m.at = "walk" /\ m.array = q /\ m.len = n /\ m.read = read
    BY <2>5
  <2>8. \A h \in read : OnceIn(m, h)
    <3>1. \A h \in read : Once(q, n, h)
      BY <2>1, <2>2, <2>3, ReadOnce
    <3> QED BY <2>7, <3>1 DEF OnceIn
  <2>9. ListsOnce(m)'
    <3>1. m.len <= Len(m.array)
      BY <2>3, <2>4, <2>7
    <3>2. \A h \in m.read : link'[h].state # "unused" /\ OnceIn(m, h)
      BY <2>1, <2>2, <2>7, <2>8
    <3> QED BY <3>1, <3>2 DEF ListsOnce, OnceIn
  <2>10. listing' = [listing EXCEPT ![r] = m]
    BY <2>2, <2>3, <2>5
  <2> QED BY <1>1, <2>2, <2>6, <2>9, <2>10, ListingKeeps DEF ShareTypes
<1>6. ASSUME NEW r \in Listings, WalkLink(r) PROVE ShareInv'
  <2>1. PICK l \in ListingType : l = listing[r] /\ ListsOnce(l) /\ l.at = "walk"
    BY <1>6 DEF ShareInv, ShareTypes, WalkLink
  <2>2. l.next \in 1 .. Len(l.array) /\ l.len <= Len(l.array) /\ l.next + 1 \in Nat \ {0} /\ l.array \in Seq(Hashes)
        /\ l.len \in Nat /\ l.read \in SUBSET Hashes
    <3>1. l.next \in Nat \ {0} /\ l.len \in Nat /\ l.array \in Seq(Hashes) /\ l.read \in SUBSET Hashes
      BY HashNumbers DEF ListingType
    <3>2. l.next <= Len(l.array) /\ l.len <= Len(l.array)
      BY <1>6, <2>1 DEF WalkLink, ListsOnce
    <3> QED BY <3>1, <3>2
  <2>3. PICK h \in Hashes : h = l.array[l.next]
    BY <2>2
  <2>4. PICK idle \in ListingType : idle = NotListing
    <3>1. <<>> \in Seq(Hashes) /\ 0 \in 0 .. Cardinality(Hashes) /\ {} \in SUBSET Hashes
      BY HashNumbers
    <3>2. NotListing \in ListingType
      BY <3>1 DEF ListingType, NotListing
    <3> QED BY <3>2
  <2>5. CASE UNCHANGED link /\ listing' = [listing EXCEPT ![r] = [l EXCEPT !.next = @ + 1]]
    <3>1. PICK m : m = [l EXCEPT !.next = @ + 1]
      OBVIOUS
    <3>2. m \in ListingType /\ m.at = l.at /\ m.array = l.array /\ m.len = l.len /\ m.read = l.read
      BY <2>2, <3>1 DEF ListingType
    <3>3. UNCHANGED clock
      BY <1>6 DEF WalkLink
    <3>4. ListsOnce(m)'
      BY <2>1, <2>5, <3>2, <3>3 DEF ListsOnce, OnceIn, Expired
    <3> QED BY <1>1, <2>5, <3>1, <3>2, <3>3, <3>4, ListingKeeps DEF ShareTypes
  <2>6. CASE Expired(h) /\ link' = Gone(h) /\ l.next <= l.len
             /\ listing' = [listing EXCEPT ![r] = [CutOut(l) EXCEPT !.next = @ + 1]]
    <3>1. PICK m : m = [CutOut(l) EXCEPT !.next = @ + 1]
      OBVIOUS
    <3>2. /\ m \in ListingType /\ m.at = l.at /\ m.read = l.read
          /\ m.array = CutOut(l).array /\ m.len = CutOut(l).len /\ m.len <= Len(m.array)
      BY <2>2, <2>6, <3>1, CutIsTyped DEF ListingType, CutOut
    <3>3. UNCHANGED clock
      BY <1>6 DEF WalkLink
    <3>4. /\ link' \in [Hashes -> LinkType]
          /\ \A g \in Hashes : /\ link[g].state # "unused" => link'[g].state # "unused"
                               /\ link'[g].expire = link[g].expire
      BY <1>1, <2>6, GoneIs
    <3>5. \A g \in l.read : Expired(g)' \/ OnceIn(m, g)
      <4> SUFFICES ASSUME NEW g \in l.read, ~Expired(g) PROVE OnceIn(m, g)
        BY <2>2, <3>3, <3>4 DEF Expired
      <4>1. g \in Hashes /\ OnceIn(l, g) /\ g # h
        BY <2>1, <2>2, <2>6 DEF ListsOnce
      <4>2. OnceIn(CutOut(l), g)
        BY <2>2, <2>3, <2>6, <4>1, CutKeepsOthers
      <4> QED BY <3>2, <4>2 DEF OnceIn
    <3>6. ListsOnce(m)'
      <4>1. \A g \in m.read : link'[g].state # "unused" /\ (Expired(g)' \/ OnceIn(m, g))
        BY <2>1, <2>2, <3>2, <3>4, <3>5 DEF ListsOnce
      <4> QED BY <3>2, <4>1 DEF ListsOnce, OnceIn
    <3> QED BY <1>1, <2>6, <3>1, <3>2, <3>3, <3>4, <3>6, ListingKeeps
  <2>7. CASE /\ link' \in {link, Gone(h)}
             /\ \E s \in {"panicked", "failed"} : listing' = [listing EXCEPT ![r] = [idle EXCEPT !.at = s]]
    <3>1. PICK s \in {"panicked", "failed"} : listing' = [listing EXCEPT ![r] = [idle EXCEPT !.at = s]]
      BY <2>7
    <3>2. PICK m : m = [idle EXCEPT !.at = s]
      OBVIOUS
    <3>6. m \in ListingType /\ m.at = s
      BY <3>2 DEF ListingType
    <3>3. UNCHANGED clock
      BY <1>6 DEF WalkLink
    <3>4. /\ link' \in [Hashes -> LinkType]
          /\ \A g \in Hashes : /\ link[g].state # "unused" => link'[g].state # "unused"
                               /\ link'[g].expire = link[g].expire
      BY <1>1, <2>7, GoneIs DEF ShareTypes
    <3>5. ListsOnce(m)'
      BY <3>6 DEF ListsOnce
    <3> QED BY <1>1, <3>1, <3>2, <3>3, <3>4, <3>5, <3>6, ListingKeeps
  <2> QED BY <1>6, <2>1, <2>3, <2>4, <2>5, <2>6, <2>7 DEF WalkLink
<1>7. ASSUME NEW r \in Listings, EndListing(r) PROVE ShareInv'
  <2>1. PICK l \in ListingType : l = listing[r] /\ ListsOnce(l) /\ l.at = "walk"
    BY <1>7 DEF ShareInv, ShareTypes, EndListing
  <2>2. PICK m : m = [l EXCEPT !.at = "answered"]
    OBVIOUS
  <2>3. m \in ListingType /\ m.at = "answered" /\ m.array = l.array /\ m.len = l.len /\ m.read = l.read
    BY <2>2 DEF ListingType
  <2>4. UNCHANGED <<clock, link>> /\ listing' = [listing EXCEPT ![r] = m]
    BY <1>7, <2>1, <2>2 DEF EndListing
  <2>5. ListsOnce(m)'
    BY <2>1, <2>3, <2>4 DEF ListsOnce, OnceIn, Expired
  <2> QED BY <1>1, <2>3, <2>4, <2>5, ListingKeeps DEF ShareTypes
<1>8. CASE UNCHANGED shareVars
  BY <1>8 DEF shareVars, ShareInv, ShareTypes, ListsOnce, OnceIn, Expired
<1> QED BY <1>2, <1>3, <1>4, <1>5, <1>6, <1>7, <1>8 DEF ShareNext

\* At the start nothing is shared or listed.
LEMMA SharesStart == ShareInit => ShareInv
<1> SUFFICES ASSUME ShareInit PROVE ShareInv
  OBVIOUS
<1>1. clock \in 1 .. MaxClock
  BY HashNumbers DEF ShareInit
<1>2. Unused \in LinkType
  <2>1. (CHOOSE o \in Owners : TRUE) \in Owners
    BY FileSharesAssumption
  <2>2. 0 \in 0 .. MaxClock
    BY HashNumbers
  <2> QED BY <2>1, <2>2 DEF Unused, LinkType
<1>3. NotListing \in ListingType /\ NotListing.at = "idle"
  <2>1. <<>> \in Seq(Hashes) /\ 0 \in 0 .. Cardinality(Hashes) /\ {} \in SUBSET Hashes
    BY HashNumbers
  <2> QED BY <2>1 DEF ListingType, NotListing
<1> QED BY <1>1, <1>2, <1>3 DEF ShareInit, ShareInv, ShareTypes, ListsOnce

\* While the invariant holds a listing shows every link that lives once.
LEMMA SharesMean == ShareInv => ShareTypeOK /\ LiveLinksListedOnce
<1> SUFFICES ASSUME ShareInv PROVE ShareTypeOK /\ LiveLinksListedOnce
  OBVIOUS
<1>1. ShareTypeOK
  BY DEF ShareInv, ShareTypes, ShareTypeOK, LinkType, ListingType
<1>2. ASSUME NEW r \in Listings, listing[r].at = "answered", NEW h \in listing[r].read, ~Expired(h)
      PROVE  Cardinality({k \in DOMAIN Answer(r) : Answer(r)[k] = h}) = 1
  <2>1. PICK l \in ListingType : l = listing[r] /\ ListsOnce(l)
    BY DEF ShareInv, ShareTypes
  <2>2. PICK A \in Seq(Hashes), n \in Nat : A = l.array /\ n = l.len /\ n <= Len(A)
    BY <1>2, <2>1, HashNumbers DEF ListingType, ListsOnce
  <2>3. PICK k \in 1 .. n : \A j \in 1 .. n : A[j] = h <=> j = k
    BY <1>2, <2>1, <2>2 DEF ListsOnce, OnceIn, Once
  <2>4. PICK B : B = Answer(r) /\ B = SubSeq(A, 1, n)
    BY <2>1, <2>2 DEF Answer
  <2>5. DOMAIN B = 1 .. n /\ \A j \in 1 .. n : B[j] = A[j]
    BY <2>2, <2>4
  <2>6. {j \in DOMAIN B : B[j] = h} = {k}
    BY <2>3, <2>5
  <2>7. Cardinality({j \in DOMAIN B : B[j] = h}) = 1
    BY <2>6, FS_Singleton
  <2> QED BY <2>4, <2>7
<1> QED BY <1>1, <1>2 DEF LiveLinksListedOnce

\* For any number of links, users and listings: whatever links expire, are
\* deleted or visited while a listing cuts the expired ones out of the array it
\* ranges over, a link that has not expired is in its answer once (share/storage.go).
THEOREM LiveLinksListedOnceHolds == ShareSpec => [](ShareTypeOK /\ LiveLinksListedOnce)
<1>1. ShareSpec => []ShareInv
  BY SharesStart, SharesStep, PTL DEF ShareSpec
<1> QED BY <1>1, SharesMean, PTL

--------------------------------------------------------------------------------
(* The files of the file browser, and their previews. *)

\* Whose data a chunk of a file is.
Authors == Transfers \cup {NoOne}
\* What a file is made of; a hole is what nobody wrote.
Chunks == Authors \cup {"hole"}
\* Where a request is.
UploadPcs == {"new", "thumbs", "remove", "move", "source", "open", "write", "load", "make", "store", "stores", "answered"}
\* A file: its chunks and the second of its change.
FileType == [data : Seq(Chunks), changed : 0 .. MaxSeconds]
\* A request on files.
TransferType ==
  [kind : {"put", "post", "delete", "copy", "rename", "preview"}, at : UploadPcs, path : Paths,
   second : 0 .. MaxSeconds, source : 0 .. MaxFiles, target : 0 .. MaxFiles, done : 0 .. BodyLen, seen : Seq(Chunks)]
\* A preview in the cache.
ThumbType == [shows : Seq(Chunks), by : Authors]
\* The types.
UploadTypes ==
  /\ disk \in [Paths -> 0 .. MaxFiles] /\ seconds \in 1 .. MaxSeconds
  /\ files \in [Files -> FileType] /\ \A f \in Files : Len(files[f].data) <= BodyLen
  /\ transfer \in [Transfers -> TransferType]
  /\ thumb \in [Keys -> ThumbType]
  /\ spoiled \subseteq Files /\ raced \subseteq Keys

\* A request writes to a file that was made, has written nothing before, and
\* learned a second if it uses it.
Fine(t) ==
  /\ t.at = "write" => t.target # 0 /\ files[t.target].changed # 0
  /\ t.at # "write" => t.done = 0
  /\ t.at \in {"thumbs", "load", "make", "store", "stores"} => t.second # 0

\* A path names a file that was made, and no two the same.
Named ==
  /\ \A p \in Paths : disk[p] # 0 => files[disk[p]].changed # 0
  /\ \A p, q \in Paths : p # q /\ disk[p] # 0 => disk[p] # disk[q]
\* Of the files and the requests on them.
DiskInv == UploadTypes /\ Named /\ \A r \in Transfers : Fine(transfer[r])

\* A file that is not spoiled has one writer at most, is where that writer
\* made it, and holds what it wrote: its own chunks, or those of a source that
\* holds one body and that nobody writes to.
Solo(r) ==
  LET t == transfer[r] IN
  /\ \A s \in Writers(t.target) : s = r
  /\ \A p \in Paths : disk[p] = t.target => p = Target(r)
  /\ \E w \in Authors :
       /\ files[t.target].data = [i \in 1 .. t.done |-> w]
       /\ t.source = 0 => w = r
       /\ t.source # 0 /\ t.done > 0 => files[t.source].data = <<w, w>> /\ Writers(t.source) = {}
\* Of the files at rest, and those being written.
SavedInv ==
  /\ SavedWhole
  /\ \A r \in Transfers : transfer[r].at = "write" /\ transfer[r].target \notin spoiled => Solo(r)

\* Previews in the cache and on their way there show what their path named in
\* their second, but for those that were read too late.
PreviewInv ==
  /\ Names(disk, files) \subseteq held
  /\ \A k \in Keys : thumb[k].shows = <<>> \/ <<k[1], k[2], thumb[k].shows>> \in held \/ k \in raced
  /\ \A r \in Transfers : transfer[r].at \in {"store", "stores"} =>
       <<transfer[r].path, transfer[r].second, transfer[r].seen>> \in held \/ Key(r) \in raced

\* What every step keeps.
UploadInv == DiskInv /\ SavedInv /\ PreviewInv

\* The two paths, and the bounds.
LEMMA PathsAre ==
  /\ Paths = {"p", "q"} /\ Other("p") = "q" /\ Other("q") = "p"
  /\ \A p \in Paths : Other(p) \in Paths /\ Other(p) # p /\ \A x \in Paths : x = p \/ x = Other(p)
  /\ MaxFiles \in Nat \ {0} /\ MaxSeconds \in Nat \ {0} /\ Files = 1 .. MaxFiles /\ BodyLen = 2
<1>1. Other("p") \in Paths /\ Other("p") # "p"
  <2>1. "q" \in Paths /\ "q" # "p"
    BY DEF Paths
  <2> QED BY <2>1 DEF Other
<1>2. Other("q") \in Paths /\ Other("q") # "q"
  <2>1. "p" \in Paths /\ "q" # "p"
    BY DEF Paths
  <2> QED BY <2>1 DEF Other
<1>3. Other("p") = "q" /\ Other("q") = "p" /\ Paths = {"p", "q"}
  BY <1>1, <1>2 DEF Paths
<1> QED BY <1>3, UploadsAssumption DEF Files, BodyLen

\* A body of two chunks.
LEMMA BodiesAre == \A w : [i \in 1 .. 2 |-> w] = <<w, w>> /\ Len(<<w, w>>) = 2
<1> SUFFICES ASSUME NEW w PROVE [i \in 1 .. 2 |-> w] = <<w, w>> /\ Len(<<w, w>>) = 2
  OBVIOUS
<1>1. DOMAIN <<w, w>> = 1 .. 2 /\ Len(<<w, w>>) = 2 /\ <<w, w>>[1] = w /\ <<w, w>>[2] = w
  OBVIOUS
<1>2. \A i \in 1 .. 2 : <<w, w>>[i] = w
  <2>1. \A i \in 1 .. 2 : i = 1 \/ i = 2
    OBVIOUS
  <2> QED BY <1>1, <2>1
<1>3. <<w, w>> = [i \in 1 .. 2 |-> <<w, w>>[i]]
  BY <1>1
<1> QED BY <1>1, <1>2, <1>3

\* The request that has not come or is answered.
LEMMA NewIs ==
  /\ NewTransfer \in TransferType /\ NewTransfer.at = "new" /\ NewTransfer.done = 0
  /\ \A at \in UploadPcs : /\ [NewTransfer EXCEPT !.at = at] \in TransferType
                           /\ [NewTransfer EXCEPT !.at = at].at = at /\ [NewTransfer EXCEPT !.at = at].done = 0
<1>1. /\ 0 \in 0 .. MaxSeconds /\ 0 \in 0 .. MaxFiles /\ 0 \in 0 .. BodyLen /\ <<>> \in Seq(Chunks) /\ "p" \in Paths
      /\ "new" \in UploadPcs
  BY PathsAre DEF UploadPcs
<1>2. NewTransfer \in TransferType
  BY <1>1 DEF NewTransfer, TransferType
<1> QED BY <1>2 DEF TransferType, NewTransfer

\* One request goes on; no file changes, and paths at most lose their names.
LEMMA DiskKeeps ==
  ASSUME DiskInv, NEW r \in Transfers, NEW m \in TransferType, transfer' = [transfer EXCEPT ![r] = m], Fine(m),
         UNCHANGED <<files, seconds>>, disk' \in [Paths -> 0 .. MaxFiles], \A p \in Paths : disk'[p] \in {0, disk[p]},
         thumb' \in [Keys -> ThumbType], spoiled' \subseteq Files, raced' \subseteq Keys
  PROVE  /\ DiskInv' /\ transfer'[r] = m /\ \A s \in Transfers : s # r => transfer'[s] = transfer[s]
<1>1. /\ transfer' \in [Transfers -> TransferType] /\ transfer'[r] = m
      /\ \A s \in Transfers : s # r => transfer'[s] = transfer[s]
  BY DEF DiskInv, UploadTypes
<1>2. \A s \in Transfers : Fine(transfer'[s])
  BY <1>1 DEF DiskInv
<1>3. \A s \in Transfers : Fine(transfer[s])'
  BY <1>2 DEF Fine
<1>4. UploadTypes'
  BY <1>1 DEF DiskInv, UploadTypes
<1>5. Named'
  BY DEF DiskInv, Named
<1> QED BY <1>1, <1>3, <1>4, <1>5 DEF DiskInv

\* One request goes on without writing from now on: if it was writing, its file
\* is whole, spoiled or has lost its name.
LEMMA SavedKeeps ==
  ASSUME DiskInv, SavedInv, NEW r \in Transfers, UNCHANGED files, spoiled \subseteq spoiled',
         \A p \in Paths : disk'[p] \in {0, disk[p]},
         \A s \in Transfers : s # r => transfer'[s] = transfer[s], transfer'[r].at # "write",
         transfer[r].at = "write" =>
           \A p \in Paths : disk'[p] = transfer[r].target /\ disk'[p] \notin spoiled' => Whole(files[disk'[p]].data)
  PROVE  SavedInv'
<1>1. \A f : Writers(f)' \subseteq Writers(f) /\ \A s \in Writers(f) : s = r \/ s \in Writers(f)'
  BY DEF Writers
<1>2. SavedWhole'
  <2> SUFFICES ASSUME NEW p \in Paths, disk'[p] # 0, disk'[p] \notin spoiled', Writers(disk[p])' = {}
               PROVE  Whole(files[disk[p]].data)'
    BY DEF SavedWhole
  <2>1. disk'[p] = disk[p] /\ disk[p] \notin spoiled
    OBVIOUS
  <2>2. CASE r \in Writers(disk[p])
    BY <2>1, <2>2 DEF Writers, Whole
  <2>3. CASE r \notin Writers(disk[p])
    <3>1. PICK f : f = disk[p] /\ f = disk'[p]
      BY <2>1
    <3>2. Writers(f)' = Writers(disk[p])'
      BY <3>1 DEF Writers
    <3>3. Writers(disk[p]) = {}
      BY <1>1, <2>3, <3>1, <3>2
    <3> QED BY <2>1, <3>3 DEF SavedInv, SavedWhole, Whole
  <2> QED BY <2>2, <2>3
<1>3. ASSUME NEW s \in Transfers, transfer'[s].at = "write", transfer'[s].target \notin spoiled'
      PROVE  Solo(s)'
  <2>1. s # r /\ transfer'[s] = transfer[s] /\ Solo(s)
    BY <1>3 DEF SavedInv
  <2>8. PICK t : t = transfer[s]
    OBVIOUS
  <2>2. PICK w \in Authors :
          /\ t = transfer[s] /\ files[t.target].data = [i \in 1 .. t.done |-> w]
          /\ t.source = 0 => w = s
          /\ t.source # 0 /\ t.done > 0 => files[t.source].data = <<w, w>> /\ Writers(t.source) = {}
    BY <2>1, <2>8 DEF Solo
  <2>3. Target(s)' = Target(s)
    BY <2>1 DEF Target
  <2>4. \A x \in Writers(t.target)' : x = s
    BY <1>1, <2>1, <2>2 DEF Solo
  <2>5. t.target # 0
    BY <1>3, <2>1, <2>2 DEF DiskInv, Fine
  <2>6. \A p \in Paths : disk'[p] = t.target => p = Target(s)'
    BY <2>1, <2>2, <2>3, <2>5 DEF Solo
  <2>7. t.source # 0 /\ t.done > 0 => Writers(t.source)' = {}
    BY <1>1, <2>2
  <2> QED BY <2>1, <2>2, <2>4, <2>6, <2>7 DEF Solo, Authors
<1> QED BY <1>2, <1>3 DEF SavedInv, Authors

\* Paths lose their names and previews come from requests, if at all.
LEMMA PreviewsKeep ==
  ASSUME DiskInv, PreviewInv, held \subseteq held', raced \subseteq raced',
         Names(disk', files') \subseteq held',
         \A k \in Keys : thumb'[k].shows \in {<<>>, thumb[k].shows} \/ <<k[1], k[2], thumb'[k].shows>> \in held' \/ k \in raced',
         \A r \in Transfers : transfer'[r].at \in {"store", "stores"} =>
           \/ transfer[r].at \in {"store", "stores"} /\ transfer'[r].path = transfer[r].path
              /\ transfer'[r].second = transfer[r].second /\ transfer'[r].seen = transfer[r].seen
           \/ <<transfer'[r].path, transfer'[r].second, transfer'[r].seen>> \in held' \/ Key(r)' \in raced'
  PROVE  PreviewInv'
<1>1. \A k \in Keys : thumb'[k].shows = <<>> \/ <<k[1], k[2], thumb'[k].shows>> \in held' \/ k \in raced'
  BY DEF PreviewInv
<1>2. \A r \in Transfers : transfer'[r].at \in {"store", "stores"} =>
        <<transfer'[r].path, transfer'[r].second, transfer'[r].seen>> \in held' \/ Key(r)' \in raced'
  <2> SUFFICES ASSUME NEW r \in Transfers, transfer'[r].at \in {"store", "stores"}
               PROVE  <<transfer'[r].path, transfer'[r].second, transfer'[r].seen>> \in held' \/ Key(r)' \in raced'
    OBVIOUS
  <2>1. CASE /\ transfer[r].at \in {"store", "stores"} /\ transfer'[r].path = transfer[r].path
             /\ transfer'[r].second = transfer[r].second /\ transfer'[r].seen = transfer[r].seen
    <3>1. Key(r)' = Key(r)
      BY <2>1 DEF Key, previewCacheKey
    <3> QED BY <2>1, <3>1 DEF PreviewInv
  <2> QED BY <2>1
<1>3. Names(disk, files)' = Names(disk', files')
  OBVIOUS
<1> QED BY <1>1, <1>2, <1>3 DEF PreviewInv

\* What a path is named shrinks with the names.
LEMMA NamesShrink ==
  ASSUME UNCHANGED files, \A p \in Paths : disk'[p] \in {0, disk[p]}
  PROVE  Names(disk', files') \subseteq Names(disk, files)
BY DEF Names, Here

\* One request goes on without writing from now on.
LEMMA RequestKeeps ==
  ASSUME UploadInv, NEW r \in Transfers, NEW m \in TransferType, transfer' = [transfer EXCEPT ![r] = m],
         Fine(m), m.at # "write",
         transfer[r].at = "write" =>
           \A p \in Paths : disk'[p] = transfer[r].target /\ disk'[p] \notin spoiled' => Whole(files[disk'[p]].data),
         UNCHANGED <<files, seconds>>, disk' \in [Paths -> 0 .. MaxFiles], \A p \in Paths : disk'[p] \in {0, disk[p]},
         spoiled \subseteq spoiled', spoiled' \subseteq Files, held \subseteq held',
         raced \subseteq raced', raced' \subseteq Keys, thumb' \in [Keys -> ThumbType],
         \A k \in Keys : thumb'[k].shows \in {<<>>, thumb[k].shows} \/ <<k[1], k[2], thumb'[k].shows>> \in held \/ k \in raced,
         m.at \in {"store", "stores"} =>
           \/ transfer[r].at \in {"store", "stores"} /\ m.path = transfer[r].path
              /\ m.second = transfer[r].second /\ m.seen = transfer[r].seen
           \/ <<m.path, m.second, m.seen>> \in held \/ previewCacheKey(m.path, m.second) \in raced'
  PROVE  UploadInv'
<1>1. /\ DiskInv' /\ transfer'[r] = m /\ \A s \in Transfers : s # r => transfer'[s] = transfer[s]
  BY DiskKeeps DEF UploadInv
<1>2. SavedInv'
  BY <1>1, SavedKeeps DEF UploadInv
<1>3. Names(disk', files') \subseteq held'
  BY NamesShrink DEF UploadInv, PreviewInv
<1>4. \A s \in Transfers : transfer'[s].at \in {"store", "stores"} =>
           \/ transfer[s].at \in {"store", "stores"} /\ transfer'[s].path = transfer[s].path
              /\ transfer'[s].second = transfer[s].second /\ transfer'[s].seen = transfer[s].seen
           \/ <<transfer'[s].path, transfer'[s].second, transfer'[s].seen>> \in held' \/ Key(s)' \in raced'
  <2> SUFFICES ASSUME NEW s \in Transfers, transfer'[s].at \in {"store", "stores"}
               PROVE  \/ transfer[s].at \in {"store", "stores"} /\ transfer'[s].path = transfer[s].path
                         /\ transfer'[s].second = transfer[s].second /\ transfer'[s].seen = transfer[s].seen
                      \/ <<transfer'[s].path, transfer'[s].second, transfer'[s].seen>> \in held' \/ Key(s)' \in raced'
    OBVIOUS
  <2>1. CASE s # r
    BY <1>1, <2>1
  <2>2. CASE s = r
    <3>1. Key(s)' = previewCacheKey(m.path, m.second)
      BY <1>1, <2>2 DEF Key, previewCacheKey
    <3> QED BY <1>1, <2>2, <3>1
  <2> QED BY <2>1, <2>2
<1>5. \A k \in Keys : thumb'[k].shows \in {<<>>, thumb[k].shows} \/ <<k[1], k[2], thumb'[k].shows>> \in held' \/ k \in raced'
  OBVIOUS
<1>6. PreviewInv'
  BY <1>3, <1>4, <1>5, PreviewsKeep DEF UploadInv
<1> QED BY <1>1, <1>2, <1>6 DEF UploadInv

\* Where a request can be in the cache, there is an entry.
LEMMA KeyIs ==
  ASSUME DiskInv, NEW r \in Transfers, transfer[r].at \in {"thumbs", "load", "make", "store", "stores"}
  PROVE  Key(r) \in Keys /\ Key(r) = <<transfer[r].path, transfer[r].second>>
<1>1. transfer[r].path \in Paths /\ transfer[r].second \in 1 .. MaxSeconds
  <2>1. transfer[r] \in TransferType /\ transfer[r].second # 0
    BY DEF DiskInv, UploadTypes, Fine
  <2> QED BY <2>1, PathsAre DEF TransferType
<1> QED BY <1>1 DEF Key, previewCacheKey, Keys

\* A request comes.
LEMMA BeginsKeeps ==
  ASSUME UploadInv, NEW r \in Transfers, NEW method \in {"put", "post", "delete", "copy", "rename", "preview"},
         NEW p \in Paths, NEW at \in {"thumbs", "source", "open", "load", "answered"},
         at \in {"thumbs", "load"} => disk[p] # 0, Begins(r, method, p, at)
  PROVE  UploadInv'
<1>1. PICK m : m = (IF at = "answered" THEN [NewTransfer EXCEPT !.at = at]
                    ELSE [NewTransfer EXCEPT !.kind = method, !.path = p, !.at = at, !.second = Learned(p)])
  OBVIOUS
<1>2. at \in UploadPcs
  BY DEF UploadPcs
<1>3. Learned(p) \in 0 .. MaxSeconds /\ (disk[p] # 0 => Learned(p) # 0)
  <2>1. CASE disk[p] = 0
    BY <2>1, PathsAre DEF Learned
  <2>2. CASE disk[p] # 0
    <3>1. disk[p] \in Files
      BY <2>2, PathsAre DEF UploadInv, DiskInv, UploadTypes
    <3>2. files[disk[p]] \in FileType /\ files[disk[p]].changed # 0
      BY <2>2, <3>1 DEF UploadInv, DiskInv, UploadTypes, Named
    <3> QED BY <2>2, <3>2 DEF Learned, FileType
  <2> QED BY <2>1, <2>2
<1>4. m \in TransferType /\ m.at = at /\ m.done = 0 /\ (at # "answered" => m.second = Learned(p))
  BY <1>1, <1>2, <1>3, NewIs DEF TransferType
<1>5. Fine(m) /\ m.at \notin {"write", "store", "stores"}
  BY <1>3, <1>4 DEF Fine
<1>6. /\ transfer' = [transfer EXCEPT ![r] = m] /\ transfer[r].at = "new"
      /\ UNCHANGED <<disk, files, thumb, seconds, spoiled, held, raced>>
  BY <1>1 DEF Begins
<1>7. /\ disk' \in [Paths -> 0 .. MaxFiles] /\ thumb' \in [Keys -> ThumbType] /\ spoiled' \subseteq Files
      /\ raced' \subseteq Keys
  BY <1>6 DEF UploadInv, DiskInv, UploadTypes
<1>8. \A k \in Keys : thumb'[k].shows \in {<<>>, thumb[k].shows}
  BY <1>6
<1> QED BY <1>4, <1>5, <1>6, <1>7, <1>8, RequestKeeps

\* What a handler does first is to begin.
LEMMA HandlersBegin ==
  ASSUME UploadInv, NEW r \in Transfers, NEW p \in Paths,
         \/ ResourcePut(r, p) \/ ResourcePost(r, p) \/ ResourceDelete(r, p)
         \/ ResourcePatch(r, p) \/ HandleImagePreview(r, p)
  PROVE  UploadInv'
<1>1. \E method \in {"put", "post", "delete", "copy", "rename", "preview"},
         at \in {"thumbs", "source", "open", "load", "answered"} :
        (at \in {"thumbs", "load"} => disk[p] # 0) /\ Begins(r, method, p, at)
  <2>1. CASE ResourcePut(r, p)
    BY <2>1 DEF ResourcePut
  <2>2. CASE ResourcePost(r, p)
    BY <2>2 DEF ResourcePost
  <2>3. CASE ResourceDelete(r, p)
    <3>1. CASE disk[p] = 0
      BY <2>3, <3>1 DEF ResourceDelete
    <3>2. CASE disk[p] # 0
      BY <2>3, <3>2 DEF ResourceDelete
    <3> QED BY <3>1, <3>2
  <2>4. CASE ResourcePatch(r, p)
    BY <2>4 DEF ResourcePatch
  <2>5. CASE HandleImagePreview(r, p)
    <3>1. CASE disk[p] = 0
      BY <2>5, <3>1 DEF HandleImagePreview
    <3>2. CASE disk[p] # 0
      BY <2>5, <3>2 DEF HandleImagePreview
    <3> QED BY <3>1, <3>2
  <2> QED BY <2>1, <2>2, <2>3, <2>4, <2>5
<1> QED BY <1>1, BeginsKeeps

\* A request that enters another stage stays what it was, and one that is
\* answered is no more.
LEMMA EntersIs ==
  ASSUME DiskInv, NEW r \in Transfers, NEW at \in UploadPcs \ {"write"}
  PROVE  /\ \E m \in TransferType :
              /\ m = [transfer[r] EXCEPT !.at = at] /\ m.at = at
              /\ m.path = transfer[r].path /\ m.second = transfer[r].second /\ m.seen = transfer[r].seen
              /\ m.done = transfer[r].done /\ (Enters(r, at) <=> transfer' = [transfer EXCEPT ![r] = m])
         /\ \E m \in TransferType :
              /\ m.at = "answered" /\ m.done = 0 /\ Fine(m)
              /\ (Answered(r) <=> transfer' = [transfer EXCEPT ![r] = m])
<1>1. PICK t \in TransferType : t = transfer[r]
  BY DEF DiskInv, UploadTypes
<1>2. [t EXCEPT !.at = at] \in TransferType
  BY DEF TransferType
<1>3. PICK m \in TransferType : m = [t EXCEPT !.at = at]
  BY <1>2
<1>4. /\ m.at = at /\ m.path = t.path /\ m.second = t.second /\ m.seen = t.seen /\ m.done = t.done
  BY <1>3 DEF TransferType
<1>5. Enters(r, at) <=> transfer' = [transfer EXCEPT ![r] = m]
  BY <1>1, <1>3 DEF Enters
<1>6. "answered" \in UploadPcs
  BY DEF UploadPcs
<1>7. PICK n : n = [NewTransfer EXCEPT !.at = "answered"]
  OBVIOUS
<1>8. n \in TransferType /\ n.at = "answered" /\ n.done = 0
  BY <1>6, <1>7, NewIs
<1>9. Fine(n) /\ (Answered(r) <=> transfer' = [transfer EXCEPT ![r] = n])
  BY <1>7, <1>8 DEF Fine, Answered
<1> QED BY <1>1, <1>3, <1>4, <1>5, <1>8, <1>9

\* The steps of a request that leave the files alone, but for paths that lose their names.
LEMMA QuietSteps ==
  ASSUME UploadInv, NEW r \in Transfers,
         \/ DelThumbs(r) \/ Delete(r) \/ OpenSource(r) \/ Load(r) \/ StoreBegins(r) \/ StoreEnds(r)
  PROVE  UploadInv'
<1>1. PICK t \in TransferType : t = transfer[r] /\ Fine(t)
  BY DEF UploadInv, DiskInv, UploadTypes
<1>2. /\ DiskInv /\ disk \in [Paths -> 0 .. MaxFiles] /\ thumb \in [Keys -> ThumbType] /\ spoiled \subseteq Files
      /\ raced \subseteq Keys
  BY DEF UploadInv, DiskInv, UploadTypes
<1>3. <<>> \in Seq(Chunks) /\ \A k \in Keys : thumb[k] \in ThumbType
  BY <1>2
<1>4. CASE DelThumbs(r)
  <2>1. PICK at \in {"open", "remove", "move"} : Enters(r, at)
    BY <1>4 DEF DelThumbs
  <2>2. at \in UploadPcs \ {"write"}
    BY DEF UploadPcs
  <2>3. PICK m \in TransferType : /\ m.at = at /\ m.done = t.done /\ transfer' = [transfer EXCEPT ![r] = m]
    BY <1>1, <1>2, <2>1, <2>2, EntersIs
  <2>4. t.at = "thumbs" /\ UNCHANGED <<disk, files, seconds, spoiled, held, raced>>
    BY <1>1, <1>4 DEF DelThumbs
  <2>5. Fine(m) /\ m.at \notin {"write", "store", "stores"}
    BY <1>1, <2>3, <2>4 DEF Fine
  <2>6. PICK k \in Keys : thumb' = [thumb EXCEPT ![k].shows = <<>>]
    BY <1>1, <1>2, <1>4, <2>4, KeyIs DEF DelThumbs
  <2>7. thumb' \in [Keys -> ThumbType] /\ \A j \in Keys : thumb'[j].shows \in {<<>>, thumb[j].shows}
    <3>1. PICK e : e = [thumb[k] EXCEPT !.shows = <<>>]
      OBVIOUS
    <3>2. e \in ThumbType /\ e.shows = <<>>
      BY <1>3, <3>1 DEF ThumbType
    <3>3. thumb' = [thumb EXCEPT ![k] = e]
      BY <2>6, <3>1
    <3> QED BY <1>2, <3>2, <3>3
  <2> QED BY <1>1, <1>2, <2>3, <2>4, <2>5, <2>7, RequestKeeps
<1>5. CASE Delete(r)
  <2>1. PICK m \in TransferType : m.at = "answered" /\ Fine(m) /\ transfer' = [transfer EXCEPT ![r] = m]
    <3>1. "new" \in UploadPcs \ {"write"}
      BY DEF UploadPcs
    <3> QED BY <1>2, <1>5, <3>1, EntersIs DEF Delete
  <2>2. /\ t.at = "remove" /\ UNCHANGED <<files, thumb, seconds, spoiled, held, raced>>
        /\ disk' \in {disk, [disk EXCEPT ![t.path] = 0]}
    BY <1>1, <1>5 DEF Delete
  <2>3. disk' \in [Paths -> 0 .. MaxFiles] /\ \A p \in Paths : disk'[p] \in {0, disk[p]}
    <3>1. t.path \in Paths /\ 0 \in 0 .. MaxFiles
      BY PathsAre DEF TransferType
    <3> QED BY <1>2, <2>2, <3>1
  <2>4. \A k \in Keys : thumb'[k].shows \in {<<>>, thumb[k].shows}
    BY <2>2
  <2> QED BY <1>1, <1>2, <2>1, <2>2, <2>3, <2>4, RequestKeeps
<1>6. CASE OpenSource(r)
  <2>1. /\ t.at = "source" /\ disk[t.path] # 0 /\ UNCHANGED <<disk, files, thumb, seconds, spoiled, held, raced>>
        /\ transfer' = [transfer EXCEPT ![r] = [t EXCEPT !.at = "open", !.source = disk[t.path]]]
    BY <1>1, <1>6 DEF OpenSource
  <2>2. PICK m : m = [t EXCEPT !.at = "open", !.source = disk[t.path]]
    OBVIOUS
  <2>3. m \in TransferType /\ m.at = "open" /\ m.done = t.done
    <3>1. t.path \in Paths /\ "open" \in UploadPcs
      BY DEF TransferType, UploadPcs
    <3>2. disk[t.path] \in 0 .. MaxFiles
      BY <1>2, <3>1
    <3> QED BY <2>2, <3>1, <3>2 DEF TransferType
  <2>4. Fine(m)
    BY <1>1, <2>1, <2>3 DEF Fine
  <2>5. \A k \in Keys : thumb'[k].shows \in {<<>>, thumb[k].shows}
    BY <2>1
  <2> QED BY <1>1, <1>2, <2>1, <2>2, <2>3, <2>4, <2>5, RequestKeeps
<1>7. CASE Load(r)
  <2>1. t.at = "load" /\ UNCHANGED <<disk, files, thumb, seconds, spoiled, held, raced>> /\ (Answered(r) \/ Enters(r, "make"))
    BY <1>1, <1>7 DEF Load
  <2>2. "make" \in UploadPcs \ {"write"}
    BY DEF UploadPcs
  <2>3. PICK m \in TransferType :
          /\ transfer' = [transfer EXCEPT ![r] = m]
          /\ \/ m.at = "answered" /\ Fine(m)
             \/ m.at = "make" /\ m.done = t.done /\ m.second = t.second
    <3>1. CASE Answered(r)
      BY <1>2, <2>2, <3>1, EntersIs
    <3>2. CASE Enters(r, "make")
      BY <1>1, <1>2, <2>2, <3>2, EntersIs
    <3> QED BY <2>1, <3>1, <3>2
  <2>4. Fine(m) /\ m.at \notin {"write", "store", "stores"}
    BY <1>1, <2>1, <2>3 DEF Fine
  <2>5. \A k \in Keys : thumb'[k].shows \in {<<>>, thumb[k].shows}
    BY <2>1
  <2> QED BY <1>1, <1>2, <2>1, <2>3, <2>4, <2>5, RequestKeeps
<1>8. CASE StoreBegins(r)
  <2>1. "stores" \in UploadPcs \ {"write"}
    BY DEF UploadPcs
  <2>2. t.at = "store" /\ UNCHANGED <<disk, files, seconds, spoiled, held, raced>> /\ Enters(r, "stores")
    BY <1>1, <1>8 DEF StoreBegins
  <2>3. PICK m \in TransferType :
          /\ transfer' = [transfer EXCEPT ![r] = m] /\ m.at = "stores" /\ m.path = t.path /\ m.second = t.second
          /\ m.seen = t.seen /\ m.done = t.done
    BY <1>1, <1>2, <2>1, <2>2, EntersIs
  <2>4. Fine(m)
    BY <1>1, <2>2, <2>3 DEF Fine
  <2>5. PICK k \in Keys : thumb' = [thumb EXCEPT ![k] = [shows |-> <<>>, by |-> r]]
    BY <1>1, <1>2, <1>8, <2>2, KeyIs DEF StoreBegins
  <2>6. thumb' \in [Keys -> ThumbType] /\ \A j \in Keys : thumb'[j].shows \in {<<>>, thumb[j].shows}
    <3>1. [shows |-> <<>>, by |-> r] \in ThumbType
      BY <1>3 DEF ThumbType, Authors
    <3> QED BY <1>2, <2>5, <3>1
  <2> QED BY <1>1, <1>2, <2>2, <2>3, <2>4, <2>6, RequestKeeps
<1>9. CASE StoreEnds(r)
  <2>1. t.at = "stores" /\ UNCHANGED <<disk, files, seconds, spoiled, held, raced>> /\ Answered(r)
    BY <1>1, <1>9 DEF StoreEnds
  <2>2. PICK m \in TransferType : m.at = "answered" /\ Fine(m) /\ transfer' = [transfer EXCEPT ![r] = m]
    <3>1. "new" \in UploadPcs \ {"write"}
      BY DEF UploadPcs
    <3> QED BY <1>2, <2>1, <3>1, EntersIs
  <2>3. Key(r) \in Keys /\ Key(r) = <<t.path, t.second>>
    BY <1>1, <1>2, <2>1, KeyIs
  <2>4. PICK k \in Keys : k = Key(r) /\ k[1] = t.path /\ k[2] = t.second /\ thumb' = [thumb EXCEPT ![k] = [shows |-> t.seen, by |-> NoOne]]
    BY <1>1, <1>9, <2>3 DEF StoreEnds
  <2>5. thumb' \in [Keys -> ThumbType] /\ thumb'[k].shows = t.seen /\ \A j \in Keys : j # k => thumb'[j] = thumb[j]
    <3>1. [shows |-> t.seen, by |-> NoOne] \in ThumbType
      BY DEF ThumbType, TransferType, Authors
    <3> QED BY <1>2, <2>4, <3>1
  <2>6. <<t.path, t.second, t.seen>> \in held \/ k \in raced
    BY <1>1, <2>1, <2>4 DEF UploadInv, PreviewInv
  <2>7. \A j \in Keys : thumb'[j].shows \in {<<>>, thumb[j].shows} \/ <<j[1], j[2], thumb'[j].shows>> \in held \/ j \in raced
    BY <2>4, <2>5, <2>6
  <2> QED BY <1>1, <1>2, <2>1, <2>2, <2>5, <2>7, RequestKeeps
<1> QED BY <1>4, <1>5, <1>6, <1>7, <1>8, <1>9

\* The end of an answer: a preview that was made is of what the path named in
\* that second, or it was read too late.
LEMMA PreviewMade == ASSUME UploadInv, NEW r \in Transfers, CreatePreview(r) PROVE UploadInv'
<1>1. PICK t \in TransferType : t = transfer[r] /\ Fine(t) /\ t.at = "make" /\ t.path \in Paths
  BY DEF UploadInv, DiskInv, UploadTypes, CreatePreview, TransferType
<1>2. /\ DiskInv /\ disk \in [Paths -> 0 .. MaxFiles] /\ thumb \in [Keys -> ThumbType] /\ spoiled \subseteq Files
      /\ raced \subseteq Keys /\ UNCHANGED <<disk, files, thumb, seconds, spoiled, held>>
  BY DEF UploadInv, DiskInv, UploadTypes, CreatePreview
<1>3. Key(r) \in Keys /\ Key(r) = previewCacheKey(t.path, t.second)
  BY <1>1, <1>2, KeyIs DEF Key
<1>4. \A k \in Keys : thumb'[k].shows \in {<<>>, thumb[k].shows}
  BY <1>2
<1>5. CASE Here(disk, files, t.path)
  <2>1. PICK d : d = disk[t.path] /\ d \in Files
    BY <1>1, <1>2, <1>5, PathsAre DEF Here
  <2>2. /\ transfer' = [transfer EXCEPT ![r] = [t EXCEPT !.at = "store", !.seen = files[d].data]]
        /\ raced' = IF files[d].changed = t.second THEN raced ELSE raced \cup {Key(r)}
    BY <1>1, <1>5, <2>1 DEF CreatePreview
  <2>3. PICK m : m = [t EXCEPT !.at = "store", !.seen = files[d].data]
    OBVIOUS
  <2>4. /\ m \in TransferType /\ m.at = "store" /\ m.path = t.path /\ m.second = t.second /\ m.done = t.done
        /\ m.seen = files[d].data
    <3>1. "store" \in UploadPcs /\ files[d] \in FileType
      BY <1>2, <2>1 DEF UploadPcs, DiskInv, UploadTypes
    <3> QED BY <2>3, <3>1 DEF TransferType, FileType
  <2>5. Fine(m)
    BY <1>1, <2>4 DEF Fine
  <2>6. <<t.path, files[d].changed, files[d].data>> \in held
    <3>1. <<t.path, files[d].changed, files[d].data>> \in Names(disk, files)
      BY <1>1, <1>5, <2>1 DEF Names
    <3> QED BY <3>1 DEF UploadInv, PreviewInv
  <2>7. <<m.path, m.second, m.seen>> \in held \/ previewCacheKey(m.path, m.second) \in raced'
    <3>1. CASE files[d].changed = t.second
      BY <2>4, <2>6, <3>1
    <3>2. CASE files[d].changed # t.second
      BY <1>3, <2>2, <2>4, <3>2
    <3> QED BY <3>1, <3>2
  <2>8. raced \subseteq raced' /\ raced' \subseteq Keys
    BY <1>2, <1>3, <2>2
  <2> QED BY <1>1, <1>2, <1>4, <2>2, <2>3, <2>4, <2>5, <2>7, <2>8, RequestKeeps
<1>6. CASE ~Here(disk, files, t.path)
  <2>1. Answered(r) /\ UNCHANGED raced
    BY <1>1, <1>6 DEF CreatePreview
  <2>2. PICK m \in TransferType : m.at = "answered" /\ Fine(m) /\ transfer' = [transfer EXCEPT ![r] = m]
    <3>1. "new" \in UploadPcs \ {"write"}
      BY DEF UploadPcs
    <3> QED BY <1>2, <2>1, <3>1, EntersIs
  <2> QED BY <1>1, <1>2, <1>4, <2>1, <2>2, RequestKeeps
<1> QED BY <1>5, <1>6

\* What taints a copy.
LEMMA TaintsAre ==
  ASSUME NEW r, transfer[r].source # 0, transfer[r].target \notin Taints(r)
  PROVE  /\ Writers(transfer[r].source) = {} /\ transfer[r].source \notin spoiled
         /\ \E w \in Authors : files[transfer[r].source].data = <<w, w>>
BY DEF Taints, Whole, Authors

\* A request that wrote its body, or all of its source, leaves a whole file.
LEMMA WrittenKeeps == ASSUME UploadInv, NEW r \in Transfers, Written(r) PROVE UploadInv'
<1>1. PICK t \in TransferType : t = transfer[r] /\ Fine(t) /\ t.at = "write"
  BY DEF UploadInv, DiskInv, UploadTypes, Written
<1>2. /\ DiskInv /\ disk \in [Paths -> 0 .. MaxFiles] /\ thumb \in [Keys -> ThumbType] /\ spoiled \subseteq Files
      /\ raced \subseteq Keys /\ UNCHANGED <<files, thumb, seconds, held, raced>>
  BY DEF UploadInv, DiskInv, UploadTypes, Written
<1>3. PICK m \in TransferType : m.at = "answered" /\ Fine(m) /\ transfer' = [transfer EXCEPT ![r] = m]
  <2>1. "new" \in UploadPcs \ {"write"}
    BY DEF UploadPcs
  <2> QED BY <1>2, <2>1, EntersIs DEF Written
<1>4. disk' \in [Paths -> 0 .. MaxFiles] /\ \A p \in Paths : disk'[p] \in {0, disk[p]}
  <2>1. t.path \in Paths /\ 0 \in 0 .. MaxFiles /\ disk' \in {disk, [disk EXCEPT ![t.path] = 0]}
    BY <1>1, PathsAre DEF TransferType, Written
  <2> QED BY <1>2, <2>1
<1>5. t.target \in Files /\ t.done \in 0 .. 2
  BY <1>1, PathsAre DEF Fine, TransferType
<1>6. spoiled' = spoiled \cup Taints(r) /\ spoiled' \subseteq Files
  BY <1>1, <1>2, <1>5 DEF Written, Taints
<1>7. t.target \notin spoiled' => Whole(files[t.target].data)
  <2> SUFFICES ASSUME t.target \notin spoiled' PROVE Whole(files[t.target].data)
    OBVIOUS
  <2>1. Solo(r)
    BY <1>1, <1>6 DEF UploadInv, SavedInv
  <2>2. PICK w \in Authors :
          /\ files[t.target].data = [i \in 1 .. t.done |-> w]
          /\ t.source # 0 /\ t.done > 0 => files[t.source].data = <<w, w>>
    BY <1>1, <2>1 DEF Solo
  <2>3. t.done = 2
    <3>1. CASE t.source = 0
      BY <1>1, <3>1, PathsAre DEF Written
    <3>2. CASE t.source # 0
      <4>1. PICK v \in Authors : files[t.source].data = <<v, v>>
        BY <1>1, <1>6, <3>2, TaintsAre
      <4>2. Len(files[t.source].data) = 2
        BY <4>1, BodiesAre
      <4>3. t.done = 2 \/ t.done >= 2
        BY <1>1, <4>2, PathsAre DEF Written
      <4> QED BY <1>5, <4>3
    <3> QED BY <3>1, <3>2
  <2>4. files[t.target].data = <<w, w>>
    BY <2>2, <2>3, BodiesAre
  <2> QED BY <2>4 DEF Whole, Authors
<1>8. \A p \in Paths : disk'[p] = t.target /\ disk'[p] \notin spoiled' => Whole(files[disk'[p]].data)
  BY <1>7
<1>9. \A k \in Keys : thumb'[k].shows \in {<<>>, thumb[k].shows}
  BY <1>2
<1> QED BY <1>1, <1>2, <1>3, <1>4, <1>6, <1>8, <1>9, RequestKeeps

\* A request that fails takes its file's name with it, or leaves it spoiled.
LEMMA FailsKeeps == ASSUME UploadInv, NEW r \in Transfers, Fails(r) PROVE UploadInv'
<1>1. PICK t \in TransferType : t = transfer[r] /\ Fine(t)
  BY DEF UploadInv, DiskInv, UploadTypes
<1>2. /\ DiskInv /\ disk \in [Paths -> 0 .. MaxFiles] /\ thumb \in [Keys -> ThumbType] /\ spoiled \subseteq Files
      /\ raced \subseteq Keys /\ UNCHANGED <<files, thumb, seconds, held, raced>>
  BY DEF UploadInv, DiskInv, UploadTypes, Fails
<1>3. PICK m \in TransferType : m.at = "answered" /\ Fine(m) /\ transfer' = [transfer EXCEPT ![r] = m]
  <2>1. "new" \in UploadPcs \ {"write"}
    BY DEF UploadPcs
  <2> QED BY <1>2, <2>1, EntersIs DEF Fails
<1>4. t.path \in Paths /\ Target(r) \in Paths
  BY <1>1, PathsAre DEF TransferType, Target
<1>5. disk' = (IF t.kind = "copy" THEN disk ELSE [disk EXCEPT ![Target(r)] = 0])
  BY <1>1 DEF Fails, CleanUp
<1>6. disk' \in [Paths -> 0 .. MaxFiles] /\ \A p \in Paths : disk'[p] \in {0, disk[p]}
  <2>1. 0 \in 0 .. MaxFiles
    BY PathsAre
  <2> QED BY <1>2, <1>4, <1>5, <2>1
<1>7. spoiled' = spoiled \cup {f \in {t.target} : f # 0 /\ t.kind = "copy"}
  BY <1>1 DEF Fails
<1>8. spoiled' \subseteq Files
  <2>1. t.target \in 0 .. MaxFiles
    BY <1>1 DEF TransferType
  <2>2. t.target # 0 => t.target \in Files
    BY <2>1, PathsAre
  <2> QED BY <1>2, <1>7, <2>2
<1>9. ASSUME t.at = "write", NEW p \in Paths, disk'[p] = t.target, disk'[p] \notin spoiled' PROVE FALSE
  <2>1. t.target # 0
    BY <1>1, <1>9 DEF Fine
  <2>2. t.kind # "copy" /\ t.target \notin spoiled
    BY <1>7, <1>9, <2>1
  <2>3. Solo(r)
    BY <1>1, <1>9, <2>2 DEF UploadInv, SavedInv
  <2>4. p = Target(r)
    BY <1>1, <1>6, <1>9, <2>1, <2>3 DEF Solo
  <2> QED BY <1>2, <1>4, <1>5, <1>9, <2>1, <2>2, <2>4
<1>10. \A k \in Keys : thumb'[k].shows \in {<<>>, thumb[k].shows}
  BY <1>2
<1> QED BY <1>1, <1>2, <1>3, <1>6, <1>7, <1>8, <1>9, <1>10, RequestKeeps

\* The file system renames: a file that moves while it is written is spoiled.
LEMMA MoveKeeps == ASSUME UploadInv, NEW r \in Transfers, MoveFile(r) PROVE UploadInv'
<1>1. PICK t \in TransferType : t = transfer[r] /\ Fine(t) /\ t.at = "move" /\ t.path \in Paths
  BY DEF UploadInv, DiskInv, UploadTypes, MoveFile, TransferType
<1>2. /\ DiskInv /\ disk \in [Paths -> 0 .. MaxFiles] /\ thumb \in [Keys -> ThumbType] /\ spoiled \subseteq Files
      /\ raced \subseteq Keys /\ UNCHANGED <<files, thumb, seconds, raced>> /\ held' = held \cup Names(disk', files')
  BY DEF UploadInv, DiskInv, UploadTypes, MoveFile, Changes
<1>3. \A k \in Keys : thumb'[k].shows \in {<<>>, thumb[k].shows}
  BY <1>2
<1>4. "source" \in UploadPcs \ {"write"}
  BY DEF UploadPcs
<1>5. CASE Enters(r, "source") /\ UNCHANGED <<disk, spoiled>>
  <2>1. PICK m \in TransferType : m.at = "source" /\ m.done = t.done /\ transfer' = [transfer EXCEPT ![r] = m]
    BY <1>1, <1>2, <1>4, <1>5, EntersIs
  <2>2. Fine(m)
    BY <1>1, <2>1 DEF Fine
  <2> QED BY <1>1, <1>2, <1>3, <1>5, <2>1, <2>2, RequestKeeps
<1>6. CASE /\ disk[t.path] # 0
           /\ disk' = [disk EXCEPT ![t.path] = 0, ![Other(t.path)] = disk[t.path]]
           /\ spoiled' = spoiled \cup {f \in {disk[t.path]} : Writers(f) # {}}
           /\ Answered(r)
  <2>1. PICK m \in TransferType : m.at = "answered" /\ Fine(m) /\ transfer' = [transfer EXCEPT ![r] = m]
    BY <1>2, <1>4, <1>6, EntersIs
  <2>2. PICK d \in Files : d = disk[t.path]
    BY <1>1, <1>2, <1>6, PathsAre
  <2>3. PICK q \in Paths : q = Other(t.path) /\ q # t.path /\ \A x \in Paths : x = t.path \/ x = q
    BY <1>1, PathsAre
  <2>4. disk'[t.path] = 0 /\ disk'[q] = d /\ disk' \in [Paths -> 0 .. MaxFiles] /\ d # 0
    <3>1. 0 \in 0 .. MaxFiles /\ d \in 0 .. MaxFiles
      BY <1>1, <1>2, <2>2, PathsAre
    <3> QED BY <1>1, <1>2, <1>6, <2>2, <2>3, <3>1
  <2>5. /\ transfer' \in [Transfers -> TransferType] /\ transfer'[r] = m
        /\ \A s \in Transfers : s # r => transfer'[s] = transfer[s]
    BY <1>2, <2>1 DEF DiskInv, UploadTypes
  <2>6. spoiled' \subseteq Files /\ spoiled \subseteq spoiled' /\ (Writers(d) # {} => d \in spoiled')
    BY <1>2, <1>6, <2>2
  <2>7. DiskInv'
    <3>1. UploadTypes'
      BY <1>2, <2>4, <2>5, <2>6 DEF DiskInv, UploadTypes
    <3>2. Named'
      BY <1>1, <1>2, <2>2, <2>3, <2>4 DEF DiskInv, Named
    <3>3. \A s \in Transfers : Fine(transfer[s])'
      BY <1>2, <2>1, <2>5 DEF DiskInv, Fine
    <3> QED BY <3>1, <3>2, <3>3 DEF DiskInv
  <2>8. \A f : Writers(f)' = Writers(f)
    BY <1>1, <2>1, <2>5 DEF Writers
  <2>9. SavedWhole'
    <3> SUFFICES ASSUME NEW p \in Paths, disk'[p] # 0, disk'[p] \notin spoiled', Writers(disk[p])' = {}
                 PROVE  Whole(files[disk[p]].data)'
      BY DEF SavedWhole
    <3>1. p = q /\ disk'[p] = d
      BY <2>3, <2>4
    <3>2. Writers(d)' = {} /\ d \notin spoiled /\ d # 0
      BY <2>4, <2>6, <3>1 DEF Writers
    <3>3. Whole(files[d].data)
      BY <1>1, <2>2, <2>8, <3>2 DEF UploadInv, SavedInv, SavedWhole
    <3> QED BY <1>2, <3>1, <3>3 DEF Whole
  <2>10. ASSUME NEW s \in Transfers, transfer'[s].at = "write", transfer'[s].target \notin spoiled'
         PROVE  Solo(s)'
    <3>1. transfer'[s] = transfer[s] /\ Solo(s)
      <4>1. s # r
        BY <2>1, <2>5, <2>10
      <4> QED BY <2>5, <2>6, <2>10, <4>1 DEF UploadInv, SavedInv
    <3>2. PICK u : u = transfer[s]
      OBVIOUS
    <3>3. PICK w \in Authors :
            /\ files[u.target].data = [i \in 1 .. u.done |-> w] /\ (u.source = 0 => w = s)
            /\ u.source # 0 /\ u.done > 0 => files[u.source].data = <<w, w>> /\ Writers(u.source) = {}
      BY <3>1, <3>2 DEF Solo
    <3>4. u.target # d /\ u.target # 0
      <4>1. s \in Writers(u.target) /\ u.target # 0
        BY <1>2, <2>10, <3>1, <3>2 DEF Writers, DiskInv, Fine
      <4> QED BY <2>6, <2>10, <3>1, <3>2, <4>1
    <3>5. \A p \in Paths : disk'[p] # u.target
      BY <2>3, <2>4, <3>4
    <3>6. \A x \in Writers(u.target)' : x = s
      BY <2>8, <3>1, <3>2 DEF Solo
    <3> QED BY <1>2, <2>8, <3>1, <3>2, <3>3, <3>5, <3>6 DEF Solo, Authors
  <2>11. SavedInv'
    BY <2>9, <2>10 DEF SavedInv
  <2>12. PreviewInv'
    <3>1. held \subseteq held' /\ raced \subseteq raced' /\ Names(disk', files') \subseteq held'
      BY <1>2
    <3>2. \A s \in Transfers : transfer'[s].at \in {"store", "stores"} => transfer'[s] = transfer[s]
      BY <2>1, <2>5
    <3> QED BY <1>2, <1>3, <3>1, <3>2, PreviewsKeep DEF UploadInv
  <2> QED BY <2>7, <2>11, <2>12 DEF UploadInv
<1> QED BY <1>1, <1>5, <1>6 DEF MoveFile

\* A request opens a file to write: one of its path, or a new one.
LEMMA OpenKeepsFiles == ASSUME UploadInv, NEW r \in Transfers, OpenFile(r) PROVE UploadInv'
<1>1. PICK t \in TransferType : t = transfer[r] /\ Fine(t) /\ t.at = "open" /\ t.path \in Paths /\ t.done = 0
  BY DEF UploadInv, DiskInv, UploadTypes, OpenFile, TransferType, Fine
<1>2. /\ DiskInv /\ disk \in [Paths -> 0 .. MaxFiles] /\ thumb \in [Keys -> ThumbType] /\ spoiled \subseteq Files
      /\ raced \subseteq Keys /\ UNCHANGED <<thumb, seconds, raced>> /\ held' = held \cup Names(disk', files')
      /\ files \in [Files -> FileType] /\ seconds \in 1 .. MaxSeconds
  BY DEF UploadInv, DiskInv, UploadTypes, OpenFile, Changes
<1>3. PICK q \in Paths : q = Target(r)
  BY <1>1, PathsAre DEF Target
<1> DEFINE made == {f \in Files : files[f].changed = 0}
<1>4. PICK f \in Files :
        /\ \/ disk[q] # 0 /\ f = disk[q]
           \/ disk[q] = 0 /\ f \in made
        /\ disk' = [disk EXCEPT ![q] = f]
        /\ files' = [files EXCEPT ![f] = [data |-> <<>>, changed |-> seconds]]
        /\ transfer' = [transfer EXCEPT ![r] = [t EXCEPT !.at = "write", !.target = f]]
        /\ spoiled' = (IF Writers(f) = {} THEN spoiled \ {f} ELSE spoiled \cup {f})
                       \cup ({transfer[s].target : s \in ReadersOf(f) \ {r}} \ {0})
  <2> DEFINE F == IF disk[Target(r)] # 0 THEN disk[Target(r)] ELSE CHOOSE n \in made : \A m \in made : n <= m
  <2>1. /\ disk' = [disk EXCEPT ![Target(r)] = F]
        /\ files' = [files EXCEPT ![F] = [data |-> <<>>, changed |-> seconds]]
        /\ transfer' = [transfer EXCEPT ![r].at = "write", ![r].target = F]
        /\ spoiled' = (IF Writers(F) = {} THEN spoiled \ {F} ELSE spoiled \cup {F})
                       \cup ({transfer[s].target : s \in ReadersOf(F) \ {r}} \ {0})
        /\ disk[Target(r)] # 0 \/ made # {}
    BY Zenon DEF OpenFile
  <2>2. F \in Files /\ ((disk[q] # 0 /\ F = disk[q]) \/ (disk[q] = 0 /\ F \in made))
    <3>1. CASE disk[q] # 0
      BY <1>2, <1>3, <3>1, PathsAre
    <3>2. CASE disk[q] = 0
      <4>1. made # {} /\ made \in SUBSET Nat
        BY <1>3, <2>1, <3>2, PathsAre
      <4>2. PICK n \in made : \A m \in made : m >= n
        BY <4>1, Least
      <4>3. \A m \in made : n <= m
        BY <4>1, <4>2
      <4>4. (CHOOSE k \in made : \A m \in made : k <= m) \in made
        BY <4>3
      <4> QED BY <1>3, <3>2, <4>4
    <3> QED BY <3>1, <3>2
  <2> HIDE DEF F, made
  <2>3. PICK f \in Files : f = F
    BY <2>2
  <2>4. transfer' = [transfer EXCEPT ![r] = [t EXCEPT !.at = "write", !.target = f]]
    <3>1. transfer \in [Transfers -> TransferType]
      BY <1>2 DEF DiskInv, UploadTypes
    <3>2. transfer' = [transfer EXCEPT ![r].at = "write", ![r].target = f]
      BY <2>1, <2>3
    <3> QED BY <1>1, <3>1, <3>2 DEF TransferType
  <2>5. /\ disk' = [disk EXCEPT ![q] = f]
        /\ files' = [files EXCEPT ![f] = [data |-> <<>>, changed |-> seconds]]
        /\ spoiled' = (IF Writers(f) = {} THEN spoiled \ {f} ELSE spoiled \cup {f})
                       \cup ({transfer[s].target : s \in ReadersOf(f) \ {r}} \ {0})
    BY <1>3, <2>1, <2>3
  <2>6. (disk[q] # 0 /\ f = disk[q]) \/ (disk[q] = 0 /\ f \in made)
    BY <2>2, <2>3
  <2> QED BY <2>4, <2>5, <2>6
<1>5. f # 0 /\ f \in 0 .. MaxFiles /\ seconds # 0 /\ seconds \in 0 .. MaxSeconds
  BY <1>2, PathsAre
<1>6. PICK m : m = [t EXCEPT !.at = "write", !.target = f]
  OBVIOUS
<1>7. /\ m \in TransferType /\ m.at = "write" /\ m.target = f /\ m.done = 0 /\ m.source = t.source
      /\ m.path = t.path /\ m.kind = t.kind
  <2>1. "write" \in UploadPcs
    BY DEF UploadPcs
  <2> QED BY <1>1, <1>5, <1>6, <2>1 DEF TransferType
<1>8. /\ transfer' \in [Transfers -> TransferType] /\ transfer'[r] = m
      /\ \A s \in Transfers : s # r => transfer'[s] = transfer[s]
  BY <1>2, <1>4, <1>6, <1>7 DEF DiskInv, UploadTypes
<1>9. PICK z \in FileType : z = [data |-> <<>>, changed |-> seconds] /\ z.data = <<>> /\ z.changed = seconds
  <2>1. <<>> \in Seq(Chunks)
    OBVIOUS
  <2>2. [data |-> <<>>, changed |-> seconds] \in FileType
    BY <1>5, <2>1 DEF FileType
  <2> QED BY <2>2
<1>10. /\ files' \in [Files -> FileType] /\ files'[f] = z /\ \A g \in Files : g # f => files'[g] = files[g]
  BY <1>2, <1>4, <1>9
<1>11. disk' \in [Paths -> 0 .. MaxFiles] /\ disk'[q] = f /\ \A p \in Paths : p # q => disk'[p] = disk[p]
  BY <1>2, <1>4, <1>5
<1>12. \A p \in Paths : p # q => disk'[p] # f
  <2> SUFFICES ASSUME NEW p \in Paths, p # q, disk[p] = f PROVE FALSE
    BY <1>11
  <2>1. CASE disk[q] # 0
    BY <1>2, <1>4, <1>5, <2>1 DEF DiskInv, Named
  <2>2. CASE disk[q] = 0
    BY <1>2, <1>4, <1>5, <2>2 DEF DiskInv, Named
  <2> QED BY <2>1, <2>2
<1>13. spoiled' \subseteq Files
  <2>1. \A s \in Transfers : transfer[s].target \in 0 .. MaxFiles
    BY <1>2 DEF DiskInv, UploadTypes, TransferType
  <2>2. {transfer[s].target : s \in ReadersOf(f) \ {r}} \ {0} \subseteq Files
    BY <2>1, PathsAre DEF ReadersOf
  <2> QED BY <1>2, <1>4, <2>2
<1>14. /\ \A g : g # f /\ g \notin spoiled' => g \notin spoiled
       /\ f \notin spoiled' => Writers(f) = {}
       /\ \A s \in Transfers : /\ s # r /\ transfer[s].at = "write" /\ transfer[s].source = f
                               /\ transfer[s].target # 0
                               => transfer[s].target \in spoiled'
  <2>1. \A s \in Transfers : s # r /\ transfer[s].at = "write" /\ transfer[s].source = f => s \in ReadersOf(f) \ {r}
    BY DEF ReadersOf
  <2> QED BY <1>4, <2>1
<1> HIDE DEF made
<1>15. DiskInv'
  <2>1. UploadTypes'
    <3>1. \A g \in Files : Len(files'[g].data) <= BodyLen
      BY <1>2, <1>9, <1>10, PathsAre DEF DiskInv, UploadTypes
    <3> QED BY <1>2, <1>8, <1>10, <1>11, <1>13, <3>1 DEF DiskInv, UploadTypes
  <2>2. \A g \in Files : files[g].changed # 0 => files'[g].changed # 0
    BY <1>5, <1>9, <1>10
  <2>3. Named'
    <3>1. \A p \in Paths : disk'[p] # 0 => disk'[p] \in Files
      BY <1>11, PathsAre
    <3>2. \A p \in Paths : disk'[p] # 0 => files'[disk'[p]].changed # 0
      BY <1>2, <1>5, <1>9, <1>10, <1>11, <2>2, <3>1 DEF DiskInv, Named
    <3>3. \A p, x \in Paths : p # x /\ disk'[p] # 0 => disk'[p] # disk'[x]
      BY <1>2, <1>11, <1>12 DEF DiskInv, Named
    <3> QED BY <3>2, <3>3 DEF Named
  <2>4. \A s \in Transfers : Fine(transfer[s])'
    <3> SUFFICES ASSUME NEW s \in Transfers PROVE Fine(transfer[s])'
      OBVIOUS
    <3>1. CASE s = r
      BY <1>5, <1>7, <1>8, <1>9, <1>10, <3>1 DEF Fine
    <3>2. CASE s # r
      <4>1. Fine(transfer[s]) /\ transfer[s].target \in 0 .. MaxFiles
        BY <1>2 DEF DiskInv, UploadTypes, TransferType
      <4> QED BY <1>8, <2>2, <3>2, <4>1, PathsAre DEF Fine
    <3> QED BY <3>1, <3>2
  <2> QED BY <2>1, <2>3, <2>4 DEF DiskInv
<1>16. Writers(f)' = Writers(f) \cup {r} /\ r \notin Writers(f) /\ \A g : g # f => Writers(g)' = Writers(g)
  BY <1>1, <1>7, <1>8 DEF Writers
<1>17. SavedWhole'
  <2> SUFFICES ASSUME NEW p \in Paths, disk'[p] # 0, disk'[p] \notin spoiled', Writers(disk[p])' = {}
               PROVE  Whole(files[disk[p]].data)'
    BY DEF SavedWhole
  <2>1. PICK g : g = disk'[p]
    OBVIOUS
  <2>2. Writers(g)' = {}
    BY <2>1 DEF Writers
  <2>3. g # f /\ p # q
    BY <1>11, <1>16, <2>1, <2>2
  <2>4. g \in Files /\ disk[p] = g /\ g \notin spoiled /\ Writers(g) = {}
    BY <1>11, <1>14, <1>16, <2>1, <2>2, <2>3, PathsAre
  <2>5. Whole(files[g].data)
    BY <2>1, <2>4 DEF UploadInv, SavedInv, SavedWhole
  <2> QED BY <1>10, <2>1, <2>3, <2>4, <2>5 DEF Whole
<1>18. ASSUME NEW s \in Transfers, transfer'[s].at = "write", transfer'[s].target \notin spoiled'
       PROVE  Solo(s)'
  <2>1. CASE s = r
    <3>1. \A x \in Writers(f)' : x = s
      BY <1>7, <1>8, <1>14, <1>16, <1>18, <2>1
    <3>2. Target(s)' = q
      BY <1>1, <1>3, <1>7, <1>8, <2>1 DEF Target
    <3>3. \A p \in Paths : disk'[p] = f => p = Target(s)'
      BY <1>12, <3>2
    <3>4. <<>> = [i \in 1 .. 0 |-> s]
      OBVIOUS
    <3>5. files'[f].data = [i \in 1 .. m.done |-> s]
      BY <1>7, <1>9, <1>10, <3>4
    <3>6. s \in Authors /\ ~(m.done > 0)
      BY <1>7 DEF Authors
    <3> QED BY <1>7, <1>8, <2>1, <3>1, <3>3, <3>5, <3>6 DEF Solo, Authors
  <2>2. CASE s # r
    <3>1. PICK u : u = transfer[s] /\ u = transfer'[s] /\ u \in TransferType /\ u.at = "write" /\ u.target # 0
      BY <1>2, <1>8, <1>18, <2>2 DEF DiskInv, UploadTypes, Fine
    <3>2. u.target # f
      <4> SUFFICES ASSUME u.target = f PROVE FALSE
        OBVIOUS
      <4>1. s \in Writers(f)
        BY <3>1 DEF Writers
      <4> QED BY <1>14, <1>18, <3>1, <4>1
    <3>3. Solo(s) /\ u.target \in Files
      <4>1. u.target \in Files
        BY <3>1, PathsAre DEF TransferType
      <4>2. u.target \notin spoiled
        BY <1>14, <1>18, <3>1, <3>2
      <4> QED BY <3>1, <4>1, <4>2 DEF UploadInv, SavedInv
    <3>4. PICK w \in Authors :
            /\ files[u.target].data = [i \in 1 .. u.done |-> w] /\ (u.source = 0 => w = s)
            /\ u.source # 0 /\ u.done > 0 => files[u.source].data = <<w, w>> /\ Writers(u.source) = {}
      BY <3>1, <3>3 DEF Solo
    <3>5. \A x \in Writers(u.target)' : x = s
      BY <1>16, <3>1, <3>2, <3>3 DEF Solo
    <3>6. Target(s)' = Target(s)
      BY <3>1 DEF Target
    <3>7. \A p \in Paths : disk'[p] = u.target => p = Target(s)'
      BY <1>11, <3>1, <3>2, <3>3, <3>6 DEF Solo
    <3>8. u.source # f
      BY <1>14, <1>18, <2>2, <3>1
    <3>9. u.source # 0 /\ u.done > 0 => files'[u.source].data = <<w, w>> /\ Writers(u.source)' = {}
      <4>1. u.source # 0 => u.source \in Files
        BY <3>1, PathsAre DEF TransferType
      <4> QED BY <1>10, <1>16, <3>4, <3>8, <4>1
    <3>10. files'[u.target].data = [i \in 1 .. u.done |-> w]
      BY <1>10, <3>2, <3>3, <3>4
    <3> QED BY <3>1, <3>4, <3>5, <3>7, <3>9, <3>10 DEF Solo, Authors
  <2> QED BY <2>1, <2>2
<1>19. SavedInv'
  BY <1>17, <1>18 DEF SavedInv
<1>20. PreviewInv'
  <2>1. held \subseteq held' /\ raced \subseteq raced' /\ Names(disk', files') \subseteq held'
    BY <1>2
  <2>2. \A s \in Transfers : transfer'[s].at \in {"store", "stores"} => transfer'[s] = transfer[s]
    BY <1>7, <1>8
  <2>3. \A k \in Keys : thumb'[k].shows \in {<<>>, thumb[k].shows}
    BY <1>2
  <2> QED BY <2>1, <2>2, <2>3, PreviewsKeep DEF UploadInv
<1> QED BY <1>15, <1>19, <1>20 DEF UploadInv

\* A chunk goes to the end of what a lone writer wrote, and is its own, or the
\* next of a source that is whole.
LEMMA WriteKeeps == ASSUME UploadInv, NEW r \in Transfers, Write(r) PROVE UploadInv'
<1>1. PICK t \in TransferType : t = transfer[r] /\ Fine(t) /\ t.at = "write" /\ t.done \in 0 .. 1
  <2>1. transfer[r] \in TransferType /\ transfer[r].at = "write" /\ transfer[r].done < 2 /\ Fine(transfer[r])
    BY PathsAre DEF UploadInv, DiskInv, UploadTypes, Write
  <2>2. transfer[r].done \in 0 .. 1
    BY <2>1, PathsAre DEF TransferType
  <2> QED BY <2>1, <2>2
<1>2. /\ DiskInv /\ disk \in [Paths -> 0 .. MaxFiles] /\ thumb \in [Keys -> ThumbType] /\ spoiled \subseteq Files
      /\ raced \subseteq Keys /\ UNCHANGED <<disk, thumb, seconds, raced>> /\ held' = held \cup Names(disk', files')
      /\ files \in [Files -> FileType] /\ seconds \in 1 .. MaxSeconds
  BY DEF UploadInv, DiskInv, UploadTypes, Write, Changes
<1>3. PICK f \in Files : f = t.target /\ files[f].changed # 0
  BY <1>1, PathsAre DEF Fine, TransferType
<1>4. PICK old \in Seq(Chunks), c \in {Chunk(r)} : old = files[f].data /\ c = Chunk(r) /\ Len(old) <= 2 /\ Len(old) \in Nat
  BY <1>2, <1>3, PathsAre DEF FileType, DiskInv, UploadTypes
<1>5. t.source # 0 => t.source \in Files /\ t.done < Len(files[t.source].data) /\ c = files[t.source].data[t.done + 1]
  BY SMTT(30), <1>1, <1>4, PathsAre DEF TransferType, Write, Chunk
<1>6. c \in Chunks /\ (t.source = 0 => c = r)
  <2>1. CASE t.source = 0
    BY <1>1, <1>4, <2>1 DEF Chunk, Chunks, Authors
  <2>2. CASE t.source # 0
    <3>1. PICK data \in Seq(Chunks) : data = files[t.source].data
      BY <1>2, <1>5, <2>2 DEF FileType
    <3>2. t.done + 1 \in 1 .. Len(data)
      BY <1>1, <1>5, <2>2, <3>1
    <3> QED BY <1>5, <2>2, <3>1, <3>2
  <2> QED BY <2>1, <2>2
<1>7. PICK n \in 1 .. 2 : n = IF Len(old) > t.done THEN Len(old) ELSE t.done + 1
  <2>1. t.done \in Nat /\ t.done < 2
    BY <1>1, PathsAre DEF TransferType
  <2>2. PICK l \in Nat : l = Len(old) /\ l <= 2
    BY <1>4
  <2>3. (IF l > t.done THEN l ELSE t.done + 1) \in 1 .. 2
    BY <2>1, <2>2
  <2> QED BY <2>2, <2>3
<1>8. PICK new : new = [i \in 1 .. n |-> IF i = t.done + 1 THEN c ELSE IF i <= Len(old) THEN old[i] ELSE "hole"]
  OBVIOUS
<1>9. new \in Seq(Chunks) /\ Len(new) <= 2
  <2>1. \A i \in 1 .. n : (IF i = t.done + 1 THEN c ELSE IF i <= Len(old) THEN old[i] ELSE "hole") \in Chunks
    <3>1. "hole" \in Chunks /\ \A i \in 1 .. Len(old) : old[i] \in Chunks
      BY DEF Chunks
    <3> QED BY <1>4, <1>6, <3>1
  <2>2. new \in [1 .. n -> Chunks]
    BY <1>8, <2>1
  <2> QED BY <2>2
<1>10. PICK z \in FileType : z = [data |-> new, changed |-> seconds] /\ z.data = new /\ z.changed = seconds
  <2>1. seconds \in 0 .. MaxSeconds
    BY <1>2, PathsAre
  <2>2. [data |-> new, changed |-> seconds] \in FileType
    BY <1>9, <2>1 DEF FileType
  <2> QED BY <2>2
<1>11. files' = [files EXCEPT ![f] = z]
  BY <1>1, <1>3, <1>4, <1>7, <1>8, <1>10 DEF Write
<1>12. files' \in [Files -> FileType] /\ files'[f] = z /\ \A g \in Files : g # f => files'[g] = files[g]
  BY <1>2, <1>10, <1>11
<1>13. PICK m : m = [t EXCEPT !.done = @ + 1]
  OBVIOUS
<1>14. /\ m \in TransferType /\ m.at = "write" /\ m.target = f /\ m.done = t.done + 1 /\ m.source = t.source
       /\ m.path = t.path /\ m.kind = t.kind
  <2>1. t.done + 1 \in 0 .. BodyLen
    BY <1>1, PathsAre
  <2> QED BY <1>1, <1>3, <1>13, <2>1 DEF TransferType
<1>15. transfer' = [transfer EXCEPT ![r] = m] /\ spoiled' = spoiled \cup Taints(r)
  BY <1>1, <1>13 DEF Write
<1>16. /\ transfer' \in [Transfers -> TransferType] /\ transfer'[r] = m
       /\ \A s \in Transfers : s # r => transfer'[s] = transfer[s]
  BY <1>2, <1>14, <1>15 DEF DiskInv, UploadTypes
<1>17. spoiled' \subseteq Files
  BY <1>1, <1>2, <1>3, <1>15 DEF Taints
<1>18. DiskInv'
  <2>1. UploadTypes'
    <3>1. \A g \in Files : Len(files'[g].data) <= BodyLen
      BY <1>2, <1>9, <1>10, <1>12, PathsAre DEF DiskInv, UploadTypes
    <3> QED BY <1>2, <1>12, <1>16, <1>17, <3>1 DEF DiskInv, UploadTypes
  <2>2. \A g \in Files : files[g].changed # 0 => files'[g].changed # 0
    <3>1. seconds # 0
      BY <1>2, PathsAre
    <3> QED BY <1>10, <1>12, <3>1
  <2>3. Named'
    <3>1. \A p \in Paths : disk[p] # 0 => disk[p] \in Files
      BY <1>2, PathsAre
    <3> QED BY <1>2, <2>2, <3>1 DEF DiskInv, Named
  <2>4. \A s \in Transfers : Fine(transfer[s])'
    <3> SUFFICES ASSUME NEW s \in Transfers PROVE Fine(transfer[s])'
      OBVIOUS
    <3>1. CASE s = r
      <4>1. f # 0 /\ files'[f].changed # 0
        BY <1>3, <2>2, PathsAre
      <4> QED BY <1>14, <1>16, <3>1, <4>1 DEF Fine
    <3>2. CASE s # r
      <4>1. Fine(transfer[s]) /\ transfer[s].target \in 0 .. MaxFiles
        BY <1>2 DEF DiskInv, UploadTypes, TransferType
      <4> QED BY <1>16, <2>2, <3>2, <4>1, PathsAre DEF Fine
    <3> QED BY <3>1, <3>2
  <2> QED BY <2>1, <2>3, <2>4 DEF DiskInv
<1>19. \A g : Writers(g)' = Writers(g)
  BY <1>1, <1>3, <1>14, <1>16 DEF Writers
<1>20. r \in Writers(f)
  BY <1>1, <1>3 DEF Writers
<1>21. SavedWhole'
  <2> SUFFICES ASSUME NEW p \in Paths, disk'[p] # 0, disk'[p] \notin spoiled', Writers(disk[p])' = {}
               PROVE  Whole(files[disk[p]].data)'
    BY DEF SavedWhole
  <2>1. PICK g : g = disk[p] /\ disk'[p] = g
    BY <1>2
  <2>2. Writers(g)' = {}
    BY <2>1 DEF Writers
  <2>3. g # f /\ g \in Files /\ g \notin spoiled /\ Writers(g) = {}
    BY <1>2, <1>15, <1>19, <1>20, <2>1, <2>2, PathsAre
  <2>4. Whole(files[g].data)
    BY <2>1, <2>3, PathsAre DEF UploadInv, SavedInv, SavedWhole
  <2> QED BY <1>12, <2>1, <2>3, <2>4 DEF Whole
<1>22. ASSUME NEW s \in Transfers, transfer'[s].at = "write", transfer'[s].target \notin spoiled'
       PROVE  Solo(s)'
  <2>1. PICK u : u = transfer[s] /\ u \in TransferType /\ u.at = "write" /\ u.target \notin spoiled /\ Solo(s)
                 /\ transfer'[s].target = u.target /\ transfer'[s].source = u.source
    <3>1. CASE s = r
      BY <1>1, <1>3, <1>14, <1>15, <1>16, <1>22, <3>1 DEF UploadInv, SavedInv
    <3>2. CASE s # r
      <4>1. transfer[s] \in TransferType /\ transfer'[s] = transfer[s]
        BY <1>2, <1>16, <3>2 DEF DiskInv, UploadTypes
      <4> QED BY <1>15, <1>22, <4>1 DEF UploadInv, SavedInv
    <3> QED BY <3>1, <3>2
  <2>2. PICK w \in Authors :
          /\ files[u.target].data = [i \in 1 .. u.done |-> w] /\ (u.source = 0 => w = s)
          /\ u.source # 0 /\ u.done > 0 => files[u.source].data = <<w, w>> /\ Writers(u.source) = {}
    BY <2>1 DEF Solo
  <2>3. \A x \in Writers(u.target)' : x = s
    BY <1>19, <2>1 DEF Solo
  <2>4. Target(s)' = Target(s)
    <3>1. CASE s = r
      BY <1>1, <1>14, <1>16, <3>1 DEF Target
    <3>2. CASE s # r
      BY <1>16, <3>2 DEF Target
    <3> QED BY <3>1, <3>2
  <2>5. \A p \in Paths : disk'[p] = u.target => p = Target(s)'
    BY <1>2, <2>1, <2>4 DEF Solo
  <2>6. CASE s # r
    <3>1. u.target # f
      BY <1>19, <1>20, <2>3, <2>6
    <3>2. transfer'[s] = u
      BY <1>16, <2>1, <2>6
    <3>3. u.target \in Files /\ (u.source # 0 => u.source \in Files)
      <4>1. u.target # 0
        BY <1>2, <2>1 DEF DiskInv, Fine
      <4> QED BY <2>1, <4>1, PathsAre DEF TransferType
    <3>4. u.source # 0 /\ u.done > 0 => files'[u.source].data = <<w, w>> /\ Writers(u.source)' = {}
      BY <1>12, <1>19, <1>20, <2>2, <3>3
    <3>5. files'[u.target].data = [i \in 1 .. u.done |-> w]
      BY <1>12, <2>2, <3>1, <3>3
    <3> QED BY <2>2, <2>3, <2>5, <3>2, <3>4, <3>5 DEF Solo, Authors
  <2>7. CASE s = r
    <3>1. u = t /\ transfer'[s] = m /\ u.target = f /\ old = [i \in 1 .. t.done |-> w]
      BY <1>1, <1>3, <1>4, <1>16, <2>1, <2>2, <2>7
    <3>2. Len(old) = t.done /\ \A i \in 1 .. t.done : old[i] = w
      BY <1>1, <3>1
    <3>3. n = t.done + 1
      BY <1>1, <1>7, <3>2
    <3>4. PICK v \in Authors :
            /\ c = v /\ (t.done > 0 => v = w) /\ (t.source = 0 => v = s)
            /\ t.source # 0 => files[t.source].data = <<v, v>> /\ Writers(t.source) = {}
      <4>1. CASE t.source = 0
        BY <1>6, <2>2, <2>7, <3>1, <4>1 DEF Authors
      <4>2. CASE t.source # 0
        <5>1. t.target \notin Taints(r)
          BY <1>3, <1>14, <1>15, <1>16, <1>22, <2>7
        <5>2. PICK v \in Authors : files[t.source].data = <<v, v>> /\ Writers(t.source) = {}
          BY <1>1, <4>2, <5>1, TaintsAre
        <5>3. t.done + 1 \in {1, 2} /\ <<v, v>>[1] = v /\ <<v, v>>[2] = v /\ <<w, w>>[1] = w
          BY <1>1
        <5>4. c = v
          BY <1>5, <4>2, <5>2, <5>3
        <5>5. t.done > 0 => v = w
          BY <2>2, <3>1, <4>2, <5>2, <5>3
        <5> QED BY <4>2, <5>2, <5>4, <5>5
      <4> QED BY <4>1, <4>2
    <3>5. new = [i \in 1 .. m.done |-> v]
      <4>1. \A i \in 1 .. n : (IF i = t.done + 1 THEN c ELSE IF i <= Len(old) THEN old[i] ELSE "hole") = v
        BY <1>1, <3>2, <3>3, <3>4
      <4>2. new = [i \in 1 .. n |-> v]
        BY <1>8, <4>1
      <4> QED BY <1>14, <3>3, <4>2
    <3>6. t.source # 0 => files'[t.source].data = <<v, v>> /\ Writers(t.source)' = {}
      BY <1>5, <1>12, <1>19, <1>20, <3>4
    <3>7. files'[f].data = [i \in 1 .. m.done |-> v]
      BY <1>10, <1>12, <3>5
    <3> QED BY <1>14, <2>3, <2>5, <3>1, <3>4, <3>6, <3>7 DEF Solo, Authors
  <2> QED BY <2>6, <2>7
<1>23. SavedInv'
  BY <1>21, <1>22 DEF SavedInv
<1>24. PreviewInv'
  <2>1. held \subseteq held' /\ raced \subseteq raced' /\ Names(disk', files') \subseteq held'
    BY <1>2
  <2>2. \A s \in Transfers : transfer'[s].at \in {"store", "stores"} => transfer'[s] = transfer[s]
    BY <1>14, <1>16
  <2>3. \A k \in Keys : thumb'[k].shows \in {<<>>, thumb[k].shows}
    BY <1>2
  <2> QED BY <2>1, <2>2, <2>3, PreviewsKeep DEF UploadInv
<1> QED BY <1>18, <1>23, <1>24 DEF UploadInv

\* Every step of a request, and the clock, keep the invariant.
LEMMA UploadsStep == UploadInv /\ [UploadNext]_uploadVars => UploadInv'
<1> SUFFICES ASSUME UploadInv, [UploadNext]_uploadVars PROVE UploadInv'
  OBVIOUS
<1>1. ASSUME UNCHANGED <<disk, files, transfer, thumb, spoiled, held, raced>>, seconds' \in 1 .. MaxSeconds
      PROVE  UploadInv'
  <2>1. DiskInv'
    BY <1>1 DEF UploadInv, DiskInv, UploadTypes, Named, Fine
  <2>2. SavedInv'
    BY ZenonT(60), <1>1 DEF UploadInv, SavedInv, SavedWhole, Solo, Writers, Target, Whole
  <2>3. PreviewInv'
    BY <1>1 DEF UploadInv, PreviewInv, Names, Here, Whole, Key
  <2> QED BY <2>1, <2>2, <2>3 DEF UploadInv
<1>2. CASE Tick \/ UNCHANGED uploadVars
  <2>1. UNCHANGED <<disk, files, transfer, thumb, spoiled, held, raced>> /\ seconds' \in 1 .. MaxSeconds
    <3>1. seconds \in 1 .. MaxSeconds
      BY DEF UploadInv, DiskInv, UploadTypes
    <3> QED BY <1>2, <3>1, PathsAre DEF Tick, uploadVars
  <2> QED BY <1>1, <2>1
<1>3. CASE \E r \in Transfers, p \in Paths :
             \/ ResourcePut(r, p) \/ ResourcePost(r, p) \/ ResourceDelete(r, p)
             \/ ResourcePatch(r, p) \/ HandleImagePreview(r, p)
  BY <1>3, HandlersBegin
<1>4. CASE \E r \in Transfers :
             \/ DelThumbs(r) \/ Delete(r) \/ OpenSource(r) \/ Load(r) \/ StoreBegins(r) \/ StoreEnds(r)
  BY <1>4, QuietSteps
<1>5. CASE \E r \in Transfers : MoveFile(r) \/ OpenFile(r) \/ Write(r) \/ Written(r) \/ Fails(r) \/ CreatePreview(r)
  BY <1>5, MoveKeeps, OpenKeepsFiles, WriteKeeps, WrittenKeeps, FailsKeeps, PreviewMade
<1> QED BY <1>2, <1>3, <1>4, <1>5 DEF UploadNext

\* At the start there is no file and no preview.
LEMMA UploadsStart == UploadInit => UploadInv
<1> SUFFICES ASSUME UploadInit PROVE UploadInv
  OBVIOUS
<1>1. /\ 0 \in 0 .. MaxFiles /\ 1 \in 0 .. MaxFiles /\ 1 \in Files /\ 0 \in 0 .. MaxSeconds /\ 1 \in 0 .. MaxSeconds
      /\ 1 \in 1 .. MaxSeconds
  BY PathsAre
<1>2. PICK z : z = [data |-> <<NoOne, NoOne>>, changed |-> 1]
  OBVIOUS
<1>3. PICK e : e = [data |-> <<>>, changed |-> 0]
  OBVIOUS
<1>4. z \in FileType /\ z.changed = 1 /\ z.data = <<NoOne, NoOne>> /\ Len(z.data) = 2
  <2>1. <<NoOne, NoOne>> \in Seq(Chunks)
    <3>1. NoOne \in Chunks
      BY DEF Chunks, Authors
    <3> QED BY <3>1
  <2> QED BY <1>1, <1>2, <2>1, BodiesAre DEF FileType
<1>5. e \in FileType /\ e.changed = 0 /\ Len(e.data) = 0
  <2>1. <<>> \in Seq(Chunks)
    OBVIOUS
  <2> QED BY <1>1, <1>3, <2>1 DEF FileType
<1>6. \A f \in Files : files[f] = IF f = 1 THEN z ELSE e
  BY <1>2, <1>3 DEF UploadInit
<1>7. files \in [Files -> FileType] /\ \A f \in Files : Len(files[f].data) <= BodyLen
  <2>1. files = [f \in Files |-> files[f]]
    BY DEF UploadInit
  <2>2. \A f \in Files : files[f] \in FileType /\ Len(files[f].data) <= 2
    <3> SUFFICES ASSUME NEW f \in Files PROVE files[f] \in FileType /\ Len(files[f].data) <= 2
      OBVIOUS
    <3>1. CASE f = 1
      <4>1. files[f] = z
        BY <1>6, <3>1
      <4>2. PICK l \in Nat : l = Len(z.data) /\ l <= 2
        BY <1>4
      <4> QED BY <1>4, <4>1, <4>2
    <3>2. CASE f # 1
      <4>1. files[f] = e
        BY <1>6, <3>2
      <4> QED BY <1>5, <4>1
    <3> QED BY <3>1, <3>2
  <2>3. files \in [Files -> FileType]
    BY <2>1, <2>2
  <2> QED BY <2>2, <2>3, PathsAre
<1>8. disk \in [Paths -> 0 .. MaxFiles] /\ disk["p"] = 1 /\ disk["q"] = 0
  BY <1>1, PathsAre DEF UploadInit
<1>9. \A r \in Transfers : transfer[r] = NewTransfer /\ transfer[r].at = "new" /\ transfer[r].done = 0
  BY NewIs DEF UploadInit
<1>10. thumb \in [Keys -> ThumbType] /\ \A k \in Keys : thumb[k].shows = <<>>
  <2>1. <<>> \in Seq(Chunks) /\ NoOne \in Authors
    BY DEF Authors
  <2>2. [shows |-> <<>>, by |-> NoOne] \in ThumbType
    BY <2>1 DEF ThumbType
  <2> QED BY <2>2 DEF UploadInit
<1>11. transfer \in [Transfers -> TransferType]
  BY NewIs DEF UploadInit
<1>12. UploadTypes
  BY <1>1, <1>7, <1>8, <1>10, <1>11 DEF UploadInit, UploadTypes
<1>13. Named
  <2>1. files[1].changed = 1
    BY <1>1, <1>4, <1>6
  <2> QED BY <1>8, <2>1, PathsAre DEF Named
<1>14. \A r \in Transfers : Fine(transfer[r])
  BY <1>9 DEF Fine
<1>15. SavedInv
  <2>1. Whole(files[1].data)
    BY <1>1, <1>4, <1>6 DEF Whole
  <2> QED BY <1>8, <1>9, <2>1, PathsAre DEF SavedInv, SavedWhole
<1>16. PreviewInv
  BY <1>9, <1>10 DEF PreviewInv, UploadInit
<1> QED BY <1>12, <1>13, <1>14, <1>15, <1>16 DEF UploadInv, DiskInv

\* While the invariant holds a file at rest is one body and its preview shows it.
LEMMA UploadsMean == UploadInv => UploadTypeOK /\ SavedWhole /\ PreviewsFit
<1> SUFFICES ASSUME UploadInv PROVE UploadTypeOK /\ SavedWhole /\ PreviewsFit
  OBVIOUS
<1>1. UploadTypeOK
  <2>1. \A f \in Files : files[f].changed \in 0 .. MaxSeconds
    BY DEF UploadInv, DiskInv, UploadTypes, FileType
  <2>2. \A r \in Transfers : transfer[r] \in TransferType
    BY DEF UploadInv, DiskInv, UploadTypes
  <2>3. \A k \in Keys : thumb[k].by \in Authors
    BY DEF UploadInv, DiskInv, UploadTypes, ThumbType
  <2> QED BY <2>1, <2>2, <2>3 DEF UploadInv, DiskInv, UploadTypes, Named, UploadTypeOK, TransferType, UploadPcs, Authors
<1>2. PreviewsFit
  <2> SUFFICES ASSUME NEW p \in Paths, Here(disk, files, p)
               PROVE  \/ thumb[<<p, files[disk[p]].changed>>].shows \in {<<>>, files[disk[p]].data}
                      \/ \E d \in {h[3] : h \in held} : d # files[disk[p]].data /\ <<p, files[disk[p]].changed, d>> \in held
                      \/ <<p, files[disk[p]].changed>> \in raced
    BY DEF PreviewsFit, previewCacheKey
  <2>1. disk[p] \in Files /\ files[disk[p]].changed # 0 /\ files[disk[p]] \in FileType
    <3>1. disk[p] \in Files
      BY PathsAre DEF UploadInv, DiskInv, UploadTypes, Here
    <3> QED BY <3>1 DEF UploadInv, DiskInv, UploadTypes, Here, Named
  <2>2. PICK s \in 1 .. MaxSeconds : s = files[disk[p]].changed
    BY <2>1, PathsAre DEF FileType
  <2>6. PICK data : data = files[disk[p]].data
    OBVIOUS
  <2>7. <<p, s>> \in Keys /\ <<p, s>>[1] = p /\ <<p, s>>[2] = s
    BY DEF Keys
  <2>3. PICK k \in Keys : k = <<p, s>> /\ k[1] = p /\ k[2] = s
    BY <2>7
  <2>4. thumb[k].shows = <<>> \/ <<p, s, thumb[k].shows>> \in held \/ k \in raced
    BY <2>3 DEF UploadInv, PreviewInv
  <2>5. CASE <<p, s, thumb[k].shows>> \in held /\ thumb[k].shows # data
    <3>1. PICK d : d = thumb[k].shows
      OBVIOUS
    <3>2. <<p, s, d>>[3] = d /\ <<p, s, d>> \in held
      BY <2>5, <3>1
    <3>3. d \in {h[3] : h \in held}
      BY <3>2
    <3> QED BY <2>2, <2>5, <2>6, <3>1, <3>2, <3>3
  <2> QED BY <2>2, <2>3, <2>4, <2>5, <2>6
<1> QED BY <1>1, <1>2 DEF UploadInv, SavedInv

\* For any number of requests, files and seconds: whatever requests meet on the
\* two paths and wherever they fail, a file that nobody writes to holds one body,
\* and a cached preview shows its file, but for the cases these properties
\* name (http/resource.go, fileutils/file.go, http/preview.go).
THEOREM SavedFilesHold == UploadSpec => [](UploadTypeOK /\ SavedWhole /\ PreviewsFit)
<1>1. UploadSpec => []UploadInv
  BY UploadsStart, UploadsStep, PTL DEF UploadSpec
<1> QED BY <1>1, UploadsMean, PTL

--------------------------------------------------------------------------------
(* The TLS obfuscation. *)

\* Induction up to n, for the members of a set.
LEMMA InductionTo ==
  ASSUME NEW n \in Nat, NEW S, 0 \in S, \A k \in 1 .. n : k - 1 \in S => k \in S
  PROVE  0 .. n \subseteq S
<1> DEFINE T == (0 .. n) \ S
<1> SUFFICES ASSUME T # {} PROVE FALSE
  OBVIOUS
<1>1. T \in SUBSET Nat
  OBVIOUS
<1>2. PICK k \in T : \A m \in T : m >= k
  BY <1>1, Least
<1>3. k # 0 /\ k \in 1 .. n /\ k - 1 \in 0 .. n
  BY <1>2
<1>4. k - 1 \in S
  BY <1>2, <1>3
<1> QED BY <1>2, <1>3, <1>4

\* What travels to the client, and where its parser stands: in which record,
\* how far in it, and behind how many units of data.
Symbols == {"type", "length", "data"} \X Nat
\* The data of a record that can be left.
Lefts == 0 .. MaxWrite + HelloLength
\* Where the parser can stand.
Place == [step : Steps, seen : 0 .. 2, left : Lefts, at : Nat]
\* What the parser itself knows of it.
Core(a) == [step |-> a.step, seen |-> a.seen, left |-> a.left]

\* The symbol s takes the parser from a to b; the data is of the right unit if
\* nothing was dropped.
Takes(a, s, b, exact) ==
  \/ /\ a.seen = 0 /\ s = <<"type", a.step>>
     /\ b.step = a.step /\ b.seen = 1 /\ b.left = a.left /\ b.at = a.at
  \/ /\ a.seen = 1
     /\ b.step = a.step /\ b.seen = 2 /\ b.left = (IF a.step < 2 THEN Expected(a) ELSE s[2]) /\ b.at = a.at
  \/ /\ a.seen = 2 /\ a.left > 0
     /\ b.step = (IF a.left = 1 /\ a.step < 3 THEN a.step + 1 ELSE a.step)
     /\ b.seen = (IF a.left = 1 THEN 0 ELSE 2) /\ b.left = a.left - 1
     /\ b.at = (IF a.step < 2 THEN a.at ELSE a.at + 1)
     /\ a.step >= 2 /\ exact => s = <<"data", b.at>>

\* g tells where the parser stands after each symbol of w, from a to b.
Labels(w, a, b, g, exact) ==
  /\ w \in Seq(Symbols) /\ g \in [0 .. Len(w) -> Place] /\ g[0] = a /\ g[Len(w)] = b
  /\ \A i \in 1 .. Len(w) : Takes(g[i - 1], w[i], g[i], exact)
  /\ \A i, j \in 0 .. Len(w) : i <= j => g[i].at <= g[j].at
\* The symbols of w take the parser from a to b.
Runs(w, a, b, exact) == \E g : Labels(w, a, b, g, exact)

\* Nothing takes the parser nowhere.
LEMMA RunsNowhere == \A a \in Place : \A exact : Runs(<<>>, a, a, exact)
<1> SUFFICES ASSUME NEW a \in Place, NEW exact PROVE Runs(<<>>, a, a, exact)
  OBVIOUS
<1>1. PICK g : g = [i \in 0 .. 0 |-> a]
  OBVIOUS
<1>2. g \in [0 .. 0 -> Place] /\ g[0] = a
  BY <1>1
<1>3. Len(<<>>) = 0 /\ <<>> \in Seq(Symbols)
  OBVIOUS
<1>4. a.at \in Nat
  BY DEF Place
<1>5. Labels(<<>>, a, a, g, exact)
  BY <1>2, <1>3, <1>4 DEF Labels
<1> QED BY <1>5 DEF Runs

\* Two runs in a row.
LEMMA RunsJoin ==
  ASSUME NEW v, NEW w, NEW a, NEW b, NEW d, NEW exact, Runs(v, a, b, exact), Runs(w, b, d, exact)
  PROVE  Runs(v \o w, a, d, exact)
<1>1. PICK g : Labels(v, a, b, g, exact)
  BY DEF Runs
<1>2. PICK h : Labels(w, b, d, h, exact)
  BY DEF Runs
<1>3. PICK m \in Nat, n \in Nat : m = Len(v) /\ n = Len(w)
  BY <1>1, <1>2 DEF Labels
<1>4. /\ v \in Seq(Symbols) /\ g \in [0 .. m -> Place] /\ g[0] = a /\ g[m] = b
      /\ w \in Seq(Symbols) /\ h \in [0 .. n -> Place] /\ h[0] = b /\ h[n] = d
      /\ \A i \in 1 .. m : Takes(g[i - 1], v[i], g[i], exact)
      /\ \A i \in 1 .. n : Takes(h[i - 1], w[i], h[i], exact)
      /\ \A i, j \in 0 .. m : i <= j => g[i].at <= g[j].at
      /\ \A i, j \in 0 .. n : i <= j => h[i].at <= h[j].at
  BY <1>1, <1>2, <1>3 DEF Labels
<1>5. PICK x \in Seq(Symbols) :
        /\ x = v \o w /\ Len(x) = m + n
        /\ \A i \in 1 .. m + n : x[i] = IF i <= m THEN v[i] ELSE w[i - m]
  BY SMTT(30), <1>3, <1>4, ConcatProperties
<1>6. PICK f : f = [i \in 0 .. m + n |-> IF i <= m THEN g[i] ELSE h[i - m]]
  OBVIOUS
<1>7. f \in [0 .. m + n -> Place]
  <2>1. \A i \in 0 .. m + n : (IF i <= m THEN g[i] ELSE h[i - m]) \in Place
    BY <1>4
  <2> QED BY <1>6, <2>1
<1>8. /\ \A i \in 0 .. m : f[i] = g[i]
      /\ \A i \in 0 .. n : f[m + i] = h[i]
  <2>1. \A i \in 0 .. m : f[i] = g[i]
    BY <1>4, <1>6
  <2> SUFFICES ASSUME NEW i \in 0 .. n PROVE f[m + i] = h[i]
    BY <2>1
  <2>2. CASE i = 0
    BY <1>4, <1>6, <2>2
  <2>3. CASE i # 0
    <3>1. m + i \in 0 .. m + n /\ ~(m + i <= m) /\ (m + i) - m = i
      BY <2>3
    <3> QED BY <1>6, <3>1
  <2> QED BY <2>2, <2>3
<1>9. \A i \in 1 .. m + n : Takes(f[i - 1], x[i], f[i], exact)
  <2> SUFFICES ASSUME NEW i \in 1 .. m + n PROVE Takes(f[i - 1], x[i], f[i], exact)
    OBVIOUS
  <2>1. CASE i <= m
    BY <1>4, <1>5, <1>8, <2>1
  <2>2. CASE i > m
    <3>1. PICK j \in 1 .. n : i = m + j
      <4>1. i - m \in 1 .. n /\ i = m + (i - m)
        BY <2>2
      <4> QED BY <4>1
    <3>2. f[i] = h[j] /\ x[i] = w[j]
      BY <1>5, <1>8, <2>2, <3>1
    <3>3. f[i - 1] = h[j - 1]
      <4>1. j - 1 \in 0 .. n /\ i - 1 = m + (j - 1)
        BY <3>1
      <4> QED BY <1>8, <4>1
    <3> QED BY <1>4, <3>2, <3>3
  <2> QED BY <2>1, <2>2
<1>10. \A i, j \in 0 .. m + n : i <= j => f[i].at <= f[j].at
  <2> SUFFICES ASSUME NEW i \in 0 .. m + n, NEW j \in 0 .. m + n, i <= j PROVE f[i].at <= f[j].at
    OBVIOUS
  <2>1. \A k \in 0 .. m : g[k].at <= b.at
    <3>1. m \in 0 .. m
      OBVIOUS
    <3> QED BY <1>4, <3>1
  <2>2. \A k \in 0 .. n : b.at <= h[k].at
    <3>1. 0 \in 0 .. n /\ \A k \in 0 .. n : 0 <= k
      OBVIOUS
    <3> QED BY <1>4, <3>1
  <2>3. (\A k \in 0 .. m : g[k].at \in Nat) /\ (\A k \in 0 .. n : h[k].at \in Nat) /\ b.at \in Nat
    <3>1. \A e \in Place : e.at \in Nat
      BY DEF Place
    <3>2. b \in Place
      <4>1. m \in 0 .. m
        OBVIOUS
      <4> QED BY <1>4, <4>1
    <3> QED BY <1>4, <3>1, <3>2
  <2>4. CASE j <= m
    BY SMTT(30), <1>4, <1>8, <2>4
  <2>5. CASE j > m /\ i <= m
    <3>1. j - m \in 0 .. n /\ f[j] = h[j - m] /\ f[i] = g[i] /\ i \in 0 .. m
      BY <1>6, <2>5
    <3>2. PICK k \in 0 .. n : k = j - m
      BY <3>1
    <3> QED BY <2>1, <2>2, <2>3, <3>1, <3>2
  <2>6. CASE i > m
    <3>1. i - m \in 0 .. n /\ f[i] = h[i - m] /\ j - m \in 0 .. n /\ f[j] = h[j - m]
      BY <1>6, <2>6
    <3>2. PICK k \in 0 .. n, l \in 0 .. n : k = i - m /\ l = j - m /\ k <= l
      BY <3>1
    <3> QED BY <1>4, <3>1, <3>2
  <2> QED BY <2>4, <2>5, <2>6
<1>11. f[0] = a /\ f[m + n] = d
  BY <1>4, <1>8
<1>12. Labels(x, a, d, f, exact)
  BY <1>5, <1>7, <1>9, <1>10, <1>11 DEF Labels
<1> QED BY <1>5, <1>12 DEF Runs

\* A run cut in two.
LEMMA RunsCut ==
  ASSUME NEW w, NEW a, NEW b, NEW exact, Runs(w, a, b, exact), NEW n \in 0 .. Len(w)
  PROVE  \E m \in Place : /\ Runs(SubSeq(w, 1, n), a, m, exact)
                          /\ Runs(SubSeq(w, n + 1, Len(w)), m, b, exact)
<1>1. PICK g : Labels(w, a, b, g, exact)
  BY DEF Runs
<1>2. PICK l \in Nat : l = Len(w) /\ n \in 0 .. l
  BY <1>1 DEF Labels
<1>3. /\ w \in Seq(Symbols) /\ g \in [0 .. l -> Place] /\ g[0] = a /\ g[l] = b
      /\ \A i \in 1 .. l : Takes(g[i - 1], w[i], g[i], exact)
      /\ \A i, j \in 0 .. l : i <= j => g[i].at <= g[j].at
  BY <1>1, <1>2 DEF Labels
<1>4. \A i \in 1 .. l : w[i] \in Symbols
  BY <1>2, <1>3
<1>5. PICK v \in Seq(Symbols) : v = SubSeq(w, 1, n) /\ Len(v) = n /\ \A i \in 1 .. n : v[i] = w[i]
  <2>1. 1 \in Int /\ n \in Int /\ \A i \in 1 .. n : w[i] \in Symbols
    BY <1>2, <1>4
  <2>2. SubSeq(w, 1, n) \in Seq(Symbols) /\ Len(SubSeq(w, 1, n)) = IF 1 <= n THEN n - 1 + 1 ELSE 0
    BY <2>1, SubSeqProperties
  <2>3. Len(SubSeq(w, 1, n)) = n
    BY <1>2, <2>2
  <2>4. \A i \in 1 .. n : SubSeq(w, 1, n)[i] = w[i]
    BY <1>2, <1>3, <2>1, SubSeqProperties
  <2> QED BY <2>2, <2>3, <2>4
<1>6. PICK x \in Seq(Symbols) : /\ x = SubSeq(w, n + 1, l) /\ Len(x) = l - n
                                /\ \A i \in 1 .. l - n : x[i] = w[n + i]
  <2>1. n + 1 \in Int /\ l \in Int /\ \A i \in n + 1 .. l : w[i] \in Symbols
    BY <1>2, <1>4
  <2>2. /\ SubSeq(w, n + 1, l) \in Seq(Symbols)
        /\ Len(SubSeq(w, n + 1, l)) = IF n + 1 <= l THEN l - (n + 1) + 1 ELSE 0
    BY <2>1, SubSeqProperties
  <2>3. Len(SubSeq(w, n + 1, l)) = l - n
    BY <1>2, <2>2
  <2>4. \A i \in 1 .. l - n : SubSeq(w, n + 1, l)[i] = w[n + i]
    BY <1>2, <1>3, <2>1, SubSeqProperties
  <2> QED BY <2>2, <2>3, <2>4
<1>7. PICK h : h = [i \in 0 .. n |-> g[i]]
  OBVIOUS
<1>8. PICK k : k = [i \in 0 .. l - n |-> g[n + i]]
  OBVIOUS
<1>9. g[n] \in Place
  BY <1>2, <1>3
<1>10. Labels(v, a, g[n], h, exact)
  <2>1. h \in [0 .. n -> Place] /\ \A i \in 0 .. n : h[i] = g[i] /\ i \in 0 .. l
    <3>1. \A i \in 0 .. n : i \in 0 .. l
      BY <1>2
    <3>2. \A i \in 0 .. n : g[i] \in Place
      BY <1>3, <3>1
    <3> QED BY <1>7, <3>1, <3>2
  <2>2. \A i \in 1 .. n : Takes(h[i - 1], v[i], h[i], exact)
    BY <1>2, <1>3, <1>5, <2>1
  <2>3. \A i, j \in 0 .. n : i <= j => h[i].at <= h[j].at
    BY <1>3, <2>1
  <2> QED BY <1>2, <1>3, <1>5, <2>1, <2>2, <2>3 DEF Labels
<1>11. Labels(x, g[n], b, k, exact)
  <2>1. k \in [0 .. l - n -> Place] /\ \A i \in 0 .. l - n : k[i] = g[n + i] /\ n + i \in 0 .. l
    BY <1>2, <1>3, <1>8
  <2>2. \A i \in 1 .. l - n : Takes(k[i - 1], x[i], k[i], exact)
    <3> SUFFICES ASSUME NEW i \in 1 .. l - n PROVE Takes(k[i - 1], x[i], k[i], exact)
      OBVIOUS
    <3>1. n + i \in 1 .. l /\ i - 1 \in 0 .. l - n /\ (n + i) - 1 = n + (i - 1)
      BY <1>2
    <3>2. Takes(g[(n + i) - 1], w[n + i], g[n + i], exact)
      BY <1>3, <3>1
    <3> QED BY <1>6, <2>1, <3>1, <3>2
  <2>3. \A i, j \in 0 .. l - n : i <= j => k[i].at <= k[j].at
    BY <1>2, <1>3, <2>1
  <2>4. k[0] = g[n] /\ k[l - n] = b
    BY <1>2, <1>3, <2>1
  <2>5. l - n \in Nat
    BY <1>2
  <2> QED BY <1>6, <2>1, <2>2, <2>3, <2>4, <2>5 DEF Labels
<1> QED BY <1>2, <1>5, <1>6, <1>9, <1>10, <1>11 DEF Runs

\* What is exact is also not.
LEMMA RunsLoosen == \A w, a, b : Runs(w, a, b, TRUE) => Runs(w, a, b, FALSE)
<1> SUFFICES ASSUME NEW w, NEW a, NEW b, Runs(w, a, b, TRUE) PROVE Runs(w, a, b, FALSE)
  OBVIOUS
<1>1. PICK g : Labels(w, a, b, g, TRUE)
  BY DEF Runs
<1>2. \A c, s, d : Takes(c, s, d, TRUE) => Takes(c, s, d, FALSE)
  BY DEF Takes
<1>3. Labels(w, a, b, g, FALSE)
  BY <1>1, <1>2 DEF Labels
<1> QED BY <1>3 DEF Runs

\* A record: a header of two symbols, and its data.
LEMMA RecordIs ==
  ASSUME NEW step \in Steps, NEW units \in Seq(Nat)
  PROVE  /\ Record(step, units) \in Seq(Symbols) /\ Len(Record(step, units)) = Len(units) + 2
         /\ Record(step, units)[1] = <<"type", step>> /\ Record(step, units)[2] = <<"length", Len(units)>>
         /\ \A i \in 1 .. Len(units) : Record(step, units)[2 + i] = <<"data", units[i]>>
<1>1. PICK l \in Nat : l = Len(units)
  OBVIOUS
<1>2. PICK h : h = <<<<"type", step>>, <<"length", l>>>>
  OBVIOUS
<1>3. h \in Seq(Symbols) /\ Len(h) = 2 /\ h[1] = <<"type", step>> /\ h[2] = <<"length", l>>
  <2>1. <<"type", step>> \in Symbols /\ <<"length", l>> \in Symbols
    BY DEF Symbols, Steps
  <2> QED BY <1>2, <2>1
<1>4. PICK d : d = [i \in 1 .. l |-> <<"data", units[i]>>]
  OBVIOUS
<1>5. d \in Seq(Symbols) /\ Len(d) = l /\ \A i \in 1 .. l : d[i] = <<"data", units[i]>>
  <2>1. \A i \in 1 .. l : <<"data", units[i]>> \in Symbols
    BY <1>1 DEF Symbols
  <2>2. d \in [1 .. l -> Symbols]
    BY <1>4, <2>1
  <2> QED BY <1>4, <2>2
<1>6. /\ h \o d \in Seq(Symbols) /\ Len(h \o d) = l + 2
      /\ \A i \in 1 .. l + 2 : (h \o d)[i] = IF i <= 2 THEN h[i] ELSE d[i - 2]
  <2>1. /\ h \o d \in Seq(Symbols) /\ Len(h \o d) = Len(h) + Len(d)
        /\ \A i \in 1 .. Len(h) + Len(d) : (h \o d)[i] = IF i <= Len(h) THEN h[i] ELSE d[i - Len(h)]
    BY <1>3, <1>5, ConcatProperties
  <2> QED BY <1>3, <1>5, <2>1
<1>7. \A i \in 1 .. l : (h \o d)[2 + i] = d[i]
  <2> SUFFICES ASSUME NEW i \in 1 .. l PROVE (h \o d)[2 + i] = d[i]
    OBVIOUS
  <2>1. 2 + i \in 1 .. l + 2 /\ ~(2 + i <= 2) /\ (2 + i) - 2 = i
    OBVIOUS
  <2> QED BY <1>6, <2>1
<1>8. (h \o d)[1] = h[1] /\ (h \o d)[2] = h[2]
  BY <1>6
<1>9. Record(step, units) = h \o d
  BY <1>1, <1>2, <1>4 DEF Record
<1> QED BY <1>1, <1>3, <1>5, <1>6, <1>7, <1>8, <1>9

\* A record takes the parser from the beginning of one record to that of the
\* next.
LEMMA RecordRuns ==
  ASSUME NEW a \in Place, a.seen = 0, a.left = 0, NEW units \in Seq(Nat), NEW exact,
         Len(units) \in Lefts \ {0}, a.step < 2 => Len(units) = Expected(a),
         exact /\ a.step >= 2 => \A i \in 1 .. Len(units) : units[i] = a.at + i
  PROVE  \E b \in Place : /\ Runs(Record(a.step, units), a, b, exact)
                          /\ b.step = (IF a.step < 3 THEN a.step + 1 ELSE a.step) /\ b.seen = 0 /\ b.left = 0
                          /\ b.at = IF a.step < 2 THEN a.at ELSE a.at + Len(units)
<1>1. PICK l \in Nat \ {0} : l = Len(units) /\ l \in Lefts /\ (a.step < 2 => l = Expected(a))
  OBVIOUS
<1>2. PICK r \in Seq(Symbols) :
        /\ r = Record(a.step, units) /\ Len(r) = l + 2 /\ r[1] = <<"type", a.step>> /\ r[2] = <<"length", l>>
        /\ \A i \in 1 .. l : r[2 + i] = <<"data", units[i]>>
  <2>1. a.step \in Steps
    BY DEF Place
  <2> QED BY <1>1, <2>1, RecordIs
<1>3. a.step \in Steps /\ a.step \in 0 .. 3 /\ a.at \in Nat /\ a.left \in Lefts /\ 0 \in Lefts
  BY DEF Place, Steps
<1> DEFINE Far(j) == IF a.step < 2 THEN a.at ELSE a.at + j
           Mid(j) == [step |-> a.step, seen |-> 2, left |-> l - j, at |-> Far(j)]
<1>4. \A j \in 0 .. l : Far(j) \in Nat /\ \A k \in 0 .. l : j <= k => Far(j) <= Far(k)
  BY <1>3
<1>5. PICK b \in Place : b = [step |-> IF a.step < 3 THEN a.step + 1 ELSE a.step, seen |-> 0, left |-> 0, at |-> Far(l)]
  <2>1. (IF a.step < 3 THEN a.step + 1 ELSE a.step) \in Steps
    BY <1>3 DEF Steps
  <2>2. Far(l) \in Nat
    BY <1>1, <1>4
  <2> HIDE DEF Far
  <2>3. [step |-> IF a.step < 3 THEN a.step + 1 ELSE a.step, seen |-> 0, left |-> 0, at |-> Far(l)] \in Place
    BY <1>3, <2>1, <2>2 DEF Place
  <2> QED BY <2>3
<1>6. PICK s \in Place : s = [step |-> a.step, seen |-> 1, left |-> 0, at |-> a.at]
  <2>1. [step |-> a.step, seen |-> 1, left |-> 0, at |-> a.at] \in Place
    BY <1>3 DEF Place
  <2> QED BY <2>1
<1>7. \A j \in 0 .. l : Mid(j) \in Place
  <2> SUFFICES ASSUME NEW j \in 0 .. l PROVE Mid(j) \in Place
    OBVIOUS
  <2>1. Far(j) \in Nat
    BY <1>4
  <2>2. l - j \in Lefts
    <3>1. l \in 0 .. MaxWrite + HelloLength /\ MaxWrite + HelloLength \in Int
      BY <1>1, ObfsAssumption DEF Lefts, HelloLength
    <3> QED BY <3>1 DEF Lefts
  <2> HIDE DEF Far
  <2> QED BY <1>3, <2>1, <2>2 DEF Place
<1>8. PICK g : g = [i \in 0 .. l + 2 |-> IF i = 0 THEN a ELSE IF i = 1 THEN s ELSE IF i = l + 2 THEN b ELSE Mid(i - 2)]
  OBVIOUS
<1>9. g[0] = a /\ g[1] = s /\ g[l + 2] = b /\ \A j \in 0 .. l - 1 : g[2 + j] = Mid(j)
  <2> HIDE DEF Mid
  <2>1. g[0] = a /\ g[1] = s /\ g[l + 2] = b
    BY <1>8
  <2> SUFFICES ASSUME NEW j \in 0 .. l - 1 PROVE g[2 + j] = Mid(j)
    BY <2>1
  <2>2. 2 + j \in 0 .. l + 2 /\ 2 + j # 0 /\ 2 + j # 1 /\ 2 + j # l + 2 /\ (2 + j) - 2 = j
    OBVIOUS
  <2> QED BY <1>8, <2>2
<1>10. g \in [0 .. l + 2 -> Place]
  <2> HIDE DEF Mid
  <2>1. ASSUME NEW i \in 0 .. l + 2
        PROVE  (IF i = 0 THEN a ELSE IF i = 1 THEN s ELSE IF i = l + 2 THEN b ELSE Mid(i - 2)) \in Place
    <3>1. i # 0 /\ i # 1 /\ i # l + 2 => i - 2 \in 0 .. l
      OBVIOUS
    <3> QED BY <1>7, <3>1
  <2> QED BY <1>8, <2>1
<1>11. \A i \in 1 .. l + 2 : Takes(g[i - 1], r[i], g[i], exact)
  <2> SUFFICES ASSUME NEW i \in 1 .. l + 2 PROVE Takes(g[i - 1], r[i], g[i], exact)
    OBVIOUS
  <2>1. CASE i = 1
    BY <1>2, <1>6, <1>9, <2>1 DEF Takes
  <2>2. CASE i = 2
    <3>1. g[2] = Mid(0)
      <4>1. 0 \in 0 .. l - 1 /\ 2 + 0 = 2
        OBVIOUS
      <4> HIDE DEF Mid
      <4> QED BY <1>9, <4>1
    <3>2. r[2][2] = l
      BY <1>2
    <3>3. l = IF s.step < 2 THEN Expected(s) ELSE r[2][2]
      BY <1>1, <1>6, <3>2 DEF Expected
    <3>4. g[2].step = s.step /\ g[2].seen = 2 /\ g[2].left = l /\ g[2].at = s.at /\ s.seen = 1
      BY <1>3, <1>6, <3>1
    <3>5. Takes(s, r[2], g[2], exact)
      BY <3>3, <3>4 DEF Takes
    <3> QED BY <1>9, <2>2, <3>5
  <2>3. CASE i > 2
    <3>1. PICK j \in 1 .. l : i = 2 + j
      <4>1. i - 2 \in 1 .. l /\ i = 2 + (i - 2)
        BY <2>3
      <4> QED BY <4>1
    <3>2. PICK m \in Place : m = g[i - 1] /\ m = Mid(j - 1)
      <4>1. j - 1 \in 0 .. l - 1 /\ j - 1 \in 0 .. l /\ i - 1 = 2 + (j - 1)
        BY <3>1
      <4> HIDE DEF Mid
      <4> QED BY <1>7, <1>9, <4>1
    <3>3. m.step = a.step /\ m.seen = 2 /\ m.left = l - (j - 1) /\ m.at = Far(j - 1)
      BY <3>2
    <3>4. /\ g[i].step = IF j = l /\ a.step < 3 THEN a.step + 1 ELSE a.step
          /\ g[i].seen = IF j = l THEN 0 ELSE 2
          /\ g[i].left = l - j /\ g[i].at = Far(j)
      <4>1. CASE j = l
        BY <1>5, <1>9, <3>1, <4>1
      <4>2. CASE j # l
        <5>1. g[i] = Mid(j)
          <6>1. j \in 0 .. l - 1
            BY <4>2
          <6> HIDE DEF Mid
          <6> QED BY <1>9, <3>1, <6>1
        <5> QED BY <4>2, <5>1
      <4> QED BY <4>1, <4>2
    <3>5. m.left > 0 /\ (m.left = 1 <=> j = l) /\ g[i].left = m.left - 1
      BY <3>3, <3>4
    <3>6. g[i].at = IF m.step < 2 THEN m.at ELSE m.at + 1
      BY <1>3, <3>3, <3>4
    <3>7. m.step >= 2 /\ exact => r[i] = <<"data", g[i].at>>
      <4> SUFFICES ASSUME m.step >= 2, exact PROVE r[i] = <<"data", g[i].at>>
        OBVIOUS
      <4>1. r[i] = <<"data", units[j]>>
        BY <1>2, <3>1
      <4>2. units[j] = a.at + j
        BY <1>1, <3>3
      <4>3. g[i].at = a.at + j
        BY <1>3, <3>3, <3>4
      <4> QED BY <4>1, <4>2, <4>3
    <3>8. g[i].step = (IF m.left = 1 /\ m.step < 3 THEN m.step + 1 ELSE m.step) /\ g[i].seen = IF m.left = 1 THEN 0 ELSE 2
      BY <3>3, <3>4, <3>5
    <3>9. Takes(m, r[i], g[i], exact)
      BY <3>3, <3>5, <3>6, <3>7, <3>8 DEF Takes
    <3> QED BY <3>2, <3>9
  <2> QED BY <2>1, <2>2, <2>3
<1>12. \A i, j \in 0 .. l + 2 : i <= j => g[i].at <= g[j].at
  <2> DEFINE Reach(i) == IF i <= 2 THEN 0 ELSE i - 2
  <2>1. ASSUME NEW i \in 0 .. l + 2 PROVE g[i].at = Far(Reach(i)) /\ Reach(i) \in 0 .. l
    <3>1. CASE i = 0 \/ i = 1
      BY <1>3, <1>6, <1>9, <3>1
    <3>2. CASE i = l + 2
      BY <1>5, <1>9, <3>2
    <3>3. CASE i \in 2 .. l + 1
      <4>1. i - 2 \in 0 .. l - 1 /\ 2 + (i - 2) = i /\ Reach(i) = i - 2
        BY <3>3
      <4>2. g[i] = Mid(i - 2)
        <5> HIDE DEF Mid, Reach
        <5> QED BY <1>9, <4>1
      <4>3. g[i].at = Far(i - 2)
        BY <4>2
      <4> QED BY <4>1, <4>3
    <3> QED BY <3>1, <3>2, <3>3
  <2>2. \A i, j \in 0 .. l + 2 : i <= j => Reach(i) <= Reach(j)
    OBVIOUS
  <2> HIDE DEF Reach, Far
  <2> QED BY <1>4, <2>1, <2>2
<1>13. Labels(r, a, b, g, exact)
  BY <1>2, <1>9, <1>10, <1>11, <1>12 DEF Labels
<1> HIDE DEF Mid
<1>14. /\ b.step = (IF a.step < 3 THEN a.step + 1 ELSE a.step) /\ b.seen = 0 /\ b.left = 0
       /\ b.at = IF a.step < 2 THEN a.at ELSE a.at + Len(units)
  BY <1>1, <1>5
<1> QED BY <1>2, <1>13, <1>14 DEF Runs

\* f is the parser after each of the first symbols, up to the n-th.
PassesTo(f, start, symbols, n) ==
  /\ f = [i \in 0 .. n |-> f[i]] /\ f[0] = start
  /\ \A i \in 1 .. n : f[i] = ParseSymbol(f[i - 1], symbols[i])

\* There is such a function, each extended by one symbol; so Passes is one.
LEMMA PassesUnfolds ==
  ASSUME NEW start, NEW symbols \in Seq(Symbols)
  PROVE  /\ Passes(start, symbols)[0] = start
         /\ \A i \in 1 .. Len(symbols) :
              Passes(start, symbols)[i] = ParseSymbol(Passes(start, symbols)[i - 1], symbols[i])
<1>1. PICK n \in Nat : n = Len(symbols)
  OBVIOUS
<1> DEFINE S == {k \in 0 .. n : \E f : PassesTo(f, start, symbols, k)}
<1>2. 0 \in S
  <2>1. PICK f : f = [i \in 0 .. 0 |-> start]
    OBVIOUS
  <2>2. f = [i \in 0 .. 0 |-> f[i]] /\ f[0] = start
    BY <2>1
  <2>3. PassesTo(f, start, symbols, 0)
    BY <2>2 DEF PassesTo
  <2> QED BY <2>3
<1>3. ASSUME NEW k \in 1 .. n, k - 1 \in S PROVE k \in S
  <2>1. PICK f : PassesTo(f, start, symbols, k - 1)
    BY <1>3
  <2>2. PICK g : g = [i \in 0 .. k |-> IF i = k THEN ParseSymbol(f[k - 1], symbols[k]) ELSE f[i]]
    OBVIOUS
  <2>3. g[k] = ParseSymbol(f[k - 1], symbols[k]) /\ \A i \in 0 .. k - 1 : g[i] = f[i]
    BY <2>2
  <2>4. g = [i \in 0 .. k |-> g[i]]
    BY <2>2
  <2>5. g[0] = start /\ \A i \in 1 .. k : g[i] = ParseSymbol(g[i - 1], symbols[i])
    <3> SUFFICES ASSUME NEW i \in 1 .. k PROVE g[i] = ParseSymbol(g[i - 1], symbols[i])
      BY SMTT(30), <2>1, <2>3 DEF PassesTo
    <3>1. CASE i = k
      BY <2>3, <3>1
    <3>2. CASE i # k
      <4>1. i \in 1 .. k - 1 /\ i \in 0 .. k - 1 /\ i - 1 \in 0 .. k - 1
        BY <3>2
      <4>2. f[i] = ParseSymbol(f[i - 1], symbols[i])
        BY <2>1, <4>1 DEF PassesTo
      <4> QED BY <2>3, <4>1, <4>2
    <3> QED BY <3>1, <3>2
  <2>6. PassesTo(g, start, symbols, k)
    BY <2>4, <2>5 DEF PassesTo
  <2> QED BY <2>6
<1> HIDE DEF S
<1>4. 0 .. n \subseteq S
  BY <1>2, <1>3, InductionTo
<1>5. PICK f : PassesTo(f, start, symbols, n)
  BY <1>4 DEF S
<1>6. f = [i \in 0 .. n |-> IF i = 0 THEN start ELSE ParseSymbol(f[i - 1], symbols[i])]
  <2>1. \A i \in 0 .. n : f[i] = IF i = 0 THEN start ELSE ParseSymbol(f[i - 1], symbols[i])
    BY <1>5 DEF PassesTo
  <2>2. f = [i \in 0 .. n |-> f[i]]
    BY <1>5 DEF PassesTo
  <2> QED BY <2>1, <2>2
<1>7. PICK p : p = Passes(start, symbols)
  OBVIOUS
<1>8. p = [i \in 0 .. n |-> IF i = 0 THEN start ELSE ParseSymbol(p[i - 1], symbols[i])]
  <2>1. p = CHOOSE h : h = [i \in 0 .. n |-> IF i = 0 THEN start ELSE ParseSymbol(h[i - 1], symbols[i])]
    BY <1>1, <1>7 DEF Passes
  <2> QED BY <1>6, <2>1
<1>9. p[0] = start /\ \A i \in 1 .. n : p[i] = ParseSymbol(p[i - 1], symbols[i])
  <2>1. \A i \in 0 .. n : p[i] = IF i = 0 THEN start ELSE ParseSymbol(p[i - 1], symbols[i])
    BY <1>8
  <2> QED BY <2>1
<1> QED BY <1>1, <1>7, <1>9

\* The parser in the middle of a buffer, and what it keeps: as far as a, and as
\* many units of data as there are from the unit behind which the buffer starts.
ParserState == [step : Steps, seen : 0 .. 2, left : Lefts, kept : Seq(Symbols), behind : Nat, bad : BOOLEAN]
\* The parser p stands at a, and has kept the data behind the unit from.
Follows(p, a, from, exact) ==
  /\ p \in ParserState /\ p.step = a.step /\ p.seen = a.seen /\ p.left = a.left /\ p.bad = FALSE
  /\ Len(p.kept) = a.at - from
  /\ exact => \A j \in 1 .. Len(p.kept) : p.kept[j] = <<"data", from + j>>

\* One symbol of a run.
LEMMA ParseFollows ==
  ASSUME NEW a \in Place, NEW b \in Place, NEW s \in Symbols, NEW exact \in BOOLEAN, Takes(a, s, b, exact),
         NEW from \in Nat, from <= a.at, NEW p, Follows(p, a, from, exact)
  PROVE  Follows(ParseSymbol(p, s), b, from, exact)
<1>1. /\ p \in ParserState /\ p.step = a.step /\ p.seen = a.seen /\ p.left = a.left /\ p.bad = FALSE
      /\ Len(p.kept) = a.at - from
      /\ exact => \A j \in 1 .. Len(p.kept) : p.kept[j] = <<"data", from + j>>
  BY DEF Follows
<1>2. /\ p.step \in Steps /\ p.seen \in 0 .. 2 /\ p.left \in Lefts /\ p.kept \in Seq(Symbols) /\ p.behind \in Nat
      /\ p.bad \in BOOLEAN
      /\ p = [step |-> p.step, seen |-> p.seen, left |-> p.left, kept |-> p.kept, behind |-> p.behind, bad |-> p.bad]
  BY <1>1 DEF ParserState
<1>3. b.step \in Steps /\ b.seen \in 0 .. 2 /\ b.left \in Lefts /\ b.at \in Nat /\ a.step \in 0 .. 3 /\ a.at \in Nat
  BY DEF Place, Steps
<1>4. CASE a.seen = 0
  <2>1. PICK r : r = ParseSymbol(p, s)
    OBVIOUS
  <2>2. r = [p EXCEPT !.seen = 1, !.behind = @ + 1]
    BY <1>1, <1>4, <2>1 DEF ParseSymbol, Takes
  <2>3. /\ r \in ParserState /\ r.step = p.step /\ r.seen = 1 /\ r.left = p.left /\ r.kept = p.kept /\ r.bad = p.bad
    <3>1. r = [step |-> p.step, seen |-> 1, left |-> p.left, kept |-> p.kept, behind |-> p.behind + 1, bad |-> p.bad]
      BY <1>2, <2>2
    <3>2. p.behind + 1 \in Nat /\ p.bad \in BOOLEAN
      BY <1>1, <1>2
    <3>3. r \in ParserState
      BY <1>2, <3>1, <3>2 DEF ParserState
    <3> QED BY <3>1, <3>3
  <2>4. b.step = a.step /\ b.seen = 1 /\ b.left = a.left /\ b.at = a.at
    BY <1>4 DEF Takes
  <2>5. Follows(r, b, from, exact)
    BY <1>1, <2>3, <2>4 DEF Follows
  <2> QED BY <1>1, <2>1, <2>5
<1>5. CASE a.seen = 1
  <2>1. PICK r : r = ParseSymbol(p, s)
    OBVIOUS
  <2>2. PICK l : l = IF a.step < 2 THEN Expected(a) ELSE s[2]
    OBVIOUS
  <2>3. b.step = a.step /\ b.seen = 2 /\ b.left = l /\ b.at = a.at
    BY <1>5, <2>2 DEF Takes
  <2>4. Expected(p) = Expected(a)
    BY <1>1 DEF Expected
  <2>5. r = [p EXCEPT !.seen = 2, !.behind = @ + 1, !.left = l]
    BY <1>1, <1>5, <2>1, <2>2, <2>4 DEF ParseSymbol
  <2>6. /\ r \in ParserState /\ r.step = p.step /\ r.seen = 2 /\ r.left = l /\ r.kept = p.kept /\ r.bad = p.bad
    <3>1. r = [step |-> p.step, seen |-> 2, left |-> l, kept |-> p.kept, behind |-> p.behind + 1, bad |-> p.bad]
      BY <1>2, <2>5
    <3>2. p.behind + 1 \in Nat /\ p.bad \in BOOLEAN
      BY <1>1, <1>2
    <3>3. r \in ParserState
      BY <1>2, <1>3, <2>3, <3>1, <3>2 DEF ParserState
    <3> QED BY <3>1, <3>3
  <2>7. Follows(r, b, from, exact)
    BY <1>1, <2>3, <2>6 DEF Follows
  <2> QED BY <1>1, <2>1, <2>7
<1>6. CASE a.seen = 2
  <2>1. PICK r : r = ParseSymbol(p, s)
    OBVIOUS
  <2>2. /\ a.left > 0
        /\ b.step = (IF a.left = 1 /\ a.step < 3 THEN a.step + 1 ELSE a.step)
        /\ b.seen = (IF a.left = 1 THEN 0 ELSE 2) /\ b.left = a.left - 1
        /\ b.at = (IF a.step < 2 THEN a.at ELSE a.at + 1)
        /\ a.step >= 2 /\ exact => s = <<"data", b.at>>
    BY <1>6 DEF Takes
  <2>3. PICK t : t = IF p.left = 1 THEN AfterRecord(p) ELSE [p EXCEPT !.left = @ - 1]
    OBVIOUS
  <2>4. /\ t \in ParserState /\ t.step = b.step /\ t.seen = b.seen /\ t.left = b.left
        /\ t.kept = p.kept /\ t.behind = p.behind /\ t.bad = p.bad
    <3>1. CASE p.left = 1
      <4>1. t = [p EXCEPT !.step = IF @ < 3 THEN @ + 1 ELSE @, !.seen = 0, !.left = 0]
        BY <2>3, <3>1 DEF AfterRecord
      <4>2. /\ t.step = (IF p.step < 3 THEN p.step + 1 ELSE p.step) /\ t.seen = 0 /\ t.left = 0
            /\ t.kept = p.kept /\ t.behind = p.behind /\ t.bad = p.bad
            /\ t = [step |-> t.step, seen |-> t.seen, left |-> t.left, kept |-> t.kept, behind |-> t.behind,
                    bad |-> t.bad]
        BY <1>2, <4>1
      <4>3. t.step = b.step /\ t.seen = b.seen /\ t.left = b.left
        BY <1>1, <2>2, <3>1, <4>2
      <4> QED BY <1>1, <1>2, <1>3, <4>2, <4>3 DEF ParserState
    <3>2. CASE p.left # 1
      <4>1. t = [p EXCEPT !.left = @ - 1]
        BY <2>3, <3>2
      <4>2. /\ t.step = p.step /\ t.seen = p.seen /\ t.left = p.left - 1
            /\ t.kept = p.kept /\ t.behind = p.behind /\ t.bad = p.bad
            /\ t = [step |-> t.step, seen |-> t.seen, left |-> t.left, kept |-> t.kept, behind |-> t.behind,
                    bad |-> t.bad]
        BY <1>2, <4>1
      <4>3. t.step = b.step /\ t.seen = b.seen /\ t.left = b.left
        BY <1>1, <1>6, <2>2, <3>2, <4>2
      <4> QED BY <1>1, <1>2, <1>3, <4>2, <4>3 DEF ParserState
    <3> QED BY <3>1, <3>2
  <2>5. r = IF p.step < 2 THEN [t EXCEPT !.behind = @ + 1] ELSE [t EXCEPT !.kept = Append(@, s), !.behind = 0]
    BY <1>1, <1>6, <2>1, <2>3 DEF ParseSymbol
  <2>6. CASE p.step < 2
    <3>1. r = [t EXCEPT !.behind = @ + 1]
      BY <2>5, <2>6
    <3>2. /\ r \in ParserState /\ r.step = t.step /\ r.seen = t.seen /\ r.left = t.left /\ r.kept = t.kept
          /\ r.bad = t.bad
      BY <2>4, <3>1 DEF ParserState
    <3>3. b.at = a.at
      BY <1>1, <2>2, <2>6
    <3>4. Follows(r, b, from, exact)
      BY <1>1, <2>4, <3>2, <3>3 DEF Follows
    <3> QED BY <1>1, <2>1, <3>4
  <2>7. CASE ~(p.step < 2)
    <3>1. PICK k : k = Append(p.kept, s)
      OBVIOUS
    <3>2. r = [t EXCEPT !.kept = k, !.behind = 0]
      BY <2>4, <2>5, <2>7, <3>1 DEF ParserState
    <3>3. /\ k \in Seq(Symbols) /\ Len(k) = Len(p.kept) + 1
          /\ k[Len(p.kept) + 1] = s /\ \A j \in 1 .. Len(p.kept) : k[j] = p.kept[j]
      BY <1>2, <3>1, AppendProperties
    <3>4. /\ r \in ParserState /\ r.step = t.step /\ r.seen = t.seen /\ r.left = t.left /\ r.kept = k
          /\ r.bad = t.bad
      BY <2>4, <3>2, <3>3 DEF ParserState
    <3>5. b.at = a.at + 1 /\ (exact => s = <<"data", b.at>>)
      <4>1. p.step = a.step /\ a.step \in 0 .. 3
        BY <1>1, <1>3
      <4>2. a.step >= 2 /\ ~(a.step < 2)
        BY <2>7, <4>1
      <4> QED BY <2>2, <4>2
    <3>6. PICK n \in Nat : n = Len(p.kept) /\ n = a.at - from /\ Len(k) = n + 1 /\ n + 1 = b.at - from
      BY <1>1, <1>2, <1>3, <3>3, <3>5
    <3>7. ASSUME exact, NEW j \in 1 .. n + 1 PROVE k[j] = <<"data", from + j>>
      <4>1. CASE j = n + 1
        <5>1. from + j = b.at
          BY SMTT(30), <1>3, <3>6, <4>1
        <5> QED BY <3>3, <3>5, <3>6, <3>7, <4>1, <5>1
      <4>2. CASE j # n + 1
        <5>1. j \in 1 .. n
          BY <4>2
        <5> QED BY <1>1, <3>3, <3>6, <3>7, <5>1
      <4> QED BY <4>1, <4>2
    <3>8. Follows(r, b, from, exact)
      BY <1>1, <2>4, <3>4, <3>6, <3>7 DEF Follows
    <3> QED BY <1>1, <2>1, <3>8
  <2> QED BY <2>6, <2>7
<1>7. a.seen \in 0 .. 2
  BY DEF Place
<1> QED BY <1>4, <1>5, <1>6, <1>7

\* r is the parser's answer to a run from a to b.
Returns(r, a, b, exact) ==
  /\ r.parser = Core(b) /\ r.bad = FALSE /\ a \in Place /\ b \in Place /\ a.at <= b.at
  /\ r.cut \in BOOLEAN
  /\ ~r.cut => /\ r.returned \in Seq(Symbols) /\ Len(r.returned) = b.at - a.at
               /\ exact => \A j \in 1 .. b.at - a.at : r.returned[j] = <<"data", a.at + j>>

\* What Parse makes of a run: it is where the run ends, finds nothing wrong,
\* and unless the buffer ends in a header behind data, returns the data.
LEMMA ParsedRuns ==
  ASSUME NEW w, NEW a, NEW b, NEW exact \in BOOLEAN, Runs(w, a, b, exact), parser = Core(a)
  PROVE  Returns(Parsed(w), a, b, exact)
<1>1. PICK g : Labels(w, a, b, g, exact)
  BY DEF Runs
<1>2. PICK n \in Nat : n = Len(w)
  BY <1>1 DEF Labels
<1>3. /\ w \in Seq(Symbols) /\ g \in [0 .. n -> Place] /\ g[0] = a /\ g[n] = b
      /\ \A i \in 1 .. n : Takes(g[i - 1], w[i], g[i], exact)
      /\ \A i, j \in 0 .. n : i <= j => g[i].at <= g[j].at
  BY <1>1, <1>2 DEF Labels
<1>4. a \in Place /\ b \in Place /\ a.at \in Nat /\ b.at \in Nat /\ a.at <= b.at /\ \A i \in 0 .. n : a.at <= g[i].at
  <2>1. a \in Place /\ b \in Place
    BY <1>3
  <2>2. 0 \in 0 .. n /\ n \in 0 .. n /\ \A i \in 0 .. n : 0 <= i
    OBVIOUS
  <2> QED BY <1>3, <2>1, <2>2 DEF Place
<1>5. PICK start : start = [step |-> parser.step, seen |-> parser.seen, left |-> parser.left,
                            kept |-> <<>>, behind |-> 0, bad |-> FALSE]
  OBVIOUS
<1>6. Follows(start, a, a.at, exact)
  <2>1. parser.step = a.step /\ parser.seen = a.seen /\ parser.left = a.left
    BY DEF Core
  <2>2. a.step \in Steps /\ a.seen \in 0 .. 2 /\ a.left \in Lefts
    BY <1>4 DEF Place
  <2>3. <<>> \in Seq(Symbols) /\ Len(<<>>) = 0
    OBVIOUS
  <2>4. start \in ParserState
    BY <1>5, <2>1, <2>2, <2>3 DEF ParserState
  <2> QED BY <1>4, <1>5, <2>1, <2>3, <2>4 DEF Follows
<1>7. PICK p : p = Passes(start, w)
  OBVIOUS
<1>8. p[0] = start /\ \A i \in 1 .. n : p[i] = ParseSymbol(p[i - 1], w[i])
  BY <1>2, <1>3, <1>7, PassesUnfolds
<1> DEFINE S == {i \in 0 .. n : Follows(p[i], g[i], a.at, exact)}
<1>9. 0 \in S
  BY <1>3, <1>6, <1>8
<1>10. ASSUME NEW k \in 1 .. n, k - 1 \in S PROVE k \in S
  <2>1. k \in 0 .. n /\ k - 1 \in 0 .. n /\ g[k - 1] \in Place /\ g[k] \in Place /\ w[k] \in Symbols
    <3>1. k \in 0 .. n /\ k - 1 \in 0 .. n
      OBVIOUS
    <3> QED BY <1>2, <1>3, <3>1
  <2>2. Follows(p[k - 1], g[k - 1], a.at, exact) /\ a.at <= g[k - 1].at
    BY <1>4, <1>10, <2>1
  <2>3. Follows(ParseSymbol(p[k - 1], w[k]), g[k], a.at, exact)
    BY <1>3, <1>4, <2>1, <2>2, ParseFollows
  <2> QED BY <1>8, <2>1, <2>3
<1> HIDE DEF S
<1>11. 0 .. n \subseteq S
  BY <1>9, <1>10, InductionTo
<1>12. Follows(p[n], b, a.at, exact)
  <2>1. n \in 0 .. n
    OBVIOUS
  <2> QED BY <1>3, <1>11, <2>1 DEF S
<1>13. PICK e : e = p[n]
  OBVIOUS
<1>20. /\ e \in ParserState /\ e.step = b.step /\ e.seen = b.seen /\ e.left = b.left /\ e.bad = FALSE
       /\ Len(e.kept) = b.at - a.at
       /\ exact => \A j \in 1 .. Len(e.kept) : e.kept[j] = <<"data", a.at + j>>
  BY <1>12, <1>13 DEF Follows
<1>14. PICK header : header = SubSeq(w, Len(w) - e.behind + 1, Len(w))
  OBVIOUS
<1>15. PICK count : count = IF e.kept = <<>> THEN 0 ELSE IF e.behind > 0 THEN e.behind ELSE Len(e.kept)
  OBVIOUS
<1>16. Parsed(w) = [parser |-> [step |-> e.step, seen |-> e.seen, left |-> e.left], bad |-> e.bad,
                    returned |-> IF e.bad THEN <<>> ELSE SubSeq(e.kept \o header, 1, count),
                    cut |-> e.kept # <<>> /\ e.behind > 0]
  BY <1>2, <1>5, <1>7, <1>13, <1>14, <1>15 DEF Parsed
<1>17. /\ Parsed(w).parser = Core(b) /\ Parsed(w).bad = FALSE /\ Parsed(w).cut = (e.kept # <<>> /\ e.behind > 0)
       /\ Parsed(w).returned = SubSeq(e.kept \o header, 1, count)
  <2>1. PICK c \in BOOLEAN, d \in {SubSeq(e.kept \o header, 1, count)} : c = (e.kept # <<>> /\ e.behind > 0) /\ d = SubSeq(e.kept \o header, 1, count)
    OBVIOUS
  <2>2. Parsed(w) = [parser |-> [step |-> b.step, seen |-> b.seen, left |-> b.left], bad |-> FALSE,
                     returned |-> d, cut |-> c]
    BY <1>16, <1>20, <2>1
  <2>3. Parsed(w).parser = Core(b) /\ Parsed(w).bad = FALSE /\ Parsed(w).cut = c /\ Parsed(w).returned = d
    BY <2>2 DEF Core
  <2> QED BY <2>1, <2>3
<1>18. e.kept \in Seq(Symbols) /\ e.behind \in Nat
  BY <1>20 DEF ParserState
<1>19. ASSUME ~(e.kept # <<>> /\ e.behind > 0) PROVE SubSeq(e.kept \o header, 1, count) = e.kept
  <2>1. CASE e.kept = <<>>
    <3>1. count = 0
      BY <1>15, <2>1
    <3>2. SubSeq(e.kept \o header, 1, 0) = <<>>
      BY SubSeqEmpty
    <3> QED BY <2>1, <3>1, <3>2
  <2>2. CASE e.kept # <<>>
    <3>1. e.behind = 0 /\ count = Len(e.kept)
      BY <1>15, <1>18, <1>19, <2>2
    <3>2. header = <<>>
      <4>1. header = SubSeq(w, n + 1, n)
        BY <1>2, <1>14, <3>1
      <4> QED BY <4>1, SubSeqEmpty
    <3>3. e.kept \o header = e.kept
      BY <1>18, <3>2, ConcatEmptySeq
    <3> QED BY <1>18, <3>1, <3>3, SubSeqFull
  <2> QED BY <2>1, <2>2
<1> QED BY <1>4, <1>17, <1>18, <1>19, <1>20 DEF Returns

\* The units behind a, up to b.
LEMMA UnitsAre ==
  ASSUME NEW a \in Nat, NEW n \in Nat
  PROVE  /\ Units(a + 1, a + n) \in Seq(Nat) /\ Len(Units(a + 1, a + n)) = n
         /\ \A j \in 1 .. n : Units(a + 1, a + n)[j] = a + j
<1>1. PICK u : u = [i \in 1 .. n |-> a + i]
  OBVIOUS
<1>2. Units(a + 1, a + n) = u
  <2>1. (a + n) - (a + 1) + 1 = n
    OBVIOUS
  <2>2. Units(a + 1, a + n) = [i \in 1 .. n |-> (a + 1) + i - 1]
    BY <2>1 DEF Units
  <2>3. \A i \in 1 .. n : (a + 1) + i - 1 = a + i
    OBVIOUS
  <2> QED BY <1>1, <2>2, <2>3
<1>3. u \in [1 .. n -> Nat]
  BY <1>1
<1>4. u \in Seq(Nat) /\ Len(u) = n /\ \A j \in 1 .. n : u[j] = a + j
  BY <1>1, <1>3
<1> QED BY <1>2, <1>4

\* What the concatenation of two sequences is, their lengths being m and n.
LEMMA InARow ==
  ASSUME NEW S, NEW u \in Seq(S), NEW v \in Seq(S), NEW m \in Nat, NEW n \in Nat, Len(u) = m, Len(v) = n
  PROVE  /\ u \o v \in Seq(S) /\ Len(u \o v) = m + n
         /\ \A i \in 1 .. m : (u \o v)[i] = u[i]
         /\ \A i \in 1 .. n : (u \o v)[m + i] = v[i]
<1>1. /\ u \o v \in Seq(S) /\ Len(u \o v) = Len(u) + Len(v)
      /\ \A i \in 1 .. Len(u) + Len(v) : (u \o v)[i] = IF i <= Len(u) THEN u[i] ELSE v[i - Len(u)]
  BY ConcatProperties
<1>2. \A i \in 1 .. m + n : (u \o v)[i] = IF i <= m THEN u[i] ELSE v[i - m]
  BY <1>1
<1>3. \A i \in 1 .. m : i \in 1 .. m + n /\ i <= m
  OBVIOUS
<1>4. \A i \in 1 .. n : m + i \in 1 .. m + n /\ ~(m + i <= m) /\ (m + i) - m = i
  OBVIOUS
<1>5. \A i \in 1 .. m : (u \o v)[i] = u[i]
  BY <1>2, <1>3
<1>6. \A i \in 1 .. n : (u \o v)[m + i] = v[i]
  BY <1>2, <1>4
<1> QED BY <1>1, <1>5, <1>6

\* Units in a row.
LEMMA UnitsJoin ==
  ASSUME NEW a \in Nat, NEW m \in Nat, NEW n \in Nat
  PROVE  Units(a + 1, a + m) \o Units(a + m + 1, a + m + n) = Units(a + 1, a + m + n)
<1>1. PICK u \in Seq(Nat) : u = Units(a + 1, a + m)
  BY UnitsAre
<1>2. PICK b \in Nat, l \in Nat : b = a + m /\ l = m + n /\ a + m + n = a + l
  OBVIOUS
<1>3. PICK v \in Seq(Nat) : v = Units(b + 1, b + n)
  BY UnitsAre
<1>4. PICK w \in Seq(Nat) : w = Units(a + 1, a + l)
  BY UnitsAre
<1>5. Len(u) = m /\ \A j \in 1 .. m : u[j] = a + j
  BY <1>1, UnitsAre
<1>6. Len(v) = n /\ \A j \in 1 .. n : v[j] = b + j
  BY <1>3, UnitsAre
<1>7. Len(w) = l /\ \A j \in 1 .. l : w[j] = a + j
  BY <1>4, UnitsAre
<1>8. PICK x \in Seq(Nat) :
        /\ x = u \o v /\ Len(x) = m + n
        /\ \A i \in 1 .. m + n : x[i] = IF i <= m THEN u[i] ELSE v[i - m]
  <2>1. Len(u) = m /\ Len(v) = n
    BY <1>5, <1>6
  <2>2. /\ u \o v \in Seq(Nat) /\ Len(u \o v) = Len(u) + Len(v)
        /\ \A i \in 1 .. Len(u) + Len(v) : (u \o v)[i] = IF i <= Len(u) THEN u[i] ELSE v[i - Len(u)]
    BY ConcatProperties
  <2> QED BY <2>1, <2>2
<1>9. \A i \in 1 .. m : x[i] = u[i]
  <2>1. \A i \in 1 .. m : i \in 1 .. m + n /\ i <= m
    OBVIOUS
  <2> QED BY <1>8, <2>1
<1>14. \A i \in 1 .. n : x[m + i] = v[i]
  <2>1. \A i \in 1 .. n : m + i \in 1 .. m + n /\ ~(m + i <= m) /\ (m + i) - m = i
    OBVIOUS
  <2> QED BY <1>8, <2>1
<1>10. \A i \in 1 .. l : x[i] = w[i]
  <2> SUFFICES ASSUME NEW i \in 1 .. l PROVE x[i] = w[i]
    OBVIOUS
  <2>1. CASE i <= m
    <3>1. i \in 1 .. m
      BY <2>1
    <3> QED BY <1>5, <1>7, <1>9, <3>1
  <2>2. CASE i > m
    <3>1. PICK k \in 1 .. n : i = m + k
      <4>1. i - m \in 1 .. n /\ i = m + (i - m)
        BY <1>2, <2>2
      <4> QED BY <4>1
    <3>2. x[i] = b + k /\ w[i] = a + i
      BY <1>6, <1>7, <1>14, <3>1
    <3> QED BY <1>2, <3>1, <3>2
  <2> QED BY <2>1, <2>2
<1>11. Len(x) = Len(w)
  BY <1>2, <1>7, <1>8
<1>12. \A i \in 1 .. Len(x) : x[i] = w[i]
  BY <1>7, <1>10, <1>11
<1>13. x = w
  <2>1. x \in Seq(Nat) /\ w \in Seq(Nat)
    BY <1>8
  <2> QED BY <1>11, <1>12, <2>1, SeqEqual
<1> QED BY <1>1, <1>2, <1>3, <1>4, <1>8, <1>13

\* The units behind a and behind the first n of them.
Behind(a, n, m) == SubSeq(Units(a + 1, a + n + m), n + 1, n + m) = Units(a + n + 1, a + n + m)

\* A part of the units in a row.
LEMMA UnitsCut ==
  ASSUME NEW a \in Nat, NEW n \in Nat, NEW m \in Nat
  PROVE  SubSeq(Units(a + 1, a + n + m), 1, n) = Units(a + 1, a + n) /\ Behind(a, n, m)
<1>1. PICK b \in Nat, l \in Nat : b = a + n /\ l = n + m /\ a + n + m = a + l
  OBVIOUS
<1>2. PICK u \in Seq(Nat) : u = Units(a + 1, a + l)
  BY UnitsAre
<1>3. PICK v \in Seq(Nat) : v = Units(a + 1, a + n)
  BY UnitsAre
<1>4. PICK w \in Seq(Nat) : w = Units(b + 1, b + m)
  BY UnitsAre
<1>5. Len(u) = l /\ \A j \in 1 .. l : u[j] = a + j
  BY <1>2, UnitsAre
<1>6. Len(v) = n /\ \A j \in 1 .. n : v[j] = a + j
  BY <1>3, UnitsAre
<1>7. Len(w) = m /\ \A j \in 1 .. m : w[j] = b + j
  BY <1>4, UnitsAre
<1>8. SubSeq(u, 1, n) = v
  <2>1. \A i \in 1 .. n : i \in 1 .. l
    BY <1>1
  <2>2. \A i \in 1 .. n : u[i] \in Nat
    BY SMTT(30), <1>5, <2>1
  <2>3. /\ SubSeq(u, 1, n) \in Seq(Nat) /\ Len(SubSeq(u, 1, n)) = IF 1 <= n THEN n - 1 + 1 ELSE 0
    BY <2>2, SubSeqProperties
  <2>4. Len(SubSeq(u, 1, n)) = n
    BY <2>3
  <2>5. \A i \in 1 .. n : SubSeq(u, 1, n)[i] = u[i]
    BY <2>2, SubSeqProperties
  <2>6. \A i \in 1 .. n : SubSeq(u, 1, n)[i] = v[i]
    BY <1>5, <1>6, <2>1, <2>5
  <2> QED BY <1>6, <2>3, <2>4, <2>6, SeqEqual
<1>9. SubSeq(u, n + 1, l) = w
  <2>1. n + 1 \in Int /\ l \in Int /\ \A i \in n + 1 .. l : u[i] \in Nat
    BY <1>5
  <2>2. PICK x : x = SubSeq(u, n + 1, l)
    OBVIOUS
  <2>3. x \in Seq(Nat) /\ Len(x) = IF n + 1 <= l THEN l - (n + 1) + 1 ELSE 0
    BY <2>1, <2>2, SubSeqProperties
  <2>4. Len(x) = m
    BY <1>1, <2>3
  <2>5. \A i \in 1 .. l - (n + 1) + 1 : SubSeq(u, n + 1, l)[i] = u[n + 1 + i - 1]
    BY <2>1, SubSeqProperties
  <2>6. \A j \in 1 .. m : x[j] = w[j]
    <3> SUFFICES ASSUME NEW j \in 1 .. m PROVE x[j] = w[j]
      OBVIOUS
    <3>1. j \in 1 .. l - (n + 1) + 1 /\ n + 1 + j - 1 = n + j /\ n + j \in 1 .. l /\ a + (n + j) = b + j
      BY <1>1
    <3>2. x[j] = u[n + j]
      BY <2>2, <2>5, <3>1
    <3> QED BY <1>5, <1>7, <3>1, <3>2
  <2> QED BY <1>7, <2>2, <2>3, <2>4, <2>6, SeqEqual
<1> QED BY <1>1, <1>2, <1>3, <1>4, <1>8, <1>9 DEF Behind

\* What is under way to the server: records that follow each other, up to the
\* last unit written.
Cuts(c) ==
  /\ c \in [0 .. Len(upWire) -> 0 .. unitsUp] /\ c[Len(upWire)] = unitsUp
  /\ \A i \in 1 .. Len(upWire) : c[i - 1] < c[i] /\ upWire[i] = Units(c[i - 1] + 1, c[i])
\* Before them is what the server read, or the hello it has not read.
RecordsInv ==
  /\ unitsUp \in 0 .. MaxUnits /\ upWire \in Seq(Seq(Nat)) /\ serverShook \in {"no", "cached", "sent"}
  /\ unitsUp = 0 => serverShook = "no"
  /\ \E c : /\ Cuts(c)
            /\ serverShook = "no" => readUp = <<>> /\ hello = Units(1, c[0])
            /\ serverShook # "no" => readUp = Units(1, c[0])

\* A step that leaves the way to the server alone.
LEMMA UpStands ==
  ASSUME RecordsInv, UNCHANGED <<unitsUp, readUp, hello, upWire>>,
         serverShook' = serverShook \/ (serverShook # "no" /\ serverShook' = "sent")
  PROVE  RecordsInv'
<1>1. PICK c : /\ Cuts(c)
               /\ serverShook = "no" => readUp = <<>> /\ hello = Units(1, c[0])
               /\ serverShook # "no" => readUp = Units(1, c[0])
  BY DEF RecordsInv
<1>2. Cuts(c)'
  BY <1>1 DEF Cuts
<1>3. /\ serverShook' = "no" => readUp' = <<>> /\ hello' = Units(1, c[0])
      /\ serverShook' # "no" => readUp' = Units(1, c[0])
  BY <1>1
<1> QED BY <1>2, <1>3 DEF RecordsInv

\* The client's writes go to the hello, or behind what is under way.
LEMMA ClientWriteKeeps ==
  ASSUME RecordsInv, NEW n \in 1 .. MaxWrite, ClientWrite(n)
  PROVE  RecordsInv'
<1>1. PICK c : /\ Cuts(c)
               /\ serverShook = "no" => readUp = <<>> /\ hello = Units(1, c[0])
               /\ serverShook # "no" => readUp = Units(1, c[0])
  BY DEF RecordsInv
<1>2. PICK u \in Nat, l \in Nat : u = unitsUp /\ l = Len(upWire) /\ u \in 0 .. MaxUnits
  <2>1. unitsUp \in 0 .. MaxUnits /\ upWire \in Seq(Seq(Nat))
    BY DEF RecordsInv
  <2>2. unitsUp \in Nat /\ Len(upWire) \in Nat
    BY <2>1, ObfsAssumption
  <2> QED BY <2>1, <2>2
<1>3. /\ c \in [0 .. l -> 0 .. u] /\ c[l] = u /\ 0 \in 0 .. l
      /\ \A i \in 1 .. l : c[i - 1] < c[i] /\ upWire[i] = Units(c[i - 1] + 1, c[i])
  BY <1>1, <1>2 DEF Cuts
<1>4. n \in Nat \ {0} /\ unitsUp' = u + n /\ u + n \in 0 .. MaxUnits /\ UNCHANGED <<readUp, serverShook>>
  BY <1>2, ObfsAssumption DEF ClientWrite
<1>5. upWire \in Seq(Seq(Nat)) /\ serverShook \in {"no", "cached", "sent"}
  BY DEF RecordsInv
<1>6. CASE unitsUp = 0
  <2>1. l = 0
    <3> SUFFICES ASSUME l > 0 PROVE FALSE
      BY <1>2
    <3>1. l - 1 \in 0 .. l /\ l \in 1 .. l
      BY <1>2
    <3>2. c[l - 1] < c[l] /\ c[l - 1] \in 0 .. u /\ c[l] = 0
      BY <1>2, <1>3, <1>6, <3>1
    <3> QED BY <1>2, <1>6, <3>2
  <2>2. serverShook = "no" /\ hello' = Units(1, n) /\ upWire' = upWire
    BY <1>6 DEF RecordsInv, ClientWrite
  <2>3. PICK d : d = [i \in 0 .. 0 |-> n]
    OBVIOUS
  <2>4. d \in [0 .. 0 -> 0 .. n] /\ d[0] = n
    BY <1>4, <2>3
  <2>5. Cuts(d)'
    <3>1. Len(upWire') = 0 /\ unitsUp' = n
      <4>1. Len(upWire') = l
        BY <1>2, <2>2
      <4>2. u + n = n
        BY <1>2, <1>4, <1>6
      <4> QED BY <1>4, <2>1, <4>1, <4>2
    <3>2. \A i \in 1 .. 0 : FALSE
      OBVIOUS
    <3> QED BY <2>4, <3>1, <3>2 DEF Cuts
  <2>6. /\ serverShook' = "no" => readUp' = <<>> /\ hello' = Units(1, d[0])
        /\ serverShook' # "no" => readUp' = Units(1, d[0])
    BY <1>1, <1>4, <2>2, <2>4
  <2> QED BY <1>4, <1>5, <2>2, <2>5, <2>6 DEF RecordsInv
<1>7. CASE unitsUp # 0
  <2>1. PICK r \in Seq(Nat) : r = Units(u + 1, u + n)
    BY <1>4, UnitsAre
  <2>2. upWire' = Append(upWire, r) /\ hello' = hello
    BY <1>2, <1>7, <2>1 DEF ClientWrite
  <2>3. PICK w : w = upWire'
    OBVIOUS
  <2>4. w \in Seq(Seq(Nat)) /\ Len(w) = l + 1 /\ w[l + 1] = r /\ \A i \in 1 .. l : w[i] = upWire[i]
    BY <1>2, <1>5, <2>2, <2>3, AppendProperties
  <2>5. PICK d : d = [i \in 0 .. l + 1 |-> IF i = l + 1 THEN u + n ELSE c[i]]
    OBVIOUS
  <2>6. d[l + 1] = u + n /\ \A i \in 0 .. l : d[i] = c[i]
    BY <2>5
  <2>7. d \in [0 .. l + 1 -> 0 .. u + n]
    <3>1. \A i \in 0 .. l + 1 : (IF i = l + 1 THEN u + n ELSE c[i]) \in 0 .. u + n
      <4> SUFFICES ASSUME NEW i \in 0 .. l + 1, i # l + 1 PROVE c[i] \in 0 .. u + n
        BY <1>4
      <4>1. i \in 0 .. l
        OBVIOUS
      <4>2. c[i] \in 0 .. u
        BY <1>3, <4>1
      <4> QED BY <1>4, <4>2
    <3> QED BY <2>5, <3>1
  <2>8. \A i \in 1 .. l + 1 : d[i - 1] < d[i] /\ w[i] = Units(d[i - 1] + 1, d[i])
    <3> SUFFICES ASSUME NEW i \in 1 .. l + 1 PROVE d[i - 1] < d[i] /\ w[i] = Units(d[i - 1] + 1, d[i])
      OBVIOUS
    <3>1. CASE i = l + 1
      <4>1. i - 1 = l /\ l \in 0 .. l
        BY <3>1
      <4>2. d[i - 1] = u /\ d[i] = u + n /\ w[i] = r
        BY <1>3, <2>4, <2>6, <3>1, <4>1
      <4> QED BY <1>4, <2>1, <4>2
    <3>2. CASE i # l + 1
      <4>1. i \in 1 .. l /\ i \in 0 .. l /\ i - 1 \in 0 .. l
        BY <3>2
      <4> QED BY <1>3, <2>4, <2>6, <4>1
    <3> QED BY <3>1, <3>2
  <2>9. Cuts(d)'
    BY <1>4, <2>3, <2>4, <2>6, <2>7, <2>8 DEF Cuts
  <2>10. d[0] = c[0]
    BY <1>3, <2>6
  <2>11. /\ serverShook' = "no" => readUp' = <<>> /\ hello' = Units(1, d[0])
         /\ serverShook' # "no" => readUp' = Units(1, d[0])
    BY <1>1, <1>4, <2>2, <2>10
  <2>12. upWire' \in Seq(Seq(Nat)) /\ unitsUp' # 0
    BY <1>4, <2>3, <2>4
  <2> QED BY <1>4, <1>5, <2>9, <2>11, <2>12 DEF RecordsInv
<1> QED BY <1>6, <1>7

\* The server's handshake puts what the hello carries before what is under way.
LEMMA ServerShakesKeeps ==
  ASSUME RecordsInv, ServerShakes
  PROVE  RecordsInv'
<1>1. PICK c : Cuts(c) /\ readUp = <<>> /\ hello = Units(1, c[0])
  BY DEF RecordsInv, ServerShakes
<1>2. PICK u \in Nat, l \in Nat : u = unitsUp /\ l = Len(upWire) /\ u \in 0 .. MaxUnits
  <2>1. unitsUp \in 0 .. MaxUnits /\ upWire \in Seq(Seq(Nat))
    BY DEF RecordsInv
  <2>2. unitsUp \in Nat /\ Len(upWire) \in Nat
    BY <2>1, ObfsAssumption
  <2> QED BY <2>1, <2>2
<1>3. /\ c \in [0 .. l -> 0 .. u] /\ c[l] = u /\ 0 \in 0 .. l /\ l \in 0 .. l
      /\ \A i \in 1 .. l : c[i - 1] < c[i] /\ upWire[i] = Units(c[i - 1] + 1, c[i])
  BY <1>1, <1>2 DEF Cuts
<1>4. PICK k \in Nat : k = c[0] /\ k <= u
  BY <1>3
<1>5. /\ hello # <<>> /\ serverShook' = "cached" /\ upWire' = <<hello>> \o upWire
      /\ UNCHANGED <<unitsUp, readUp, hello>> /\ upWire \in Seq(Seq(Nat))
  BY DEF RecordsInv, ServerShakes
<1>6. PICK h \in Seq(Nat) : h = hello /\ h = Units(0 + 1, k) /\ Len(h) = k /\ k > 0
  <2>1. Units(0 + 1, k) \in Seq(Nat) /\ Len(Units(0 + 1, k)) = k
    <3>1. Units(0 + 1, 0 + k) \in Seq(Nat) /\ Len(Units(0 + 1, 0 + k)) = k /\ 0 + k = k
      BY UnitsAre
    <3> QED BY <3>1
  <2>2. hello = Units(0 + 1, k)
    BY <1>1, <1>4
  <2>3. hello \in Seq(Nat) /\ Len(hello) = k
    BY <2>1, <2>2
  <2>4. k # 0
    BY <1>5, <2>3, EmptySeq
  <2> QED BY <2>2, <2>3, <2>4
<1>7. PICK w : w = <<h>> \o upWire
  OBVIOUS
<1>8. w \in Seq(Seq(Nat)) /\ Len(w) = l + 1 /\ w[1] = h /\ \A i \in 1 .. l : w[i + 1] = upWire[i]
  <2>1. <<h>> \in Seq(Seq(Nat)) /\ Len(<<h>>) = 1 /\ <<h>>[1] = h
    OBVIOUS
  <2>2. /\ <<h>> \o upWire \in Seq(Seq(Nat)) /\ Len(<<h>> \o upWire) = 1 + l
        /\ \A i \in 1 .. 1 : (<<h>> \o upWire)[i] = <<h>>[i]
        /\ \A i \in 1 .. l : (<<h>> \o upWire)[1 + i] = upWire[i]
    BY <1>2, <1>5, <2>1, InARow
  <2>3. 1 \in 1 .. 1 /\ 1 + l = l + 1 /\ \A i \in 1 .. l : 1 + i = i + 1
    OBVIOUS
  <2> QED BY <1>7, <2>1, <2>2, <2>3
<1>9. PICK d : d = [i \in 0 .. l + 1 |-> IF i = 0 THEN 0 ELSE c[i - 1]]
  OBVIOUS
<1>10. d[0] = 0 /\ \A i \in 0 .. l : d[i + 1] = c[i]
  <2>1. \A i \in 0 .. l : i + 1 \in 0 .. l + 1 /\ i + 1 # 0 /\ (i + 1) - 1 = i
    OBVIOUS
  <2> QED BY <1>9, <2>1
<1>11. d \in [0 .. l + 1 -> 0 .. u]
  <2>1. \A i \in 0 .. l + 1 : i # 0 => i - 1 \in 0 .. l
    OBVIOUS
  <2>2. \A i \in 0 .. l + 1 : (IF i = 0 THEN 0 ELSE c[i - 1]) \in 0 .. u
    <3> SUFFICES ASSUME NEW i \in 0 .. l + 1, i # 0 PROVE c[i - 1] \in 0 .. u
      BY <1>2
    <3> QED BY <1>3, <2>1
  <2> QED BY <1>9, <2>2
<1>12. \A i \in 1 .. l + 1 : d[i - 1] < d[i] /\ w[i] = Units(d[i - 1] + 1, d[i])
  <2> SUFFICES ASSUME NEW i \in 1 .. l + 1 PROVE d[i - 1] < d[i] /\ w[i] = Units(d[i - 1] + 1, d[i])
    OBVIOUS
  <2>1. CASE i = 1
    <3>1. d[1] = k /\ d[0] = 0
      <4>1. d[0 + 1] = c[0]
        BY <1>3, <1>10
      <4> QED BY <1>4, <1>10, <4>1
    <3> QED BY <1>6, <1>8, <2>1, <3>1
  <2>2. CASE i # 1
    <3>1. PICK j \in 1 .. l : i = j + 1
      <4>1. i - 1 \in 1 .. l /\ i = (i - 1) + 1
        BY <2>2
      <4> QED BY <4>1
    <3>2. j \in 0 .. l /\ j - 1 \in 0 .. l /\ i - 1 = (j - 1) + 1
      BY <3>1
    <3>3. d[i] = c[j] /\ d[i - 1] = c[j - 1] /\ w[i] = upWire[j]
      BY <1>8, <1>10, <3>1, <3>2
    <3> QED BY <1>3, <3>3
  <2> QED BY <2>1, <2>2
<1>13. upWire' = w
  BY <1>5, <1>6, <1>7
<1>14. Cuts(d)'
  <2>1. d[l + 1] = u
    BY <1>3, <1>10
  <2> QED BY <1>2, <1>5, <1>8, <1>11, <1>12, <1>13, <2>1 DEF Cuts
<1>15. readUp' = Units(1, d[0])
  <2>1. Units(0 + 1, 0) = <<>>
    <3>1. Units(0 + 1, 0 + 0) \in Seq(Nat) /\ Len(Units(0 + 1, 0 + 0)) = 0 /\ 0 + 0 = 0
      BY UnitsAre
    <3> QED BY <3>1, EmptySeq
  <2> QED BY <1>1, <1>5, <1>10, <2>1
<1>16. unitsUp' # 0
  BY <1>2, <1>4, <1>5, <1>6
<1> QED BY <1>2, <1>5, <1>8, <1>13, <1>14, <1>15, <1>16 DEF RecordsInv

\* The server reads the first record, or some of it.
LEMMA ServerReadKeeps ==
  ASSUME RecordsInv, NEW n \in 1 .. MaxWrite, ServerRead(n)
  PROVE  RecordsInv'
<1>1. PICK c : Cuts(c) /\ readUp = Units(1, c[0])
  BY DEF RecordsInv, ServerRead
<1>2. /\ upWire # <<>> /\ n \in 1 .. Len(Head(upWire)) /\ readUp' = readUp \o SubSeq(Head(upWire), 1, n)
      /\ upWire' = IF n = Len(Head(upWire)) THEN Tail(upWire)
                   ELSE <<SubSeq(Head(upWire), n + 1, Len(Head(upWire)))>> \o Tail(upWire)
      /\ UNCHANGED <<unitsUp, hello, serverShook>> /\ upWire \in Seq(Seq(Nat)) /\ serverShook # "no"
      /\ serverShook \in {"no", "cached", "sent"} /\ unitsUp \in 0 .. MaxUnits /\ unitsUp # 0
  BY DEF RecordsInv, ServerRead
<1>3. PICK u \in Nat, l \in Nat : u = unitsUp /\ Len(upWire) = l + 1
  <2>1. Len(upWire) \in Nat \ {0}
    BY <1>2, EmptySeq
  <2>2. Len(upWire) - 1 \in Nat /\ Len(upWire) = (Len(upWire) - 1) + 1
    BY <2>1
  <2>3. unitsUp \in Nat
    BY <1>2, ObfsAssumption
  <2> QED BY <2>2, <2>3
<1>4. /\ c \in [0 .. l + 1 -> 0 .. u] /\ c[l + 1] = u /\ 0 \in 0 .. l + 1 /\ 1 \in 1 .. l + 1 /\ 1 \in 0 .. l + 1
      /\ \A i \in 1 .. l + 1 : c[i - 1] < c[i] /\ upWire[i] = Units(c[i - 1] + 1, c[i])
  BY <1>1, <1>3 DEF Cuts
<1>5. PICK a \in Nat, k \in Nat \ {0} : a = c[0] /\ a + k = c[1] /\ a + k <= u /\ upWire[1] = Units(a + 1, a + k)
  <2>1. c[0] \in 0 .. u /\ c[1] \in 0 .. u /\ c[0] < c[1] /\ upWire[1] = Units(c[0] + 1, c[1])
    <3>1. 1 - 1 = 0
      OBVIOUS
    <3> QED BY <1>4, <3>1
  <2>2. PICK a \in Nat, b \in Nat : a = c[0] /\ b = c[1] /\ a < b /\ b <= u
    BY <1>3, <2>1
  <2>3. b - a \in Nat \ {0} /\ a + (b - a) = b
    BY <2>2
  <2> QED BY <2>1, <2>2, <2>3
<1>6. Head(upWire) = Units(a + 1, a + k) /\ Len(Head(upWire)) = k /\ n \in 1 .. k
  <2>1. Head(upWire) = upWire[1]
    BY <1>2, HeadTailProperties
  <2>2. Len(Units(a + 1, a + k)) = k
    BY UnitsAre
  <2> QED BY <1>2, <1>5, <2>1, <2>2
<1>15. PICK m \in Nat : k = n + m
  <2>1. k - n \in Nat /\ k = n + (k - n)
    BY <1>6
  <2> QED BY <2>1
<1>7. PICK t \in Seq(Seq(Nat)) : t = Tail(upWire) /\ Len(t) = l /\ \A i \in 1 .. l : t[i] = upWire[i + 1]
  <2>1. Tail(upWire) \in Seq(Seq(Nat)) /\ Len(Tail(upWire)) = Len(upWire) - 1
    BY <1>2, HeadTailProperties
  <2>2. Len(Tail(upWire)) = l
    BY <1>3, <2>1
  <2>3. \A i \in 1 .. Len(Tail(upWire)) : Tail(upWire)[i] = upWire[i + 1]
    BY <1>2, HeadTailProperties
  <2> QED BY <2>1, <2>2, <2>3
<1>8. readUp' = Units(1, a + n)
  <2>1. n \in Nat
    BY <1>6
  <2>2. SubSeq(Units(a + 1, a + n + m), 1, n) = Units(a + 1, a + n)
    BY <2>1, UnitsCut
  <2>3. Units(0 + 1, 0 + a) \o Units(0 + a + 1, 0 + a + n) = Units(0 + 1, 0 + a + n)
    BY ZenonT(60), <2>1, UnitsJoin
  <2>4. a + k = a + n + m /\ 0 + 1 = 1 /\ 0 + a = a
    BY <1>15, <2>1
  <2> QED BY <1>1, <1>2, <1>5, <1>6, <2>2, <2>3, <2>4
<1>9. CASE n = k
  <2>1. upWire' = t
    BY <1>2, <1>6, <1>7, <1>9
  <2>2. PICK d : d = [i \in 0 .. l |-> c[i + 1]]
    OBVIOUS
  <2>3. d \in [0 .. l -> 0 .. u] /\ \A i \in 0 .. l : d[i] = c[i + 1] /\ i + 1 \in 0 .. l + 1
    <3>1. \A i \in 0 .. l : i + 1 \in 0 .. l + 1
      OBVIOUS
    <3> QED BY <1>4, <2>2, <3>1
  <2>4. \A i \in 1 .. l : d[i - 1] < d[i] /\ t[i] = Units(d[i - 1] + 1, d[i])
    <3> SUFFICES ASSUME NEW i \in 1 .. l PROVE d[i - 1] < d[i] /\ t[i] = Units(d[i - 1] + 1, d[i])
      OBVIOUS
    <3>1. i \in 0 .. l /\ i - 1 \in 0 .. l /\ (i - 1) + 1 = (i + 1) - 1 /\ i + 1 \in 1 .. l + 1
      OBVIOUS
    <3>2. d[i] = c[i + 1] /\ d[i - 1] = c[(i + 1) - 1] /\ t[i] = upWire[i + 1]
      <4>1. d[i - 1] = c[(i - 1) + 1]
        BY <2>3, <3>1
      <4> QED BY <1>7, <2>3, <3>1, <4>1
    <3> QED BY <1>4, <3>1, <3>2
  <2>5. d[l] = u /\ d[0] = a + n
    <3>1. l \in 0 .. l /\ 0 \in 0 .. l /\ 0 + 1 = 1
      OBVIOUS
    <3>2. d[l] = c[l + 1] /\ d[0] = c[0 + 1]
      BY <2>3, <3>1
    <3> QED BY <1>4, <1>5, <1>9, <3>1, <3>2
  <2>6. Cuts(d)'
    BY <1>2, <1>3, <1>7, <2>1, <2>3, <2>4, <2>5 DEF Cuts
  <2> QED BY <1>2, <1>7, <1>8, <2>1, <2>5, <2>6 DEF RecordsInv
<1>10. CASE n # k
  <2>1. PICK h \in Seq(Nat) : h = Units(a + n + 1, a + n + m)
    <3>1. a + n \in Nat
      BY <1>6
    <3> QED BY <3>1, UnitsAre
  <2>2. upWire' = <<h>> \o t
    <3>1. PICK y \in Nat : y = n /\ a + k = a + y + m /\ k = y + m
      BY <1>6, <1>15
    <3>2. SubSeq(Units(a + 1, a + y + m), y + 1, y + m) = Units(a + y + 1, a + y + m)
      <4>1. Behind(a, y, m)
        BY UnitsCut
      <4> QED BY <4>1 DEF Behind
    <3>3. SubSeq(Head(upWire), n + 1, Len(Head(upWire))) = h
      BY <1>6, <2>1, <3>1, <3>2
    <3> QED BY <1>2, <1>6, <1>7, <1>10, <3>3
  <2>3. PICK w : w = <<h>> \o t
    OBVIOUS
  <2>4. w \in Seq(Seq(Nat)) /\ Len(w) = l + 1 /\ w[1] = h /\ \A i \in 2 .. l + 1 : w[i] = upWire[i]
    <3>1. <<h>> \in Seq(Seq(Nat)) /\ Len(<<h>>) = 1 /\ <<h>>[1] = h
      OBVIOUS
    <3>2. /\ <<h>> \o t \in Seq(Seq(Nat)) /\ Len(<<h>> \o t) = 1 + l
          /\ \A i \in 1 .. 1 : (<<h>> \o t)[i] = <<h>>[i]
          /\ \A i \in 1 .. l : (<<h>> \o t)[1 + i] = t[i]
      BY <1>7, <3>1, InARow
    <3>3. 1 \in 1 .. 1 /\ 1 + l = l + 1 /\ \A i \in 1 .. l : 1 + i = i + 1
      OBVIOUS
    <3>4. w \in Seq(Seq(Nat)) /\ Len(w) = l + 1 /\ w[1] = h /\ \A i \in 1 .. l : w[i + 1] = upWire[i + 1]
      BY <1>7, <2>3, <3>1, <3>2, <3>3
    <3>5. \A i \in 2 .. l + 1 : i - 1 \in 1 .. l /\ (i - 1) + 1 = i
      OBVIOUS
    <3>6. ASSUME NEW i \in 2 .. l + 1 PROVE w[i] = upWire[i]
      <4>1. w[(i - 1) + 1] = upWire[(i - 1) + 1]
        BY <3>4, <3>5
      <4> QED BY <3>5, <4>1
    <3> QED BY <3>4, <3>6
  <2>5. PICK d : d = [i \in 0 .. l + 1 |-> IF i = 0 THEN a + n ELSE c[i]]
    OBVIOUS
  <2>6. d[0] = a + n /\ \A i \in 1 .. l + 1 : d[i] = c[i]
    BY <2>5
  <2>7. a + n \in 0 .. u /\ a + n < a + k
    BY <1>3, <1>5, <1>6, <1>10
  <2>8. d \in [0 .. l + 1 -> 0 .. u]
    BY <1>4, <2>5, <2>7
  <2>9. \A i \in 1 .. l + 1 : d[i - 1] < d[i] /\ w[i] = Units(d[i - 1] + 1, d[i])
    <3> SUFFICES ASSUME NEW i \in 1 .. l + 1 PROVE d[i - 1] < d[i] /\ w[i] = Units(d[i - 1] + 1, d[i])
      OBVIOUS
    <3>1. CASE i = 1
      <4>1. i - 1 = 0 /\ a + k = a + n + m
        BY <1>6, <1>15, <3>1
      <4>2. d[i] = a + k /\ d[i - 1] = a + n /\ w[i] = h
        BY <1>4, <1>5, <2>4, <2>6, <3>1, <4>1
      <4> QED BY <2>1, <2>7, <4>1, <4>2
    <3>2. CASE i # 1
      <4>1. i \in 2 .. l + 1 /\ i - 1 \in 1 .. l + 1
        BY <3>2
      <4> QED BY <1>4, <2>4, <2>6, <4>1
    <3> QED BY <3>1, <3>2
  <2>10. d[l + 1] = u
    BY <1>4, <2>6
  <2>11. Cuts(d)'
    BY <1>2, <1>3, <2>2, <2>3, <2>4, <2>8, <2>9, <2>10 DEF Cuts
  <2> QED BY <1>2, <1>8, <2>2, <2>3, <2>4, <2>6, <2>11 DEF RecordsInv
<1> QED BY <1>9, <1>10

\* What the server's first write sends: the two cached records and the first of data.
FirstWire(n) == Record(0, [i \in 1 .. HelloLength |-> NoData]) \o Record(1, <<NoData>>) \o Record(2, Units(1, FirstRecord(n)))

\* Its three records take the parser from the start to the records of data.
LEMMA FirstWriteRuns ==
  ASSUME NEW a \in Place, a.step = 0, a.seen = 0, a.left = 0, NEW n \in 1 .. MaxWrite, NEW exact,
         exact => a.at = 0
  PROVE  \E b \in Place : /\ Runs(FirstWire(n), a, b, exact) /\ b.step = 3 /\ b.seen = 0 /\ b.left = 0
                          /\ b.at = a.at + FirstRecord(n)
<1>1. PICK f \in Nat \ {0} : f = FirstRecord(n) /\ f <= n /\ n <= MaxWrite /\ MaxWrite \in Nat
  <2>1. n \in Nat \ {0} /\ MaxRecord \in Nat \ {0} /\ MaxWrite \in Nat
    BY ObfsAssumption
  <2>2. FirstRecord(n) \in Nat \ {0} /\ FirstRecord(n) <= n
    BY <2>1 DEF FirstRecord
  <2> QED BY <2>1, <2>2
<1>2. 1 \in Lefts \ {0} /\ 2 \in Lefts \ {0} /\ f \in Lefts \ {0}
  BY <1>1 DEF Lefts, HelloLength
<1>3. PICK h \in Seq(Nat) : h = [i \in 1 .. HelloLength |-> NoData] /\ Len(h) = 2
  <2>1. PICK h \in [1 .. 2 -> Nat] : h = [i \in 1 .. 2 |-> 0]
    OBVIOUS
  <2>2. h \in Seq(Nat) /\ Len(h) = 2
    BY <2>1
  <2> QED BY <2>1, <2>2 DEF HelloLength, NoData
<1>4. PICK b \in Place : Runs(Record(0, h), a, b, exact) /\ b.step = 1 /\ b.seen = 0 /\ b.left = 0 /\ b.at = a.at
  <2>1. Expected(a) = 2
    BY DEF Expected, HelloLength
  <2>2. exact /\ a.step >= 2 => \A i \in 1 .. Len(h) : h[i] = a.at + i
    OBVIOUS
  <2>3. \E b \in Place : /\ Runs(Record(a.step, h), a, b, exact)
                         /\ b.step = (IF a.step < 3 THEN a.step + 1 ELSE a.step) /\ b.seen = 0 /\ b.left = 0
                         /\ b.at = IF a.step < 2 THEN a.at ELSE a.at + Len(h)
    <3>1. Len(h) = 2
      BY <1>3
    <3>2. Len(h) \in Lefts \ {0} /\ (a.step < 2 => Len(h) = Expected(a))
      BY <1>2, <2>1, <3>1
    <3> QED BY <2>2, <3>2, RecordRuns
  <2> QED BY <2>3
<1>5. PICK z \in Seq(Nat) : z = <<NoData>> /\ Len(z) = 1
  <2>1. <<NoData>> \in Seq(Nat) /\ Len(<<NoData>>) = 1
    BY DEF NoData
  <2> QED BY <2>1
<1>6. PICK d \in Place : Runs(Record(1, z), b, d, exact) /\ d.step = 2 /\ d.seen = 0 /\ d.left = 0 /\ d.at = a.at
  <2>1. Expected(b) = 1
    BY <1>4 DEF Expected
  <2>2. exact /\ b.step >= 2 => \A i \in 1 .. Len(z) : z[i] = b.at + i
    BY <1>4
  <2>3. \E d \in Place : /\ Runs(Record(b.step, z), b, d, exact)
                         /\ d.step = (IF b.step < 3 THEN b.step + 1 ELSE b.step) /\ d.seen = 0 /\ d.left = 0
                         /\ d.at = IF b.step < 2 THEN b.at ELSE b.at + Len(z)
    BY ZenonT(60), <1>2, <1>4, <1>5, <2>1, <2>2, RecordRuns
  <2> QED BY <1>4, <2>3
<1>7. PICK u \in Seq(Nat) : u = Units(1, f) /\ Len(u) = f /\ \A j \in 1 .. f : u[j] = j
  <2>1. /\ Units(0 + 1, 0 + f) \in Seq(Nat) /\ Len(Units(0 + 1, 0 + f)) = f
        /\ \A j \in 1 .. f : Units(0 + 1, 0 + f)[j] = 0 + j
    BY UnitsAre
  <2>2. 0 + 1 = 1 /\ 0 + f = f /\ \A j \in 1 .. f : 0 + j = j
    OBVIOUS
  <2> QED BY <2>1, <2>2
<1>8. PICK e \in Place : Runs(Record(2, u), d, e, exact) /\ e.step = 3 /\ e.seen = 0 /\ e.left = 0 /\ e.at = a.at + f
  <2>1. exact /\ d.step >= 2 => \A i \in 1 .. Len(u) : u[i] = d.at + i
    <3> SUFFICES ASSUME exact PROVE \A i \in 1 .. Len(u) : u[i] = d.at + i
      OBVIOUS
    <3>1. d.at = 0
      BY <1>6
    <3> QED BY <1>7, <3>1
  <2>2. d.step < 2 => Len(u) = Expected(d)
    BY <1>6
  <2>3. \E e \in Place : /\ Runs(Record(d.step, u), d, e, exact)
                         /\ e.step = (IF d.step < 3 THEN d.step + 1 ELSE d.step) /\ e.seen = 0 /\ e.left = 0
                         /\ e.at = IF d.step < 2 THEN d.at ELSE d.at + Len(u)
    <3>1. Len(u) \in Lefts \ {0} /\ d.seen = 0 /\ d.left = 0
      BY <1>2, <1>6, <1>7
    <3> QED BY <2>1, <2>2, <3>1, RecordRuns
  <2> QED BY <1>6, <1>7, <2>3
<1>9. Runs(Record(0, h) \o Record(1, z) \o Record(2, u), a, e, exact)
  <2>1. Runs(Record(0, h) \o Record(1, z), a, d, exact)
    BY <1>4, <1>6, RunsJoin
  <2> QED BY <1>8, <2>1, RunsJoin
<1>10. FirstWire(n) = Record(0, h) \o Record(1, z) \o Record(2, u)
  BY <1>1, <1>3, <1>5, <1>7 DEF FirstWire
<1> QED BY <1>1, <1>8, <1>9, <1>10

\* What a later write sends behind its first record.
SecondWire(u, n) == IF n > MaxRecord THEN Record(3, Units(u + MaxRecord + 1, u + n)) ELSE <<>>

\* The one or two records of a later write.
LEMMA LaterWriteRuns ==
  ASSUME NEW a \in Place, a.step = 3, a.seen = 0, a.left = 0, NEW n \in 1 .. MaxWrite, NEW u \in Nat, NEW exact,
         exact => a.at = u
  PROVE  \E b, d \in Place : /\ Runs(Record(3, Units(u + 1, u + FirstRecord(n))), a, b, exact)
                             /\ Runs(SecondWire(u, n), b, d, exact)
                             /\ d.step = 3 /\ d.seen = 0 /\ d.left = 0 /\ d.at = a.at + n
<1>1. PICK f \in Nat \ {0} : f = FirstRecord(n) /\ f <= n /\ n <= MaxWrite /\ MaxWrite \in Nat /\ n \in Nat
  <2>1. n \in Nat \ {0} /\ MaxRecord \in Nat \ {0} /\ MaxWrite \in Nat
    BY ObfsAssumption
  <2>2. FirstRecord(n) \in Nat \ {0} /\ FirstRecord(n) <= n
    BY <2>1 DEF FirstRecord
  <2> QED BY <2>1, <2>2
<1>2. PICK r \in Seq(Nat) : r = Units(u + 1, u + f) /\ Len(r) = f /\ \A j \in 1 .. f : r[j] = u + j
  BY UnitsAre
<1>3. a.at \in Nat
  BY DEF Place
<1>4. PICK b \in Place : Runs(Record(3, r), a, b, exact) /\ b.step = 3 /\ b.seen = 0 /\ b.left = 0 /\ b.at = a.at + f
  <2>1. exact /\ a.step >= 2 => \A i \in 1 .. Len(r) : r[i] = a.at + i
    BY <1>2
  <2>2. Len(r) \in Lefts \ {0} /\ (a.step < 2 => Len(r) = Expected(a))
    BY <1>1, <1>2 DEF Lefts, HelloLength
  <2>3. \E b \in Place : /\ Runs(Record(a.step, r), a, b, exact)
                         /\ b.step = (IF a.step < 3 THEN a.step + 1 ELSE a.step) /\ b.seen = 0 /\ b.left = 0
                         /\ b.at = IF a.step < 2 THEN a.at ELSE a.at + Len(r)
    BY <2>1, <2>2, RecordRuns
  <2> QED BY <1>2, <2>3
<1>5. Runs(Record(3, Units(u + 1, u + FirstRecord(n))), a, b, exact)
  BY <1>1, <1>2, <1>4
<1>6. CASE n > MaxRecord
  <2>1. PICK v \in Nat, k \in Nat \ {0} : v = u + MaxRecord /\ n = MaxRecord + k /\ u + n = v + k
    <3>1. MaxRecord \in Nat /\ n - MaxRecord \in Nat \ {0} /\ n = MaxRecord + (n - MaxRecord)
      BY <1>1, <1>6, ObfsAssumption
    <3> QED BY <3>1
  <2>2. PICK s \in Seq(Nat) : s = Units(v + 1, v + k) /\ Len(s) = k /\ \A j \in 1 .. k : s[j] = v + j
    BY UnitsAre
  <2>3. f = MaxRecord
    BY <1>1, <1>6 DEF FirstRecord
  <2>4. exact /\ b.step >= 2 => \A i \in 1 .. Len(s) : s[i] = b.at + i
    <3> SUFFICES ASSUME exact PROVE \A i \in 1 .. Len(s) : s[i] = b.at + i
      OBVIOUS
    <3>1. b.at = v
      BY <1>4, <2>1, <2>3
    <3> QED BY <2>2, <3>1
  <2>5. Len(s) \in Lefts \ {0} /\ (b.step < 2 => Len(s) = Expected(b))
    <3>1. k <= MaxWrite
      BY <1>1, <2>1, ObfsAssumption
    <3> QED BY <1>1, <1>4, <2>2, <3>1 DEF Lefts, HelloLength
  <2>6. \E d \in Place : /\ Runs(Record(b.step, s), b, d, exact)
                         /\ d.step = (IF b.step < 3 THEN b.step + 1 ELSE b.step) /\ d.seen = 0 /\ d.left = 0
                         /\ d.at = IF b.step < 2 THEN b.at ELSE b.at + Len(s)
    BY <1>4, <2>4, <2>5, RecordRuns
  <2>7. PICK d \in Place : Runs(Record(3, s), b, d, exact) /\ d.step = 3 /\ d.seen = 0 /\ d.left = 0 /\ d.at = b.at + k
    BY <1>4, <2>2, <2>6
  <2>8. SecondWire(u, n) = Record(3, s)
    BY <1>6, <2>1, <2>2 DEF SecondWire
  <2>9. d.at = a.at + n
    BY <1>3, <1>4, <2>1, <2>3, <2>7
  <2> QED BY <1>5, <2>7, <2>8, <2>9
<1>7. CASE ~(n > MaxRecord)
  <2>1. f = n /\ SecondWire(u, n) = <<>>
    BY <1>1, <1>7 DEF FirstRecord, SecondWire
  <2>2. Runs(<<>>, b, b, exact)
    BY RunsNowhere
  <2> QED BY <1>4, <1>5, <2>1, <2>2
<1> QED BY <1>6, <1>7

\* What the stream does not survive.
Mishaps == {"long first write", "read ends in a header"}
\* What is under way to the client takes its parser from where it stands to the
\* beginning of a record, behind all the units written unless some were
\* dropped; the client read the units before the parser, unless a read was cut.
Arrives(a, b, exact) ==
  /\ parser = Core(a) /\ Runs(downWire, a, b, exact)
  /\ b.step = (IF serverShook = "sent" THEN 3 ELSE 0) /\ b.seen = 0 /\ b.left = 0
  /\ exact => b.at = unitsDown
  /\ mishaps = {} => /\ exact /\ readDown \in Seq(Symbols) /\ Len(readDown) = a.at
                     /\ \A j \in 1 .. a.at : readDown[j] = <<"data", j>>
\* What every step keeps of the way to the client.
StreamInv ==
  /\ unitsDown \in 0 .. MaxUnits /\ mishaps \in SUBSET Mishaps /\ parseError = FALSE
  /\ serverShook \in {"no", "cached", "sent"}
  /\ serverShook # "sent" => unitsDown = 0 /\ downWire = <<>>
  /\ \E exact \in BOOLEAN : \E a, b \in Place : Arrives(a, b, exact)

\* A step that leaves the way to the client alone.
LEMMA DownStands ==
  ASSUME StreamInv, UNCHANGED <<unitsDown, readDown, downWire, parser, mishaps, parseError>>,
         serverShook' \in {"no", "cached", "sent"}, (serverShook' = "sent") <=> (serverShook = "sent")
  PROVE  StreamInv'
<1>1. PICK exact \in BOOLEAN : \E a, b \in Place : Arrives(a, b, exact)
  BY DEF StreamInv
<1>2. PICK a \in Place, b \in Place : Arrives(a, b, exact)
  BY <1>1
<1>3. Arrives(a, b, exact)'
  BY <1>2 DEF Arrives
<1>4. /\ unitsDown' \in 0 .. MaxUnits /\ mishaps' \in SUBSET Mishaps /\ parseError' = FALSE
      /\ serverShook' # "sent" => unitsDown' = 0 /\ downWire' = <<>>
  BY DEF StreamInv
<1> QED BY <1>3, <1>4 DEF StreamInv

\* The first write of the server sends its hello, a later one only records.
LEMMA ServerWriteKeeps ==
  ASSUME StreamInv, NEW n \in 1 .. MaxWrite, ServerWrite(n)
  PROVE  StreamInv'
<1>1. PICK x \in BOOLEAN : \E a, b \in Place : Arrives(a, b, x)
  BY DEF StreamInv
<1>2. PICK a \in Place, b \in Place : Arrives(a, b, x)
  BY <1>1
<1>3. PICK u \in Nat : u = unitsDown /\ u + n \in 0 .. MaxUnits /\ n \in Nat
  <2>1. unitsDown \in 0 .. MaxUnits /\ unitsDown + n <= MaxUnits
    BY DEF StreamInv, ServerWrite
  <2> QED BY <2>1, ObfsAssumption
<1>4. /\ unitsDown' = u + n /\ serverShook' = "sent" /\ serverShook # "no"
      /\ UNCHANGED <<readDown, parser, parseError>>
  BY <1>3 DEF ServerWrite
<1>5. /\ parser = Core(a) /\ Runs(downWire, a, b, x) /\ b.seen = 0 /\ b.left = 0
      /\ b.step = (IF serverShook = "sent" THEN 3 ELSE 0)
      /\ x => b.at = u
      /\ mishaps = {} => /\ x /\ readDown \in Seq(Symbols) /\ Len(readDown) = a.at
                         /\ \A j \in 1 .. a.at : readDown[j] = <<"data", j>>
  BY <1>2, <1>3 DEF Arrives
<1>6. mishaps \in SUBSET Mishaps /\ parseError = FALSE
  BY DEF StreamInv
<1>7. serverShook \in {"cached", "sent"}
  BY <1>4 DEF StreamInv
<1>8. CASE serverShook = "cached"
  <2>1. u = 0 /\ downWire = <<>>
    BY <1>3, <1>8 DEF StreamInv
  <2>2. a = b
    <3>1. Len(<<>>) = 0
      OBVIOUS
    <3> QED BY <1>5, <2>1, <3>1 DEF Runs, Labels
  <2>3. /\ downWire' = FirstWire(n)
        /\ mishaps' = IF n > MaxRecord THEN mishaps \cup {"long first write"} ELSE mishaps
    BY <1>8 DEF ServerWrite, FirstWire
  <2>4. PICK y \in BOOLEAN : y = (x /\ n <= MaxRecord)
    OBVIOUS
  <2>5. a.step = 0 /\ a.seen = 0 /\ a.left = 0 /\ (y => a.at = 0)
    <3>1. b.step = 0
      BY <1>5, <1>8
    <3> QED BY <1>5, <2>1, <2>2, <2>4, <3>1
  <2>6. PICK d \in Place : /\ Runs(FirstWire(n), a, d, y) /\ d.step = 3 /\ d.seen = 0 /\ d.left = 0
                           /\ d.at = a.at + FirstRecord(n)
    BY <2>5, FirstWriteRuns
  <2>7. y => d.at = unitsDown'
    <3> SUFFICES ASSUME y PROVE d.at = unitsDown'
      OBVIOUS
    <3>1. FirstRecord(n) = n
      <4>1. n \in Nat /\ MaxRecord \in Nat /\ n <= MaxRecord
        BY <1>3, <2>4, ObfsAssumption
      <4>2. ~(n > MaxRecord)
        BY <4>1
      <4> QED BY <4>2 DEF FirstRecord
    <3> QED BY <1>3, <1>4, <2>1, <2>5, <2>6, <3>1
  <2>8. mishaps' \in SUBSET Mishaps /\ (mishaps' = {} => mishaps = {} /\ n <= MaxRecord)
    <3>1. n > MaxRecord \/ n <= MaxRecord
      BY <1>3, ObfsAssumption
    <3>2. CASE n > MaxRecord
      <4>1. mishaps' = mishaps \cup {"long first write"}
        BY <2>3, <3>2
      <4> QED BY <1>6, <4>1 DEF Mishaps
    <3>3. CASE ~(n > MaxRecord)
      <4>1. mishaps' = mishaps
        BY <2>3, <3>3
      <4> QED BY <1>6, <3>1, <3>3, <4>1
    <3> QED BY <3>2, <3>3
  <2>9. mishaps' = {} => /\ y /\ readDown' \in Seq(Symbols) /\ Len(readDown') = a.at
                         /\ \A j \in 1 .. a.at : readDown'[j] = <<"data", j>>
    BY <1>4, <1>5, <2>4, <2>8
  <2>10. Arrives(a, d, y)'
    BY <1>4, <1>5, <2>3, <2>6, <2>7, <2>9 DEF Arrives
  <2> QED BY <1>3, <1>4, <1>6, <2>8, <2>10 DEF StreamInv
<1>9. CASE serverShook = "sent"
  <2>1. /\ downWire' = downWire \o Record(3, Units(u + 1, u + FirstRecord(n))) \o SecondWire(u, n)
        /\ mishaps' = mishaps
    BY <1>3, <1>9 DEF ServerWrite, SecondWire
  <2>2. b.step = 3
    BY <1>5, <1>9
  <2>3. \E c, d \in Place : /\ Runs(Record(3, Units(u + 1, u + FirstRecord(n))), b, c, x)
                            /\ Runs(SecondWire(u, n), c, d, x)
                            /\ d.step = 3 /\ d.seen = 0 /\ d.left = 0 /\ d.at = b.at + n
    BY <1>5, <2>2, LaterWriteRuns
  <2>4. PICK c \in Place, d \in Place : /\ Runs(Record(3, Units(u + 1, u + FirstRecord(n))), b, c, x)
                                        /\ Runs(SecondWire(u, n), c, d, x)
                                        /\ d.step = 3 /\ d.seen = 0 /\ d.left = 0 /\ d.at = b.at + n
    BY <2>3
  <2>5. Runs(downWire \o Record(3, Units(u + 1, u + FirstRecord(n))), a, c, x)
    BY <1>5, <2>4, RunsJoin
  <2>6. Runs(downWire', a, d, x)
    BY <2>1, <2>4, <2>5, RunsJoin
  <2>7. x => d.at = unitsDown'
    BY <1>4, <1>5, <2>4
  <2>8. mishaps' = {} => /\ x /\ readDown' \in Seq(Symbols) /\ Len(readDown') = a.at
                         /\ \A j \in 1 .. a.at : readDown'[j] = <<"data", j>>
    BY <1>4, <1>5, <2>1
  <2>9. Arrives(a, d, x)'
    BY <1>4, <1>5, <2>4, <2>6, <2>7, <2>8 DEF Arrives
  <2> QED BY <1>3, <1>4, <1>6, <2>1, <2>9 DEF StreamInv
<1> QED BY <1>7, <1>8, <1>9

\* The client's reads pass what is before the parser on.
LEMMA ClientReadKeeps ==
  ASSUME StreamInv, NEW n \in 1 .. MaxRead, ClientRead(n)
  PROVE  StreamInv'
<1>1. PICK x \in BOOLEAN : \E a, b \in Place : Arrives(a, b, x)
  BY DEF StreamInv
<1>2. PICK a \in Place, b \in Place : Arrives(a, b, x)
  BY <1>1
<1>3. PICK w : w = SubSeq(downWire, 1, n)
  OBVIOUS
<1>4. PICK r : r = Parsed(w)
  OBVIOUS
<1>5. /\ n \in 1 .. Len(downWire)
      /\ downWire' = SubSeq(downWire, n + 1, Len(downWire))
      /\ parser' = r.parser /\ parseError' = r.bad
      /\ readDown' = readDown \o r.returned
      /\ mishaps' = (IF r.cut THEN mishaps \cup {"read ends in a header"} ELSE mishaps)
      /\ UNCHANGED <<unitsDown, serverShook>>
  BY <1>3, <1>4 DEF ClientRead
<1>6. /\ parser = Core(a) /\ Runs(downWire, a, b, x) /\ b.seen = 0 /\ b.left = 0
      /\ b.step = (IF serverShook = "sent" THEN 3 ELSE 0)
      /\ x => b.at = unitsDown
      /\ mishaps = {} => /\ x /\ readDown \in Seq(Symbols) /\ Len(readDown) = a.at
                         /\ \A j \in 1 .. a.at : readDown[j] = <<"data", j>>
  BY <1>2 DEF Arrives
<1>7. /\ mishaps \in SUBSET Mishaps /\ parseError = FALSE /\ unitsDown \in 0 .. MaxUnits
      /\ serverShook \in {"no", "cached", "sent"}
      /\ serverShook # "sent" => unitsDown = 0 /\ downWire = <<>>
  BY DEF StreamInv
<1>8. serverShook = "sent"
  <2> SUFFICES ASSUME downWire = <<>> PROVE FALSE
    BY <1>7
  <2>1. Len(<<>>) = 0
    OBVIOUS
  <2>2. n \in 1 .. 0
    BY <1>5, <2>1
  <2> QED BY <2>2
<1>9. PICK m \in Place : Runs(w, a, m, x) /\ Runs(downWire', m, b, x)
  <2>1. n \in 0 .. Len(downWire)
    <3>1. PICK l \in Nat : l = Len(downWire)
      BY <1>6 DEF Runs, Labels
    <3>2. n \in 1 .. l
      BY <1>5, <3>1
    <3> QED BY <3>1, <3>2
  <2> QED BY <1>3, <1>5, <1>6, <2>1, RunsCut
<1>10. /\ r.parser = Core(m) /\ r.bad = FALSE /\ a.at <= m.at /\ r.cut \in BOOLEAN
       /\ ~r.cut => /\ r.returned \in Seq(Symbols) /\ Len(r.returned) = m.at - a.at
                    /\ x => \A j \in 1 .. m.at - a.at : r.returned[j] = <<"data", a.at + j>>
  <2>1. Returns(Parsed(w), a, m, x)
    BY <1>6, <1>9, ParsedRuns
  <2> QED BY <1>4, <2>1 DEF Returns
<1>11. mishaps' \in SUBSET Mishaps /\ (mishaps' = {} => mishaps = {} /\ ~r.cut)
  BY <1>5, <1>7, <1>10 DEF Mishaps
<1>12. ASSUME mishaps' = {}
       PROVE  /\ x /\ readDown' \in Seq(Symbols) /\ Len(readDown') = m.at
              /\ \A j \in 1 .. m.at : readDown'[j] = <<"data", j>>
  <2>1. PICK p \in Nat, k \in Nat : p = a.at /\ m.at = p + k
    <3>1. a.at \in Nat /\ m.at \in Nat
      BY DEF Place
    <3>2. m.at - a.at \in Nat /\ m.at = a.at + (m.at - a.at)
      BY <1>10, <3>1
    <3> QED BY <3>1, <3>2
  <2>2. PICK s \in Seq(Symbols) : s = r.returned /\ Len(s) = k /\ \A j \in 1 .. k : s[j] = <<"data", p + j>>
    <3>1. x /\ ~r.cut
      BY <1>6, <1>11, <1>12
    <3>2. m.at - a.at = k
      BY <2>1
    <3> QED BY <1>10, <2>1, <3>1, <3>2
  <2>3. PICK q \in Seq(Symbols) : q = readDown /\ Len(q) = p /\ \A j \in 1 .. p : q[j] = <<"data", j>>
    BY <1>6, <1>11, <1>12, <2>1
  <2>4. PICK z \in Seq(Symbols) :
          /\ z = q \o s /\ Len(z) = p + k
          /\ \A i \in 1 .. p + k : z[i] = IF i <= p THEN q[i] ELSE s[i - p]
    <3>1. Len(q) = p /\ Len(s) = k
      BY <2>2, <2>3
    <3>2. /\ q \o s \in Seq(Symbols) /\ Len(q \o s) = Len(q) + Len(s)
          /\ \A i \in 1 .. Len(q) + Len(s) : (q \o s)[i] = IF i <= Len(q) THEN q[i] ELSE s[i - Len(q)]
      BY ConcatProperties
    <3> QED BY <3>1, <3>2
  <2>5. \A j \in 1 .. p + k : z[j] = <<"data", j>>
    <3> SUFFICES ASSUME NEW j \in 1 .. p + k PROVE z[j] = <<"data", j>>
      OBVIOUS
    <3>1. CASE j <= p
      <4>1. j \in 1 .. p
        BY <3>1
      <4> QED BY <2>3, <2>4, <3>1, <4>1
    <3>2. CASE ~(j <= p)
      <4>1. j - p \in 1 .. k /\ p + (j - p) = j
        BY <3>2
      <4>2. s[j - p] = <<"data", j>>
        BY <2>2, <4>1
      <4> QED BY <2>4, <3>2, <4>2
    <3> QED BY <3>1, <3>2
  <2>6. readDown' = z
    BY <1>5, <2>2, <2>3, <2>4
  <2> QED BY <1>6, <1>11, <1>12, <2>1, <2>4, <2>5, <2>6
<1>13. Arrives(m, b, x)'
  BY <1>5, <1>6, <1>9, <1>10, <1>12 DEF Arrives
<1> QED BY <1>5, <1>7, <1>8, <1>10, <1>11, <1>13 DEF StreamInv

\* The records, the parser and what was read of both ways.
ObfsInv == RecordsInv /\ StreamInv

\* Every step keeps the records and the parser in step.
LEMMA ObfsStep == ObfsInv /\ [ObfsNext]_obfsVars => ObfsInv'
<1> SUFFICES ASSUME ObfsInv, [ObfsNext]_obfsVars PROVE ObfsInv'
  OBVIOUS
<1> USE DEF ObfsInv
<1>1. CASE ServerShakes
  <2>1. RecordsInv'
    BY <1>1, ServerShakesKeeps
  <2>2. StreamInv'
    BY <1>1, DownStands DEF ServerShakes
  <2> QED BY <2>1, <2>2
<1>2. ASSUME NEW n \in 1 .. MaxWrite, ClientWrite(n) PROVE ObfsInv'
  <2>1. RecordsInv'
    BY <1>2, ClientWriteKeeps
  <2>2. serverShook' = serverShook /\ serverShook \in {"no", "cached", "sent"}
    BY <1>2 DEF ClientWrite, StreamInv
  <2>3. StreamInv'
    BY <1>2, <2>2, DownStands DEF ClientWrite
  <2> QED BY <2>1, <2>3
<1>3. ASSUME NEW n \in 1 .. MaxWrite, ServerWrite(n) PROVE ObfsInv'
  <2>1. RecordsInv'
    BY <1>3, UpStands DEF ServerWrite
  <2>2. StreamInv'
    BY <1>3, ServerWriteKeeps
  <2> QED BY <2>1, <2>2
<1>4. ASSUME NEW n \in 1 .. MaxWrite, ServerRead(n) PROVE ObfsInv'
  <2>1. RecordsInv'
    BY <1>4, ServerReadKeeps
  <2>2. serverShook' = serverShook /\ serverShook \in {"no", "cached", "sent"}
    BY <1>4 DEF ServerRead, StreamInv
  <2>3. StreamInv'
    BY <1>4, <2>2, DownStands DEF ServerRead
  <2> QED BY <2>1, <2>3
<1>5. ASSUME NEW n \in 1 .. MaxRead, ClientRead(n) PROVE ObfsInv'
  <2>1. UNCHANGED <<unitsUp, readUp, hello, serverShook, upWire>> /\ serverShook \in {"no", "cached", "sent"}
    BY <1>5 DEF ClientRead, StreamInv
  <2>2. RecordsInv'
    BY <2>1, UpStands
  <2>3. StreamInv'
    BY <1>5, ClientReadKeeps
  <2> QED BY <2>2, <2>3
<1>6. CASE UNCHANGED obfsVars
  <2>1. UNCHANGED <<unitsUp, unitsDown, readUp, readDown, hello, serverShook, upWire, downWire, parser, mishaps, parseError>>
    BY <1>6 DEF obfsVars
  <2>2. serverShook \in {"no", "cached", "sent"}
    BY DEF StreamInv
  <2>3. RecordsInv'
    BY <2>1, <2>2, UpStands
  <2>4. StreamInv'
    BY <2>1, <2>2, DownStands
  <2> QED BY <2>3, <2>4
<1> QED BY <1>1, <1>2, <1>3, <1>4, <1>5, <1>6 DEF ObfsNext

\* At the start nothing is under way.
LEMMA ObfsStart == ObfsInit => ObfsInv
<1> SUFFICES ASSUME ObfsInit PROVE ObfsInv
  OBVIOUS
<1>1. /\ unitsUp = 0 /\ unitsDown = 0 /\ readUp = <<>> /\ readDown = <<>>
      /\ hello = <<>> /\ serverShook = "no" /\ upWire = <<>> /\ downWire = <<>>
      /\ parser = [step |-> 0, seen |-> 0, left |-> 0] /\ mishaps = {} /\ parseError = FALSE
  BY DEF ObfsInit
<1>2. MaxUnits \in Nat /\ MaxWrite \in Nat
  BY ObfsAssumption
<1>3. RecordsInv
  <2>1. PICK c : c = [i \in 0 .. 0 |-> 0]
    OBVIOUS
  <2>2. c \in [0 .. 0 -> 0 .. 0] /\ c[0] = 0 /\ \A i \in 1 .. 0 : FALSE
    BY <2>1
  <2>3. Len(upWire) = 0 /\ upWire \in Seq(Seq(Nat))
    BY <1>1
  <2>4. Cuts(c)
    BY <1>1, <2>2, <2>3 DEF Cuts
  <2>5. Units(1, 0) = <<>>
    <3>1. Units(0 + 1, 0 + 0) \in Seq(Nat) /\ Len(Units(0 + 1, 0 + 0)) = 0 /\ 0 + 0 = 0 /\ 0 + 1 = 1
      BY UnitsAre
    <3> QED BY <3>1, EmptySeq
  <2>6. /\ serverShook = "no" => readUp = <<>> /\ hello = Units(1, c[0])
        /\ serverShook # "no" => readUp = Units(1, c[0])
    BY <1>1, <2>2, <2>5
  <2>7. unitsUp \in 0 .. MaxUnits
    BY <1>1, <1>2
  <2> QED BY <1>1, <2>3, <2>4, <2>6, <2>7 DEF RecordsInv
<1>4. StreamInv
  <2>1. PICK a \in Place : a = [step |-> 0, seen |-> 0, left |-> 0, at |-> 0]
    <3>1. 0 \in Steps /\ 0 \in 0 .. 2 /\ 0 \in Lefts /\ 0 \in Nat
      BY <1>2 DEF Steps, Lefts, HelloLength
    <3> QED BY <3>1 DEF Place
  <2>2. a.step = 0 /\ a.seen = 0 /\ a.left = 0 /\ a.at = 0
    BY <2>1
  <2>3. Runs(<<>>, a, a, TRUE)
    BY RunsNowhere
  <2>4. parser = Core(a)
    BY <1>1, <2>2 DEF Core
  <2>5. readDown \in Seq(Symbols) /\ Len(readDown) = 0 /\ \A j \in 1 .. 0 : FALSE
    BY <1>1
  <2>6. Arrives(a, a, TRUE)
    BY <1>1, <2>2, <2>3, <2>4, <2>5 DEF Arrives
  <2>7. unitsDown \in 0 .. MaxUnits /\ mishaps \in SUBSET Mishaps
    BY <1>1, <1>2
  <2> QED BY <1>1, <2>6, <2>7 DEF StreamInv
<1> QED BY <1>3, <1>4 DEF ObfsInv

\* A sequence that counts up to n begins one that counts up to m.
LEMMA CountsBegin ==
  ASSUME NEW S, NEW s \in Seq(S), NEW t \in Seq(S), NEW n \in Nat, NEW m \in Nat, n <= m, Len(s) = n, Len(t) = m,
         \A j \in 1 .. n : s[j] = t[j]
  PROVE  IsPrefix(s, t)
<1>1. SubSeq(s, 1, n) = s
  BY SubSeqFull
<1>2. PICK x : x = SubSeq(t, 1, n)
  OBVIOUS
<1>3. \A i \in 1 .. n : i \in 1 .. m /\ t[i] \in S
  OBVIOUS
<1>4. x \in Seq(S) /\ Len(x) = (IF 1 <= n THEN n - 1 + 1 ELSE 0)
  BY <1>2, <1>3, SubSeqProperties
<1>5. Len(x) = n
  BY <1>4
<1>6. \A i \in 1 .. n : x[i] = t[i]
  BY <1>2, <1>3, SubSeqProperties
<1>7. x = s
  BY <1>4, <1>5, <1>6, SeqEqual
<1> QED BY <1>1, <1>2, <1>7 DEF IsPrefix

\* While it does, what is read begins what was written.
LEMMA ObfsMeans == ObfsInv => ObfsTypeOK /\ ParsedExactly
<1> SUFFICES ASSUME ObfsInv PROVE ObfsTypeOK /\ ParsedExactly
  OBVIOUS
<1>1. RecordsInv /\ StreamInv /\ MaxUnits \in Nat
  BY ObfsAssumption DEF ObfsInv
<1>2. IsPrefix(readUp, Units(1, unitsUp)) /\ Len(readUp) <= MaxUnits
  <2>1. PICK c : /\ Cuts(c)
                 /\ serverShook = "no" => readUp = <<>> /\ hello = Units(1, c[0])
                 /\ serverShook # "no" => readUp = Units(1, c[0])
    BY <1>1 DEF RecordsInv
  <2>2. PICK u \in Nat : u = unitsUp /\ u <= MaxUnits
    BY <1>1 DEF RecordsInv
  <2>3. PICK n \in Nat : n <= u /\ readUp = Units(1, n)
    <3>1. c[0] \in 0 .. u
      <4>1. Len(upWire) \in Nat
        BY <1>1 DEF RecordsInv
      <4>2. 0 \in 0 .. Len(upWire)
        BY <4>1
      <4> QED BY <2>1, <2>2, <4>2 DEF Cuts
    <3>2. CASE serverShook = "no"
      <4>1. Units(1, 0) = <<>>
        <5>1. Units(0 + 1, 0 + 0) \in Seq(Nat) /\ Len(Units(0 + 1, 0 + 0)) = 0 /\ 0 + 0 = 0 /\ 0 + 1 = 1
          BY UnitsAre
        <5> QED BY <5>1, EmptySeq
      <4> QED BY <2>1, <2>2, <3>2, <4>1
    <3>3. CASE serverShook # "no"
      BY <2>1, <2>2, <3>1, <3>3
    <3> QED BY <3>2, <3>3
  <2>4. PICK s \in Seq(Nat) : s = Units(1, n) /\ Len(s) = n /\ \A j \in 1 .. n : s[j] = j
    <3>1. /\ Units(0 + 1, 0 + n) \in Seq(Nat) /\ Len(Units(0 + 1, 0 + n)) = n
          /\ \A j \in 1 .. n : Units(0 + 1, 0 + n)[j] = 0 + j
      BY UnitsAre
    <3>2. 0 + 1 = 1 /\ 0 + n = n /\ \A j \in 1 .. n : 0 + j = j
      OBVIOUS
    <3> QED BY <3>1, <3>2
  <2>5. PICK t \in Seq(Nat) : t = Units(1, u) /\ Len(t) = u /\ \A j \in 1 .. u : t[j] = j
    <3>1. /\ Units(0 + 1, 0 + u) \in Seq(Nat) /\ Len(Units(0 + 1, 0 + u)) = u
          /\ \A j \in 1 .. u : Units(0 + 1, 0 + u)[j] = 0 + j
      BY UnitsAre
    <3>2. 0 + 1 = 1 /\ 0 + u = u /\ \A j \in 1 .. u : 0 + j = j
      OBVIOUS
    <3> QED BY <3>1, <3>2
  <2>6. \A j \in 1 .. n : s[j] = t[j]
    BY <2>3, <2>4, <2>5
  <2>7. IsPrefix(s, t)
    BY <2>3, <2>4, <2>5, <2>6, CountsBegin
  <2>8. Len(readUp) <= MaxUnits
    BY <1>1, <2>2, <2>3, <2>4
  <2> QED BY <2>2, <2>3, <2>4, <2>5, <2>7, <2>8
<1>3. PICK exact \in BOOLEAN : \E a, b \in Place : Arrives(a, b, exact)
  BY <1>1 DEF StreamInv
<1>4. PICK a \in Place, b \in Place : Arrives(a, b, exact)
  BY <1>3
<1>5. parser \in [step : Steps, seen : 0 .. 2, left : 0 .. MaxWrite + HelloLength]
  BY <1>4 DEF Arrives, Core, Place, Lefts
<1>6. ASSUME mishaps = {} PROVE IsPrefix(readDown, [i \in 1 .. unitsDown |-> <<"data", i>>])
  <2>1. /\ Runs(downWire, a, b, exact) /\ b.at = unitsDown /\ readDown \in Seq(Symbols) /\ Len(readDown) = a.at
        /\ \A j \in 1 .. a.at : readDown[j] = <<"data", j>>
    BY <1>4, <1>6 DEF Arrives
  <2>2. a.at <= b.at
    <3>1. PICK g : Labels(downWire, a, b, g, exact)
      BY <2>1 DEF Runs
    <3>2. Len(downWire) \in Nat
      BY <3>1 DEF Labels
    <3>3. 0 \in 0 .. Len(downWire) /\ Len(downWire) \in 0 .. Len(downWire) /\ 0 <= Len(downWire)
      BY <3>2
    <3> QED BY <3>1, <3>3 DEF Labels
  <2>3. PICK n \in Nat, m \in Nat : n = a.at /\ m = b.at
    BY DEF Place
  <2>4. PICK t : t = [i \in 1 .. m |-> <<"data", i>>]
    OBVIOUS
  <2>5. t \in Seq(Symbols) /\ Len(t) = m /\ \A j \in 1 .. m : t[j] = <<"data", j>>
    <3>1. \A i \in 1 .. m : <<"data", i>> \in Symbols
      BY DEF Symbols
    <3>2. t \in [1 .. m -> Symbols]
      BY <2>4, <3>1
    <3> QED BY <2>4, <3>2
  <2>6. \A j \in 1 .. n : readDown[j] = t[j]
    <3>1. n <= m /\ \A j \in 1 .. n : readDown[j] = <<"data", j>>
      BY <2>1, <2>2, <2>3
    <3>2. \A j \in 1 .. n : j \in 1 .. m
      BY <3>1
    <3> QED BY <2>5, <3>1, <3>2
  <2>7. IsPrefix(readDown, t)
    BY <2>1, <2>2, <2>3, <2>5, <2>6, CountsBegin
  <2> QED BY <2>1, <2>3, <2>4, <2>7
<1>7. ParsedExactly
  BY <1>1, <1>2, <1>6 DEF ParsedExactly, StreamInv
<1> QED BY <1>1, <1>2, <1>5, <1>7 DEF ObfsTypeOK, RecordsInv, StreamInv, Mishaps

\* For a record, a write and a stream of any length, and whatever the reads
\* cut it into: the server reads what the client wrote, and so does the client
\* but for the two cases in which the code drops data.
THEOREM ParsedExactlyHolds == ObfsSpec => [](ObfsTypeOK /\ ParsedExactly)
<1>1. ObfsSpec => []ObfsInv
  BY ObfsStart, ObfsStep, PTL DEF ObfsSpec
<1> QED BY <1>1, ObfsMeans, PTL

--------------------------------------------------------------------------------
(* The parts side by side. *)

\* A behaviour that runs one part and leaves the others alone is a behaviour of
\* every part: a step of one is a stutter of the others.
THEOREM PartsBehave ==
  Spec => /\ SessionsSpec /\ ListenersSpec /\ UdpSpec /\ RouteSpec /\ HeadersSpec
          /\ ObfsSpec /\ ProxySpec /\ PeersSpec /\ ShareSpec /\ UploadSpec
<1>1. Spec => SessionsSpec
  <2>1. Init => SessionsInit
    BY DEF Init
  <2>2. [Next]_forkVars => [SessionsNext]_sessionVars
    BY DEF Next, Others, Still, forkVars
  <2> QED BY <2>1, <2>2, PTL DEF Spec, SessionsSpec
<1>2. Spec => ListenersSpec
  <2>1. Init => ListenersInit
    BY DEF Init
  <2>2. [Next]_forkVars => [ListenersNext]_listenerVars
    BY DEF Next, Others, Still, forkVars
  <2> QED BY <2>1, <2>2, PTL DEF Spec, ListenersSpec
<1>3. Spec => UdpSpec
  <2>1. Init => UdpInit
    BY DEF Init
  <2>2. [Next]_forkVars => [UdpNext]_udpVars
    BY DEF Next, Others, Still, forkVars
  <2> QED BY <2>1, <2>2, PTL DEF Spec, UdpSpec
<1>4. Spec => RouteSpec
  <2>1. Init => RouteInit
    BY DEF Init
  <2>2. [Next]_forkVars => [RouteNext]_routeVars
    BY DEF Next, Others, Still, forkVars
  <2> QED BY <2>1, <2>2, PTL DEF Spec, RouteSpec
<1>5. Spec => HeadersSpec
  <2>1. Init => HeadersInit
    BY DEF Init
  <2>2. [Next]_forkVars => [HeadersNext]_headerVars
    BY DEF Next, Others, Still, forkVars
  <2> QED BY <2>1, <2>2, PTL DEF Spec, HeadersSpec
<1>6. Spec => ObfsSpec
  <2>1. Init => ObfsInit
    BY DEF Init
  <2>2. [Next]_forkVars => [ObfsNext]_obfsVars
    BY DEF Next, Others, Still, forkVars
  <2> QED BY <2>1, <2>2, PTL DEF Spec, ObfsSpec
<1>7. Spec => ProxySpec
  <2>1. Init => ProxyInit
    BY DEF Init
  <2>2. [Next]_forkVars => [ProxyNext]_proxyVars
    BY DEF Next, Others, Still, forkVars
  <2> QED BY <2>1, <2>2, PTL DEF Spec, ProxySpec
<1>8. Spec => PeersSpec
  <2>1. Init => PeersInit
    BY DEF Init
  <2>2. [Next]_forkVars => [PeersNext]_peerVars
    BY DEF Next, Others, Still, forkVars
  <2> QED BY <2>1, <2>2, PTL DEF Spec, PeersSpec
<1>9. Spec => ShareSpec
  <2>1. Init => ShareInit
    BY DEF Init
  <2>2. [Next]_forkVars => [ShareNext]_shareVars
    BY DEF Next, Others, Still, forkVars
  <2> QED BY <2>1, <2>2, PTL DEF Spec, ShareSpec
<1>10. Spec => UploadSpec
  <2>1. Init => UploadInit
    BY DEF Init
  <2>2. [Next]_forkVars => [UploadNext]_uploadVars
    BY DEF Next, Others, Still, forkVars
  <2> QED BY <2>1, <2>2, PTL DEF Spec, UploadSpec
<1> QED BY <1>1, <1>2, <1>3, <1>4, <1>5, <1>6, <1>7, <1>8, <1>9, <1>10

\* Every part keeps its types.
THEOREM ForksTypeCorrect == Spec => []ForksTypeOK
<1>1. Spec => /\ []SessionsTypeOK /\ []ListenersTypeOK /\ []UdpTypeOK /\ []RouteTypeOK
              /\ []HeadersTypeOK /\ []ObfsTypeOK /\ []ProxyTypeOK /\ []PeersTypeOK
              /\ []ShareTypeOK /\ []UploadTypeOK
  BY PartsBehave, SessionsArePooledHolds, NeverServesNothingHolds, ClosedIsUnmappedHolds,
     RetriesSufficeHolds, HeadersInOrderHolds, ParsedExactlyHolds, RelayedFaithfullyHolds,
     ListsOfPeersRunHolds, LiveLinksListedOnceHolds, SavedFilesHold, PTL
<1>2. /\ SessionsTypeOK /\ ListenersTypeOK /\ UdpTypeOK /\ RouteTypeOK
      /\ HeadersTypeOK /\ ObfsTypeOK /\ ProxyTypeOK /\ PeersTypeOK
      /\ ShareTypeOK /\ UploadTypeOK
      => ForksTypeOK
  BY DEF ForksTypeOK
<1> QED BY <1>1, <1>2, PTL

\* A session that lives is the one the pool hands out (tls.go:63), whatever the
\* number of callers and of sessions that die.
THEOREM PoolsInParts == Spec => []SessionsArePooled
BY PartsBehave, SessionsArePooledHolds, PTL

\* A listener hands on connections, and keeps none that was closed for its
\* senders (server.go:62, udp.go:116).
THEOREM ListenersInParts == Spec => []ListenersDeliver
<1>1. Spec => []NeverServesNothing /\ []ClosedIsUnmapped
  BY PartsBehave, NeverServesNothingHolds, ClosedIsUnmappedHolds, PTL
<1>2. NeverServesNothing /\ ClosedIsUnmapped => ListenersDeliver
  BY DEF ListenersDeliver
<1> QED BY <1>1, <1>2, PTL

\* The bypass lists that run are those of the peers in use (peer.go:77).
THEOREM PeersInParts == Spec => []ListsOfPeersRun
BY PartsBehave, ListsOfPeersRunHolds, PTL

\* With a node that works in each group, and tries enough for the others, no
\* connection gives up (selector.go:96, tcp.go:78).
THEOREM RoutesInParts == Spec => []RetriesSuffice
BY PartsBehave, RetriesSufficeHolds, PTL

\* What an end of a relayed, obfuscated or proxied connection reads is what the
\* other wrote, in order and none of it twice, whatever the reads cut it into.
THEOREM BytesInParts == Spec => []BytesArriveInOrder
<1>1. Spec => []HeadersInOrder /\ []ParsedExactly /\ []RelayedFaithfully
  BY PartsBehave, HeadersInOrderHolds, ParsedExactlyHolds, RelayedFaithfullyHolds, PTL
<1>2. HeadersInOrder /\ ParsedExactly /\ RelayedFaithfully => BytesArriveInOrder
  BY DEF BytesArriveInOrder
<1> QED BY <1>1, <1>2, PTL

\* Live links are listed once, files at rest are one body, and previews show
\* them (share/storage.go:39, http/resource.go:177, http/preview.go:88).
THEOREM BrowserInParts == Spec => []BrowserShowsWhatIsThere
<1>1. Spec => []LiveLinksListedOnce /\ []SavedWhole /\ []PreviewsFit
  BY PartsBehave, LiveLinksListedOnceHolds, SavedFilesHold, PTL
<1>2. LiveLinksListedOnce /\ SavedWhole /\ PreviewsFit => BrowserShowsWhatIsThere
  BY DEF BrowserShowsWhatIsThere
<1> QED BY <1>1, <1>2, PTL
==============================================================================
