------------------------------- MODULE FileShares -------------------------------
(***************************************************************************)
(* The shared links of the file browser on an agent (filebrowser/v2).      *)
(* Requests run side by side; each call of the database is a transaction   *)
(* of its own.  A listing deletes the links that have expired while it     *)
(* ranges over the slice it cuts them out of.                              *)
(***************************************************************************)
EXTENDS Integers, Sequences, FiniteSets

CONSTANTS Owners,    \* users with the permission to share
          Hashes,    \* hashes a link may get: numbers, in the database's order
          Listings,  \* requests that list links
          MaxClock   \* seconds

ASSUME FileSharesAssumption ==
  /\ Hashes \subseteq Nat /\ IsFiniteSet(Hashes)
  /\ Owners # {} /\ MaxClock \in Nat \ {0}

VARIABLES clock,    \* the second
          link,     \* per hash: its owner, the second it expires (0: never), whether it is there
          listing   \* per listing: where it is, the array it ranges over, the slice's
                    \* length, and (for the properties) the links it read

shareVars == <<clock, link, listing>>

Unused == [owner |-> CHOOSE o \in Owners : TRUE, expire |-> 0, state |-> "unused"]
NotListing == [at |-> "idle", array |-> <<>>, len |-> 0, next |-> 1, read |-> {}]

ShareInit ==
  /\ clock = 1
  /\ link = [h \in Hashes |-> Unused]
  /\ listing = [r \in Listings |-> NotListing]

Links == {h \in Hashes : link[h].state = "there"}
Expired(h) == link[h].expire # 0 /\ link[h].expire <= clock
Gone(h) == [link EXCEPT ![h].state = "deleted"]

Second ==
  /\ clock < MaxClock /\ clock' = clock + 1
  /\ UNCHANGED <<link, listing>>

--------------------------------------------------------------------------------
(* Links. *)

\* A new link with a random hash, for some time or for ever.
PostLink(o) ==
  /\ \E h \in Hashes, e \in {0} \cup clock .. MaxClock :
       /\ link[h].state = "unused"
       /\ link' = [link EXCEPT ![h] = [owner |-> o, expire |-> e, state |-> "there"]]
  /\ UNCHANGED <<clock, listing>>

\* Any user with the permission deletes any link by its hash.
DeleteLink ==
  /\ \E h \in Links : link' = Gone(h)
  /\ UNCHANGED <<clock, listing>>

\* A visitor deletes an expired link; the link of a deleted user leads nowhere but stays.
VisitLink ==
  /\ \E h \in Links : Expired(h) /\ link' = Gone(h)
  /\ UNCHANGED <<clock, listing>>

--------------------------------------------------------------------------------
(* Listings. *)

\* All links for an administrator, its own for another user, in one read and
\* in the database's order.
InDatabaseOrder(q) == \A i, j \in DOMAIN q : i < j => q[i] < q[j]
BeginListing(r, shown) ==
  /\ listing[r].at = "idle"
  /\ LET read == {h \in Links : link[h].owner \in shown} IN
     \E q \in [1 .. Cardinality(read) -> read] :
       /\ InDatabaseOrder(q)
       /\ listing' = [listing EXCEPT ![r] =
            [at |-> "walk", array |-> q, len |-> Cardinality(read), next |-> 1, read |-> read]]
  /\ UNCHANGED <<clock, link>>

\* append(links[:i], links[i+1:]...), within the array the loop ranges over.
CutOut(l) == [l EXCEPT !.array = [k \in DOMAIN @ |-> IF l.next <= k /\ k < l.len THEN @[k + 1] ELSE @[k]],
                       !.len = @ - 1]

\* One round of the loop.  An expired link is deleted, or the database fails
\* and with it the request.  Behind the end of the shortened slice the loop
\* meets the last entry again; if that has expired, the slicing panics.
WalkLink(r) ==
  LET l == listing[r]
      h == l.array[l.next]
      Becomes(m) == listing' = [listing EXCEPT ![r] = m] IN
  /\ l.at = "walk" /\ l.next <= Len(l.array)
  /\ \/ ~Expired(h) /\ UNCHANGED link /\ Becomes([l EXCEPT !.next = @ + 1])
     \/ /\ Expired(h) /\ link' = Gone(h)
        /\ Becomes(IF l.next <= l.len THEN [CutOut(l) EXCEPT !.next = @ + 1] ELSE [NotListing EXCEPT !.at = "panicked"])
     \/ Expired(h) /\ UNCHANGED link /\ Becomes([NotListing EXCEPT !.at = "failed"])
  /\ UNCHANGED clock

\* The links that are left are sorted and sent.
EndListing(r) ==
  LET l == listing[r] IN
  /\ l.at = "walk" /\ l.next > Len(l.array)
  /\ listing' = [listing EXCEPT ![r].at = "answered"]
  /\ UNCHANGED <<clock, link>>

ShareNext ==
  \/ Second \/ DeleteLink \/ VisitLink
  \/ \E o \in Owners : PostLink(o)
  \/ \E r \in Listings : \/ WalkLink(r) \/ EndListing(r) \/ BeginListing(r, Owners)
                         \/ \E o \in Owners : BeginListing(r, {o})

ShareSpec == ShareInit /\ [][ShareNext]_shareVars

ShareTypeOK ==
  /\ clock \in 1 .. MaxClock
  /\ link \in [Hashes -> [owner : Owners, expire : 0 .. MaxClock, state : {"unused", "there", "deleted"}]]
  /\ \A r \in Listings : /\ listing[r].at \in {"idle", "walk", "answered", "panicked", "failed"}
                         /\ listing[r].array \in Seq(Hashes) /\ listing[r].len \in 0 .. Cardinality(Hashes)

\* The loop of a listing cuts out of the array it ranges over (share/storage.go:39)
\* and passes over the entry behind each link it deletes.  Whatever it passes
\* over, a link that has not expired is in the answer exactly once, while other
\* listings, visitors and deletions run beside it and the clock goes on.
Answer(r) == SubSeq(listing[r].array, 1, listing[r].len)
LiveLinksListedOnce ==
  \A r \in Listings : listing[r].at = "answered" =>
    \A h \in listing[r].read :
      Expired(h) \/ Cardinality({k \in DOMAIN Answer(r) : Answer(r)[k] = h}) = 1
=============================================================================
