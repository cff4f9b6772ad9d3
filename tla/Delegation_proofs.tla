------------------------- MODULE Delegation_proofs -------------------------
(***************************************************************************)
(* Containment of boundaries is transitive and sound; hence along an       *)
(* accepted chain, of any length, authority only narrows.  Restricting is  *)
(* containment; hence a chain that only restricts is accepted.             *)
(* And the directory the first hop's passport is kept in: after a save it  *)
(* holds that passport, and it never names an agent with a later one's key. *)
(***************************************************************************)
EXTENDS Delegation, Passport, SequenceTheorems, WellFoundedInduction, TLAPS

(* A nonempty set of natural numbers has a least element.                  *)
LEMMA LeastNatural ==
  ASSUME NEW T, T \subseteq Nat, T # {}
  PROVE  \E x \in T : \A y \in T : x <= y
<1>1. PICK x \in T : \A y \in T : ~(<<y, x>> \in OpToRel(<, Nat))
  BY NatLessThanWellFounded, WFMin
<1>2. \A y \in T : ~(y < x)
  BY <1>1 DEF OpToRel
<1> QED
  BY <1>2

-----------------------------------------------------------------------------
(* Containment.                                                            *)

(* Boundaries with further restrictions added are contained in them.       *)
LEMMA RestrictedContained ==
  ASSUME NEW b \in Boundary, NEW r \in Boundary,
         Compatible(b.allowed, r.allowed), Compatible(b.geo, r.geo),
         Compatible(b.classes, r.classes)
  PROVE  Contained(Restricted(b, r), b)
<1>1. \A x \in {b, r} :
        x.perTransaction \in Nat /\ x.perDay \in Nat /\ x.window \in Windows
  BY DEF Boundary
<1>2. /\ ListContained(Jointly(b.allowed, r.allowed), b.allowed)
      /\ ListContained(Jointly(b.classes, r.classes), b.classes)
      /\ GeoContained(Jointly(b.geo, r.geo), b.geo)
  BY DEF ListContained, GeoContained, Jointly, Compatible
<1>3. \A m, n \in Nat : LimitContained(LowerLimit(m, n), m)
  BY DEF LimitContained, LowerLimit
<1>4. ASSUME NEW v \in Windows, NEW w \in Windows
      PROVE  WindowContained(Overlap(v, w), v)
  <2>1. CASE v = None
    BY <2>1 DEF WindowContained
  <2>2. CASE v # None
    <3>1. v \in [start : Nat, end : Nat] /\ v.start \in Nat /\ v.end \in Nat
      BY <2>2 DEF Windows
    <3>2. CASE w = None
      BY <2>2, <3>1, <3>2 DEF WindowContained, Overlap
    <3>3. CASE w # None
      <4>1. w.start \in Nat /\ w.end \in Nat
        BY <3>3 DEF Windows
      <4> DEFINE o == [start |-> IF v.start < w.start THEN w.start ELSE v.start,
                       end |-> IF w.end < v.end THEN w.end ELSE v.end]
      <4>2. Overlap(v, w) = o
        BY <2>2, <3>3 DEF Overlap
      <4>3. o \in [start : Nat, end : Nat] /\ v.start <= o.start /\ o.end <= v.end
        BY <3>1, <4>1
      <4>4. o # None
        BY <4>3, BoundaryAssumption
      <4> HIDE DEF o
      <4> QED
        BY <4>2, <4>3, <4>4 DEF WindowContained
    <3> QED
      BY <3>2, <3>3
  <2> QED
    BY <2>1, <2>2
<1> QED
  BY <1>1, <1>2, <1>3, <1>4 DEF Contained, Restricted

LEMMA ContainedTransitive ==
  ASSUME NEW x \in Boundary, NEW y \in Boundary, NEW z \in Boundary,
         Contained(x, y), Contained(y, z)
  PROVE  Contained(x, z)
<1>1. \A b \in {x, y, z} :
        b.perTransaction \in Nat /\ b.perDay \in Nat /\ b.window \in Windows
  BY DEF Boundary
<1>2. ListContained(x.allowed, z.allowed) /\ ListContained(x.classes, z.classes)
  BY DEF Contained, ListContained
<1>3. z.denied \subseteq x.denied
  BY DEF Contained
<1>4. /\ LimitContained(x.perTransaction, z.perTransaction)
      /\ LimitContained(x.perDay, z.perDay)
  BY <1>1 DEF Contained, LimitContained
<1>5. GeoContained(x.geo, z.geo)
  BY DEF Contained, GeoContained
<1>6. WindowContained(x.window, z.window)
  <2>1. \A w \in Windows : w # None => w.start \in Nat /\ w.end \in Nat
    BY DEF Windows
  <2> QED
    BY <1>1, <2>1 DEF Contained, WindowContained
<1> QED
  BY <1>2, <1>3, <1>4, <1>5, <1>6 DEF Contained

(* What a child's boundaries permit, those that contain them permit.       *)
LEMMA ContainedSound ==
  ASSUME NEW x \in Boundary, NEW y \in Boundary, NEW q \in Request,
         NEW now \in Nat, Contained(x, y), Permits(x, q, now)
  PROVE  Permits(y, q, now)
<1>1. /\ x.perTransaction \in Nat /\ x.perDay \in Nat /\ x.window \in Windows
      /\ y.perTransaction \in Nat /\ y.perDay \in Nat /\ y.window \in Windows
      /\ q.amount \in Nat \cup {None} /\ q.spent \in Nat
      /\ q.geo \in Places \cup {None}
  BY DEF Boundary, Request
<1>2. PermitsAction(y, q.action)
  BY DEF Permits, PermitsAction, Contained, ListContained
<1>3. WithinTransaction(y, q.amount)
  BY <1>1 DEF Permits, WithinTransaction, Contained, LimitContained
<1>4. WithinDay(y, q.spent, q.amount)
  BY <1>1 DEF Permits, WithinDay, Contained, LimitContained
<1>5. InWindow(y, now)
  <2>1. \A w \in Windows : w # None => w.start \in Nat /\ w.end \in Nat
    BY DEF Windows
  <2> QED
    BY <1>1, <2>1 DEF Permits, InWindow, Contained, WindowContained
<1>6. PermitsPlace(y, q.geo)
  BY <1>1, BoundaryAssumption DEF Permits, PermitsPlace, Contained, GeoContained
<1>7. PermitsClass(y, q.class)
  BY DEF Permits, PermitsClass, Contained, ListContained
<1> QED
  BY <1>2, <1>3, <1>4, <1>5, <1>6, <1>7 DEF Permits

LEMMA LinkBoundaries ==
  ASSUME NEW c \in Seq(Link)
  PROVE  \A i \in 1..Len(c) : c[i].boundaries \in Boundary
<1> SUFFICES ASSUME NEW i \in 1..Len(c) PROVE c[i].boundaries \in Boundary
  OBVIOUS
<1>1. c[i] \in Link
  BY ElementOfSeq
<1>2. c[i].boundaries \in Grants
  BY <1>1 DEF Link
<1> QED
  BY <1>2, DelegationAssumption

(* Containment carries from the last hop of a narrowing chain to them all. *)
LEMMA EveryHopContains ==
  ASSUME NEW c \in Seq(Link), c # <<>>, Narrowing(c), NEW b \in Boundary,
         Contained(b, c[Len(c)].boundaries)
  PROVE  \A i \in 1..Len(c) : Contained(b, c[i].boundaries)
<1> DEFINE T == {k \in 0..Len(c) - 1 : ~Contained(b, c[Len(c) - k].boundaries)}
<1>0. Len(c) \in Nat \ {0}
  BY LenProperties, EmptySeq
<1>1. \A i \in 1..Len(c) : c[i].boundaries \in Boundary
  BY LinkBoundaries
<1>2. ASSUME T # {} PROVE FALSE
  <2>1. T \subseteq Nat
    BY <1>0
  <2>2. PICK k \in T : \A y \in T : k <= y
    BY <1>2, <2>1, LeastNatural
  <2>3. k \in 1..Len(c) - 1
    BY <1>0, <2>2
  <2>4. k - 1 \in 0..Len(c) - 1 /\ k - 1 \notin T
    <3>1. k - 1 \in 0..Len(c) - 1 /\ ~(k <= k - 1)
      BY <1>0, <2>3
    <3> HIDE DEF T
    <3> QED
      BY <2>2, <3>1
  <2> DEFINE i == Len(c) - k
  <2>5. i \in 1..Len(c) - 1 /\ i + 1 = Len(c) - (k - 1)
        /\ i \in 1..Len(c) /\ i + 1 \in 1..Len(c)
    BY <1>0, <2>3
  <2>6. Contained(b, c[Len(c) - (k - 1)].boundaries)
    BY <2>4
  <2>7. ~Contained(b, c[i].boundaries)
    BY <2>2
  <2> HIDE DEF i, T
  <2>8. Contained(b, c[i + 1].boundaries)
    BY <2>5, <2>6
  <2>9. Contained(c[i + 1].boundaries, c[i].boundaries)
    BY <2>5 DEF Narrowing
  <2> QED
    BY <1>1, <2>5, <2>7, <2>8, <2>9, ContainedTransitive
<1>3. SUFFICES ASSUME NEW i \in 1..Len(c) PROVE Contained(b, c[i].boundaries)
  OBVIOUS
<1>4. Len(c) - i \in 0..Len(c) - 1 /\ Len(c) - (Len(c) - i) = i
  BY <1>0
<1>5. Len(c) - i \notin T
  BY <1>2
<1> QED
  BY <1>4, <1>5

-----------------------------------------------------------------------------
LEMMA DelegationTypes == Spec => []TypeOK
<1>1. Init => TypeOK
  BY ClockAssumption, EmptySeq DEF Init, ClockInit, TypeOK, ClockTypeOK
<1>2. TypeOK /\ [Next]_vars => TypeOK'
  <2> SUFFICES ASSUME TypeOK, [Next]_vars PROVE TypeOK'
    OBVIOUS
  <2>1. CASE Tick /\ UNCHANGED chain
    BY <2>1, ClockAssumption DEF Tick, TypeOK, ClockTypeOK
  <2>2. ASSUME NEW from \in Ids, NEW to \in Ids, NEW b \in Grants,
               NEW lifetime \in Lifetimes, NEW lead \in Leads,
               Delegate(from, to, b, lifetime, lead)
        PROVE  TypeOK'
    <3> DEFINE l == [from |-> from, to |-> to, granted |-> clock + lead,
                     boundaries |-> b,
                     expires |-> IF lifetime = None THEN None
                                                    ELSE clock + lifetime]
    <3>1. clock \in Nat
      BY ClockAssumption DEF TypeOK, ClockTypeOK
    <3>2. l \in Link
      BY <3>1, DelegationAssumption DEF Link
    <3>3. chain' = Append(chain, l) /\ clock' = clock
      BY <2>2 DEF Delegate
    <3> QED
      BY <3>2, <3>3, AppendProperties DEF TypeOK, ClockTypeOK
  <2>3. CASE UNCHANGED vars
    BY <2>3 DEF vars, TypeOK, ClockTypeOK
  <2> QED
    BY <2>1, <2>2, <2>3 DEF Next
<1> QED
  BY <1>1, <1>2, PTL DEF Spec

(* Whatever an envelope over an accepted chain permits, every hop of it    *)
(* permits: for chains of any length and any boundaries.                   *)
THEOREM AuthorityNarrows == Spec => []AuthorityOnlyNarrows
<1>1. TypeOK => AuthorityOnlyNarrows
  <2> SUFFICES ASSUME TypeOK,
                      NEW principal \in Ids, NEW agent \in Ids, NEW b \in Grants,
                      Accepted(principal, agent, chain, b, clock),
                      NEW q \in Requests, Permits(b, q, clock),
                      NEW i \in 1..Len(chain)
               PROVE  Permits(chain[i].boundaries, q, clock)
    BY DEF AuthorityOnlyNarrows
  <2>1. /\ clock \in Nat /\ chain \in Seq(Link)
        /\ b \in Boundary /\ q \in Request
    BY ClockAssumption, DelegationAssumption DEF TypeOK, ClockTypeOK
  <2>2. chain # <<>>
    BY <2>1, LenProperties, EmptySeq
  <2>3. Narrowing(chain) /\ Contained(b, chain[Len(chain)].boundaries)
    BY <2>2 DEF Accepted
  <2>4. Contained(b, chain[i].boundaries)
    BY <2>1, <2>2, <2>3, EveryHopContains
  <2>5. chain[i].boundaries \in Boundary
    BY <2>1, LinkBoundaries
  <2> QED
    BY <2>1, <2>4, <2>5, ContainedSound
<1> QED
  BY <1>1, DelegationTypes, PTL

(* A chain of live hops, each of which took the boundaries of the one      *)
(* before and at most restricted them further, is accepted, and so is an   *)
(* envelope made the same way at its end: for chains of any length and any *)
(* boundaries, those whose hops hand on exactly what they hold among them. *)
THEOREM FaithfulDelegation == Spec => []FaithfulChainAccepted
<1>1. TypeOK => FaithfulChainAccepted
  <2> SUFFICES ASSUME TypeOK, chain # <<>>, Len(chain) <= MaxDepth,
                      Continuous(chain),
                      \A i \in 1..Len(chain) :
                        /\ chain[i].expires # None => chain[i].expires >= clock
                        /\ chain[i].granted <= clock + Skew,
                      \A i \in 1..Len(chain) - 1 :
                        HandsOn(chain[i].boundaries, chain[i + 1].boundaries),
                      NEW b \in Grants,
                      HandsOn(chain[Len(chain)].boundaries, b)
               PROVE  Accepted(chain[1].from, chain[Len(chain)].to, chain, b, clock)
    BY DEF FaithfulChainAccepted
  <2>1. Len(chain) \in Nat \ {0}
    BY LenProperties, EmptySeq DEF TypeOK
  <2>2. \A i \in 1..Len(chain) : chain[i].boundaries \in Boundary
    BY LinkBoundaries DEF TypeOK
  <2>3. \A x \in Boundary : \A y : HandsOn(x, y) => Contained(y, x)
    BY RestrictedContained, DelegationAssumption DEF HandsOn
  <2>4. Narrowing(chain)
    BY <2>1, <2>2, <2>3 DEF Narrowing
  <2>5. Contained(b, chain[Len(chain)].boundaries)
    BY <2>1, <2>2, <2>3
  <2>6. \A i \in 1..Len(chain) : LinkLive(chain[i], clock)
    BY DEF LinkLive
  <2> QED
    BY <2>4, <2>5, <2>6 DEF Accepted
<1> QED
  BY <1>1, DelegationTypes, PTL
-----------------------------------------------------------------------------
(* The passport's directory.                                               *)

Named(h) == [agent |-> h.agent, key |-> h.key]

(* How far a save has come decides which files are of it, and a file is    *)
(* never of a later save than passport.json, the first to be written.      *)
DirectoryInv ==
  /\ PassportTypeOK
  /\ \A f \in File : era[f] <= era["json"]
  /\ era["json"] <= saves
  /\ torn => todo # <<>>
  /\ todo # <<>> =>
       /\ saving \in Holder
       /\ \/ todo = FilesOf(saving)
          \/ /\ todo = Tail(FilesOf(saving))
             /\ era["json"] = saves /\ json = Named(saving)
          \/ /\ saving.signs /\ todo = <<"private">>
             /\ era["json"] = saves /\ json = Named(saving) /\ public = saving.key
  /\ whole =>
       /\ saving \in Holder /\ todo = <<>>
       /\ json = Named(saving) /\ public \in {saving.key, Absent}
       /\ saving.signs => private \in {saving.key, Absent}

LEMMA DirectoryInitially ==
  ASSUME PassportInit
  PROVE  DirectoryInv
<1>1. 0 \in 0..MaxSaves /\ era \in [File -> 0..MaxSaves] /\ \A f \in File : era[f] = 0
  BY PassportAssumption DEF PassportInit
<1>2. PassportTypeOK
  BY <1>1, EmptySeq DEF PassportInit, PassportTypeOK
<1> QED
  BY <1>1, <1>2 DEF PassportInit, DirectoryInv, File

LEMMA FilesAreSequences ==
  ASSUME NEW h \in Holder
  PROVE  /\ FilesOf(h) \in Seq(File) /\ FilesOf(h) # <<>>
         /\ Head(FilesOf(h)) = "json"
         /\ Tail(FilesOf(h)) =
              IF h.signs THEN <<"public", "private">> ELSE <<"public">>
<1>1. CASE h.signs
  <2>1. FilesOf(h) = <<"json", "public", "private">>
    BY <1>1 DEF FilesOf
  <2>2. <<"json", "public", "private">> \in Seq(File)
    BY DEF File
  <2>3. Tail(<<"json", "public", "private">>) = <<"public", "private">>
    OBVIOUS
  <2> QED
    BY <1>1, <2>1, <2>2, <2>3
<1>2. CASE ~h.signs
  <2>1. FilesOf(h) = <<"json", "public">>
    BY <1>2 DEF FilesOf
  <2>2. <<"json", "public">> \in Seq(File)
    BY DEF File
  <2>3. Tail(<<"json", "public">>) = <<"public">>
    OBVIOUS
  <2> QED
    BY <1>2, <2>1, <2>2, <2>3
<1> QED
  BY <1>1, <1>2

(* The next file to be written, and what is left after it.                 *)
LEMMA NextFile ==
  ASSUME DirectoryInv, todo # <<>>
  PROVE  /\ saving \in Holder
         /\ \/ todo = FilesOf(saving) /\ Head(todo) = "json"
               /\ Tail(todo) = Tail(FilesOf(saving)) /\ Tail(todo) # <<>>
               /\ Len(todo) # 1
            \/ todo = Tail(FilesOf(saving)) /\ Head(todo) = "public"
               /\ era["json"] = saves /\ json = Named(saving)
               /\ \/ saving.signs /\ Tail(todo) = <<"private">> /\ Len(todo) # 1
                  \/ ~saving.signs /\ Tail(todo) = <<>> /\ Len(todo) = 1
            \/ todo = <<"private">> /\ Head(todo) = "private" /\ Tail(todo) = <<>>
               /\ Len(todo) = 1 /\ saving.signs
               /\ era["json"] = saves /\ json = Named(saving) /\ public = saving.key
<1>1. saving \in Holder /\ saving.signs \in BOOLEAN
  BY DEF DirectoryInv, Holder
<1>2. CASE todo = FilesOf(saving)
  BY <1>1, <1>2 DEF FilesOf
<1>3. CASE /\ todo = Tail(FilesOf(saving))
           /\ era["json"] = saves /\ json = Named(saving)
  <2>1. CASE saving.signs
    <3>1. todo = <<"public", "private">>
      BY <1>1, <1>3, <2>1, FilesAreSequences
    <3>2. /\ Head(todo) = "public" /\ Tail(todo) = <<"private">> /\ Len(todo) # 1
      BY <3>1
    <3> QED
      BY <1>1, <1>3, <2>1, <3>2
  <2>2. CASE ~saving.signs
    <3>1. todo = <<"public">>
      BY <1>1, <1>3, <2>2, FilesAreSequences
    <3>2. Head(todo) = "public" /\ Tail(todo) = <<>> /\ Len(todo) = 1
      BY <3>1
    <3> QED
      BY <1>1, <1>3, <2>2, <3>2
  <2> QED
    BY <2>1, <2>2
<1>4. CASE /\ saving.signs /\ todo = <<"private">>
           /\ era["json"] = saves /\ json = Named(saving) /\ public = saving.key
  BY <1>1, <1>4
<1> QED
  BY <1>1, <1>2, <1>3, <1>4 DEF DirectoryInv

(* What load returns is a passport.                                        *)
LEMMA LoadedIsHolder ==
  ASSUME PassportTypeOK, Loadable
  PROVE  Loaded \in Holder
<1>1. json \in [agent : Agents, key : Agents]
  BY DEF PassportTypeOK, Loadable
<1>2. KeyFile = "private" => private \in Agents
  BY DEF PassportTypeOK, Loadable, KeyFile
<1>3. KeyFile = "public" => public \in Agents
  BY DEF PassportTypeOK, Loadable, KeyFile
<1>4. KeyFile \in File
  BY DEF KeyFile, File
<1> QED
  BY <1>1, <1>2, <1>3, <1>4 DEF Loaded, Holder, File

LEMMA WriteKeepsDirectory ==
  ASSUME DirectoryInv, Write
  PROVE  DirectoryInv'
<1>1. todo # <<>> /\ PassportTypeOK /\ saving \in Holder
  BY NextFile DEF Write, DirectoryInv
<1>2. Named(saving) \in [agent : Agents, key : Agents] /\ saving.key \in Agents
  BY <1>1 DEF Holder, Named
<1>3. /\ UNCHANGED <<holders, saving, saves>> /\ torn' = FALSE
      /\ todo' = Tail(todo) /\ whole' = (Len(todo) = 1)
      /\ era' = [era EXCEPT ![Head(todo)] = saves]
      /\ Becomes(Head(todo), IF Head(todo) = "json" THEN Named(saving) ELSE saving.key)
  BY DEF Write, Named
<1>4. /\ saves \in 0..MaxSaves /\ era \in [File -> 0..MaxSaves] /\ MaxSaves \in Nat
      /\ \A f \in File : era[f] <= era["json"]
      /\ era["json"] <= saves
  BY <1>1, PassportAssumption DEF PassportTypeOK, DirectoryInv
<1>5. todo' \in Seq(File)
  BY <1>1, <1>3, HeadTailProperties DEF PassportTypeOK
<1>6. CASE /\ todo = FilesOf(saving) /\ Head(todo) = "json"
           /\ Tail(todo) = Tail(FilesOf(saving)) /\ Tail(todo) # <<>> /\ Len(todo) # 1
  <2>1. /\ json' = Named(saving) /\ UNCHANGED <<public, private>> /\ whole' = FALSE
        /\ todo' = Tail(FilesOf(saving))
    BY <1>3, <1>6 DEF Becomes
  <2>2. era' \in [File -> 0..MaxSaves] /\ era'["json"] = saves
        /\ \A f \in File : era'[f] <= era'["json"]
    BY <1>3, <1>4, <1>6 DEF File
  <2>3. PassportTypeOK'
    BY <1>1, <1>2, <1>3, <1>5, <2>1, <2>2 DEF PassportTypeOK
  <2> QED
    BY <1>1, <1>3, <1>4, <2>1, <2>2, <2>3 DEF DirectoryInv, Named, FilesOf
<1>7. CASE /\ Head(todo) = "public" /\ era["json"] = saves /\ json = Named(saving)
           /\ \/ saving.signs /\ Tail(todo) = <<"private">> /\ Len(todo) # 1
              \/ ~saving.signs /\ Tail(todo) = <<>> /\ Len(todo) = 1
  <2>1. public' = saving.key /\ UNCHANGED <<json, private>>
    BY <1>3, <1>7 DEF Becomes
  <2>2. era' \in [File -> 0..MaxSaves] /\ era'["json"] = saves
        /\ \A f \in File : era'[f] <= era'["json"]
    BY <1>3, <1>4, <1>7 DEF File
  <2>3. PassportTypeOK'
    BY <1>1, <1>2, <1>3, <1>5, <2>1, <2>2 DEF PassportTypeOK
  <2> QED
    BY <1>1, <1>3, <1>4, <1>7, <2>1, <2>2, <2>3 DEF DirectoryInv, Named, FilesOf
<1>8. CASE /\ Head(todo) = "private" /\ Tail(todo) = <<>> /\ Len(todo) = 1
           /\ saving.signs /\ era["json"] = saves /\ json = Named(saving)
           /\ public = saving.key
  <2>1. private' = saving.key /\ UNCHANGED <<json, public>>
    BY <1>3, <1>8 DEF Becomes
  <2>2. era' \in [File -> 0..MaxSaves] /\ era'["json"] = saves
        /\ \A f \in File : era'[f] <= era'["json"]
    BY <1>3, <1>4, <1>8 DEF File
  <2>3. PassportTypeOK'
    BY <1>1, <1>2, <1>3, <1>5, <2>1, <2>2 DEF PassportTypeOK
  <2> QED
    BY <1>1, <1>3, <1>4, <1>8, <2>1, <2>2, <2>3 DEF DirectoryInv, Named
<1> QED
  BY <1>1, <1>6, <1>7, <1>8, NextFile

LEMMA TruncateKeepsDirectory ==
  ASSUME DirectoryInv, Truncate
  PROVE  DirectoryInv'
<1>1. /\ todo # <<>> /\ torn' = TRUE /\ Becomes(Head(todo), Torn)
      /\ UNCHANGED <<holders, saving, todo, whole, saves, era>>
  BY DEF Truncate
<1>2. PassportTypeOK' /\ ~whole
  BY <1>1 DEF DirectoryInv, PassportTypeOK, Becomes
<1>3. CASE todo = FilesOf(saving)
  BY <1>1, <1>2, <1>3 DEF DirectoryInv, FilesOf
<1>4. CASE Head(todo) \in {"public", "private"}
  <2>1. UNCHANGED json /\ (Head(todo) = "private" => UNCHANGED public)
    BY <1>1, <1>4 DEF Becomes
  <2> QED
    BY <1>1, <1>2, <1>4, <2>1, NextFile DEF DirectoryInv, FilesOf, Named
<1> QED
  BY <1>1, <1>3, <1>4, NextFile

LEMMA DirectoryStep ==
  ASSUME DirectoryInv, [PassportNext]_passportVars
  PROVE  DirectoryInv'
<1>0. PassportTypeOK
  BY DEF DirectoryInv
<1>1. ASSUME NEW h \in Holder, holders' = holders \cup {h},
             UNCHANGED <<files, saveVars, era>>
      PROVE  DirectoryInv'
  BY <1>0, <1>1 DEF DirectoryInv, PassportTypeOK, FilesOf, Named, files, saveVars
<1>2. ASSUME NEW a \in Agents, Create(a) PROVE DirectoryInv'
  <2>1. [agent |-> a, key |-> a, signs |-> TRUE] \in Holder
    BY DEF Holder
  <2> QED
    BY <1>1, <1>2, <2>1 DEF Create
<1>3. ASSUME NEW h \in holders, BeginSave(h) PROVE DirectoryInv'
  <2>1. h \in Holder
    BY <1>0 DEF PassportTypeOK
  <2>2. /\ saving' = h /\ todo' = FilesOf(h) /\ torn' = FALSE /\ whole' = FALSE
        /\ saves < MaxSaves /\ saves' = saves + 1 /\ UNCHANGED <<files, holders, era>>
    BY <1>3 DEF BeginSave
  <2>3. FilesOf(h) = FilesOf(saving)'
    BY <2>2 DEF FilesOf
  <2>4. saves \in 0..MaxSaves /\ MaxSaves \in Nat
    BY <1>0, PassportAssumption DEF PassportTypeOK
  <2>5. saves' \in 0..MaxSaves /\ saves <= saves'
    BY <2>2, <2>4
  <2>6. PassportTypeOK'
    BY <1>0, <2>1, <2>2, <2>5, FilesAreSequences DEF PassportTypeOK, files
  <2>7. era["json"] \in Nat /\ era["json"] <= saves'
    BY <1>0, <2>2, <2>4, <2>5 DEF DirectoryInv, PassportTypeOK, File
  <2> QED
    BY <2>1, <2>2, <2>3, <2>6, <2>7 DEF DirectoryInv
<1>4. CASE Crash
  BY <1>0, <1>4, EmptySeq DEF Crash, DirectoryInv, PassportTypeOK, files
<1>5. CASE Load
  BY <1>0, <1>1, <1>5, LoadedIsHolder DEF Load
<1>6. CASE Ship
  BY <1>0, <1>6 DEF Ship, DirectoryInv, PassportTypeOK, saveVars, Named
<1>7. CASE UNCHANGED passportVars
  BY <1>0, <1>7
     DEF passportVars, files, saveVars, DirectoryInv, PassportTypeOK, FilesOf, Named
<1> QED
  BY <1>2, <1>3, <1>4, <1>5, <1>6, <1>7, WriteKeepsDirectory, TruncateKeepsDirectory
     DEF PassportNext

LEMMA DirectoryInvariant == PassportSpec => []DirectoryInv
  BY DirectoryInitially, DirectoryStep, PTL DEF PassportSpec

(* After a save that went through, load returns the passport it saved, for *)
(* any saves cut short before it (save, load).                             *)
THEOREM SavedPassportIsLoaded == PassportSpec => []SavedIsLoaded
<1>1. ASSUME DirectoryInv PROVE SavedIsLoaded
  <2> SUFFICES ASSUME whole, saving.signs \/ private = Absent
               PROVE  /\ Loadable
                      /\ Loaded = [saving EXCEPT !.signs = saving.signs
                                                           /\ private # Absent]
    BY DEF SavedIsLoaded
  <2>1. /\ saving \in Holder /\ json = Named(saving)
        /\ public \in {saving.key, Absent}
        /\ private \in {saving.key, Absent}
        /\ private # Absent => saving.signs
    BY <1>1 DEF DirectoryInv
  <2>2. /\ saving.key \in Agents /\ saving.key \notin {Absent, Torn}
        /\ json \notin {Absent, Torn}
    BY <2>1, PassportAssumption DEF Holder, Named
  <2>3. Loadable
    BY <2>1, <2>2 DEF Loadable, KeyFile
  <2>4. Loaded = [agent |-> saving.agent, signs |-> private # Absent,
                  key |-> saving.key]
    BY <2>1, <2>2 DEF Loaded, KeyFile, Named
  <2> QED
    BY <2>1, <2>3, <2>4 DEF Holder
<1> QED
  BY <1>1, DirectoryInvariant, PTL

(* The identity load returns never has a key of a later save, wherever     *)
(* saves were cut short (the order of the writes in save).                 *)
THEOREM KeyNeverLater == PassportSpec => []NoLaterKey
<1>1. DirectoryInv => NoLaterKey
  BY DEF DirectoryInv, NoLaterKey, KeyFile, File
<1> QED
  BY <1>1, DirectoryInvariant, PTL
=============================================================================
