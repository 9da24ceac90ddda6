------------------------- MODULE SnapshotStoreProofs -------------------------
(***************************************************************************)
(* For every set of lists, contents, clients and builds: the pointer only  *)
(* ever names a complete set, the directory protocol implements            *)
(* AtomicPublish, and what Prune leaves is neither too much nor too little.*)
(***************************************************************************)
EXTENDS SnapshotStore, FiniteSetTheorems, TLAPS

-----------------------------------------------------------------------------
(* The inductive invariant follows the set being published: what is in its *)
(* building directory at each step, that nothing else has its version, and *)
(* that the set the pointer names is out of Prune's reach.                 *)

VersionIsFresh ==
    /\ current # NoVersion => current[1] \in usedStamps
    /\ build.pc # "idle" =>
          build.version \in Version /\ build.version[1] \in usedStamps
    /\ build.pc \in {"begin", "add", "rename", "setCurrent"} =>
          build.version # current

\* The building directory holds the files written so far, in their order ...
Filling ==
    build.pc = "add" =>
        /\ Dir \in tmp[build.version]
        /\ tmp[build.version] \cap Names \subseteq DOMAIN Content(build.version) \ build.todo
        /\ \A m \in DOMAIN Content(build.version) \ build.todo, k \in build.todo :
              Position[m] <= Position[k]
        /\ build.todo \subseteq DOMAIN Content(build.version)
        /\ Stored(build.version) \ build.todo \subseteq tmp[build.version]

\* ... and all of them before it is renamed.
Filled ==
    build.pc = "rename" =>
        Stored(build.version) \cup {ManifestName, Dir} \subseteq tmp[build.version]

SetInProgress ==
    /\ Filling
    /\ Filled
    /\ build.pc = "setCurrent" => Complete(build.version)
    /\ build.pc = "remove" => current \notin build.victims

\* A directory only holds files of its own set.
DirectoryInv ==
    \A v \in Version : /\ sets[v] \cap Names \subseteq DOMAIN Content(v)
                       /\ tmp[v] \cap Names \subseteq DOMAIN Content(v)

\* A request that has met no change of the pointer reads one set throughout.
RequestInv ==
    \A c \in Clients :
        /\ req[c].pc # "idle" =>
              /\ req[c].status = 0
              /\ req[c].manifest \in Version
              /\ current # NoVersion
              /\ ~moved[c] => req[c].manifest = current
        /\ req[c].pc = "open" =>
              /\ req[c].version \in Version
              /\ Polls[c] \in DOMAIN Content(req[c].manifest)
              /\ ~moved[c] => req[c].version = current

DirInv == VersionIsFresh /\ SetInProgress /\ CurrentComplete /\ DirectoryInv

IInv == TypeOK /\ DirInv /\ RequestInv /\ UndisturbedRequest

-----------------------------------------------------------------------------
(* Facts about the constants.                                              *)

\* The files of a version: some of Names, each with one of Bodies.
LEMMA ContentType ==
    ASSUME NEW v \in Version
    PROVE  /\ DOMAIN Content(v) \subseteq Names
           /\ DOMAIN Content(v) # {}
           /\ \A n \in DOMAIN Content(v) : Content(v)[n] \in Bodies
           /\ Content(v) \in {ContentOf[d] : d \in Digests}
           /\ Content(v) = [n \in DOMAIN Content(v) |-> Content(v)[n]]
<1>1. v[2] \in Digests
  BY DEF Version
<1>2. ContentOf[v[2]] \in UNION {[S -> Bodies] : S \in (SUBSET Names) \ {{}}}
  BY <1>1, StoreAssumption
<1>3. PICK S \in (SUBSET Names) \ {{}} : ContentOf[v[2]] \in [S -> Bodies]
  BY <1>2
<1>4. QED
  BY <1>1, <1>3 DEF Content

\* No version is written 0-0: the empty pointer is told from every version.
LEMMA NoVersionIsNone == NoVersion \notin Version
  BY StoreAssumption DEF NoVersion, Version

\* A non-empty set of naturals has a least element.
LEMMA LeastNatural ==
    ASSUME NEW T \in SUBSET Nat, T # {}
    PROVE  \E x \in T : \A y \in T : x <= y
<1>1. PICK x \in T : \A y \in T : ~ (<<y, x>> \in OpToRel(<, Nat))
  BY NatLessThanWellFounded, WFMin
<1>2. \A y \in T : ~ (y < x)
  BY <1>1 DEF OpToRel
<1>3. QED
  BY <1>2

\* Every list of a set has its bytes in one of the files write puts on disk:
\* Lookup always finds the file a same_as entry points to.
LEMMA FileOfIsStored ==
    ASSUME NEW v \in Version, NEW n \in DOMAIN Content(v)
    PROVE  FileOf(v, n) \in Stored(v) /\ Content(v)[FileOf(v, n)] = Content(v)[n]
<1> DEFINE Same == {m \in DOMAIN Content(v) : Content(v)[m] = Content(v)[n]}
           Places == {Position[m] : m \in Same}
<1>1. Same \subseteq Names /\ n \in Same
  BY ContentType
<1>2. Places \in SUBSET Nat /\ Places # {}
  BY <1>1, StoreAssumption
<1>3. PICK p \in Places : \A q \in Places : p <= q
  BY <1>2, LeastNatural
<1>4. PICK m \in Same : Position[m] = p
  BY <1>3
<1>5. m \in Stored(v) /\ Content(v)[m] = Content(v)[n]
  BY <1>3, <1>4 DEF Stored
<1>6. QED
  BY <1>5 DEF FileOf

\* What the pointer stands for is the whole content of the set it names.
LEMMA PublishedIsContent ==
    ASSUME CurrentComplete, current \in Version
    PROVE  Published = Content(current)
<1>1. current # NoVersion
  BY NoVersionIsNone
<1>2. Stored(current) \cup {ManifestName, Dir} \subseteq sets[current]
  BY <1>1 DEF CurrentComplete, Complete
<1>3. \A n \in DOMAIN Content(current) :
         {ManifestName, FileOf(current, n)} \subseteq sets[current]
  BY <1>2, FileOfIsStored
<1>4. Published = [n \in DOMAIN Content(current) |-> Content(current)[n]]
  BY <1>1, <1>3 DEF Published
<1>5. QED
  BY <1>4, ContentType

-----------------------------------------------------------------------------
(* The steps of the build goroutine.                                       *)

LEMMA InitIInv == Init => IInv
<1> SUFFICES ASSUME Init PROVE IInv
  OBVIOUS
<1> USE DEF Init, Idle, NoRequest, NoCache, RequestType
<1>1. TypeOK
  BY StoreAssumption DEF TypeOK
<1>2. DirInv
  BY DEF DirInv, VersionIsFresh, SetInProgress, Filling, Filled, CurrentComplete, DirectoryInv
<1>3. RequestInv /\ UndisturbedRequest
  BY DEF RequestInv, UndisturbedRequest
<1>4. QED
  BY <1>1, <1>2, <1>3 DEF IInv

\* A step that changes neither the pointer nor a request, and leaves the type
\* of what it changes, disturbs nothing a client sees.
LEMMA ClientsUndisturbed ==
    ASSUME IInv, UNCHANGED <<current, clientVars>>
    PROVE  RequestInv' /\ UndisturbedRequest'
BY DEF IInv, clientVars, RequestInv, UndisturbedRequest, UndisturbedAnswer

LEMMA StartPublishIInv ==
    ASSUME IInv, NEW stamp \in Stamps, NEW d \in Digests, StartPublish(stamp, d)
    PROVE  IInv'
<1> USE DEF IInv, StartPublish, Idle
<1>1. <<stamp, d>> \in Version /\ <<stamp, d>>[1] = stamp
  BY DEF Version
<1>2. TypeOK'
  <2>1. build' = [pc |-> "begin", version |-> <<stamp, d>>, todo |-> {}, victims |-> {}]
    OBVIOUS
  <2>2. usedStamps' \subseteq Stamps
    BY DEF TypeOK
  <2>3. UNCHANGED <<sets, tmp, current, crashes, req, cache, moved>>
    BY DEF clientVars
  <2>4. QED
    BY <1>1, <2>1, <2>2, <2>3 DEF TypeOK
<1>3. /\ build'.pc = "begin"
      /\ build'.version = <<stamp, d>>
      /\ UNCHANGED <<sets, tmp, current>>
  BY DEF TypeOK
<1>4. current # <<stamp, d>>
  BY <1>1, NoVersionIsNone DEF DirInv, VersionIsFresh
<1>5. VersionIsFresh'
  BY <1>1, <1>3, <1>4 DEF DirInv, VersionIsFresh
<1>6. SetInProgress' /\ CurrentComplete' /\ DirectoryInv'
  BY <1>3 DEF DirInv, SetInProgress, Filling, Filled, CurrentComplete, Complete, DirectoryInv
<1>7. RequestInv' /\ UndisturbedRequest'
  BY ClientsUndisturbed
<1>8. QED
  BY <1>2, <1>5, <1>6, <1>7 DEF DirInv

LEMMA BeginIInv == ASSUME IInv, Begin PROVE IInv'
<1> USE DEF IInv, Begin
<1> DEFINE v == build.version
<1>1. v \in Version
  BY DEF DirInv, VersionIsFresh
<1>2. DOMAIN Content(v) \subseteq Names
  BY <1>1, ContentType
<1>3. TypeOK'
  BY <1>1, <1>2 DEF TypeOK, clientVars, Entries
<1>4. /\ build'.pc = "add" /\ build'.version = v
      /\ build'.todo = DOMAIN Content(v)
      /\ tmp'[v] = {Dir}
      /\ \A w \in Version : tmp'[w] = tmp[w] \/ tmp'[w] = {Dir}
      /\ UNCHANGED <<sets, current>>
  BY <1>1 DEF TypeOK
<1>5. Dir \notin Names
  BY StoreAssumption
<1>6. VersionIsFresh'
  BY <1>4 DEF DirInv, VersionIsFresh
<1>7. SetInProgress'
  BY <1>4, <1>5 DEF SetInProgress, Filling, Filled, Stored
<1>8. CurrentComplete' /\ DirectoryInv'
  BY <1>4, <1>5 DEF DirInv, CurrentComplete, Complete, DirectoryInv
<1>9. RequestInv' /\ UndisturbedRequest'
  BY ClientsUndisturbed
<1>10. QED
  BY <1>3, <1>6, <1>7, <1>8, <1>9 DEF DirInv

\* Files are written in their order, so the first of each body is among them.
LEMMA AddFills ==
    ASSUME build \in [pc : {"add"}, version : Version, todo : SUBSET Names, victims : SUBSET Version],
           tmp \in [Version -> SUBSET Entries], Filling, Add
    PROVE  Filling'
<1> DEFINE v == build.version
<1>1. v \in Version /\ build.pc = "add"
  OBVIOUS
<1>2. PICK n \in build.todo :
        /\ \A m \in build.todo : Position[n] <= Position[m]
        /\ tmp' = [tmp EXCEPT ![v] =
                     IF \E m \in @ \cap Names : Content(v)[m] = Content(v)[n]
                     THEN @ ELSE @ \cup {n}]
        /\ build' = [build EXCEPT !.todo = @ \ {n}]
  BY DEF Add
<1>3. /\ Dir \in tmp[v]
      /\ tmp[v] \cap Names \subseteq DOMAIN Content(v) \ build.todo
      /\ \A m \in DOMAIN Content(v) \ build.todo, k \in build.todo :
            Position[m] <= Position[k]
      /\ build.todo \subseteq DOMAIN Content(v)
      /\ Stored(v) \ build.todo \subseteq tmp[v]
  BY <1>1 DEF Filling
<1>4. DOMAIN Content(v) \subseteq Names /\ n \in Names
  BY <1>1, <1>3, ContentType
<1>5. /\ build'.pc = "add" /\ build'.version = v
      /\ build'.todo = build.todo \ {n}
      /\ tmp'[v] \in {tmp[v], tmp[v] \cup {n}}
  BY <1>1, <1>2
<1>6. n \in Stored(v) => n \in tmp'[v]
  <2>1. SUFFICES ASSUME n \in Stored(v),
                        NEW m \in tmp[v] \cap Names, Content(v)[m] = Content(v)[n]
                 PROVE  FALSE
    BY <1>1, <1>2
  <2>2. m \in DOMAIN Content(v) /\ m \notin build.todo
    BY <1>3
  <2>3. Position[n] <= Position[m] /\ Position[m] <= Position[n]
    BY <1>3, <2>1, <2>2 DEF Stored
  <2>4. m = n
    BY <1>4, <2>3, StoreAssumption
  <2>5. QED
    BY <2>2, <2>4
<1>7. Dir \in tmp'[v]
  BY <1>3, <1>5
<1>8. tmp'[v] \cap Names \subseteq DOMAIN Content(v) \ build'.todo
  BY <1>3, <1>5
<1>9. \A m \in DOMAIN Content(v) \ build'.todo, k \in build'.todo : Position[m] <= Position[k]
  BY <1>2, <1>3, <1>5
<1>10. Stored(v) \ build'.todo \subseteq tmp'[v]
  BY <1>3, <1>5, <1>6
<1>11. QED
  BY <1>3, <1>5, <1>7, <1>8, <1>9, <1>10 DEF Filling, Stored, Content

LEMMA AddIInv == ASSUME IInv, Add PROVE IInv'
<1> USE DEF IInv
<1> DEFINE v == build.version
<1>1. v \in Version /\ build.pc = "add"
  BY DEF Add, DirInv, VersionIsFresh
<1>2. PICK n \in build.todo :
        /\ tmp' = [tmp EXCEPT ![v] =
                     IF \E m \in @ \cap Names : Content(v)[m] = Content(v)[n]
                     THEN @ ELSE @ \cup {n}]
        /\ build' = [build EXCEPT !.todo = @ \ {n}]
  BY DEF Add
<1>3. n \in DOMAIN Content(v) /\ n \in Names
  BY <1>1, ContentType DEF DirInv, SetInProgress, Filling
<1>4. UNCHANGED <<sets, current, usedStamps, crashes, clientVars>>
  BY DEF Add
<1>5. TypeOK'
  BY <1>1, <1>2, <1>3, <1>4 DEF TypeOK, clientVars, Entries
<1>6. /\ build'.pc = "add" /\ build'.version = v
      /\ tmp'[v] \in {tmp[v], tmp[v] \cup {n}}
      /\ \A w \in Version \ {v} : tmp'[w] = tmp[w]
  BY <1>1, <1>2 DEF TypeOK
<1>7. VersionIsFresh'
  BY <1>4, <1>6, <1>1 DEF DirInv, VersionIsFresh
<1>8. Filling'
  BY <1>1, AddFills DEF TypeOK, DirInv, SetInProgress
<1>9. SetInProgress'
  BY <1>6, <1>8 DEF SetInProgress, Filled
<1>10. CurrentComplete' /\ DirectoryInv'
  BY <1>3, <1>4, <1>6 DEF DirInv, CurrentComplete, Complete, DirectoryInv
<1>11. RequestInv' /\ UndisturbedRequest'
  BY <1>4, ClientsUndisturbed
<1>12. QED
  BY <1>5, <1>7, <1>9, <1>10, <1>11 DEF DirInv

LEMMA WriteManifestIInv == ASSUME IInv, WriteManifest PROVE IInv'
<1> USE DEF IInv, WriteManifest
<1> DEFINE v == build.version
<1>1. v \in Version
  BY DEF DirInv, VersionIsFresh
<1>2. TypeOK'
  BY <1>1 DEF TypeOK, clientVars, Entries
<1>3. /\ build'.pc = "rename" /\ build'.version = v
      /\ tmp'[v] = tmp[v] \cup {ManifestName}
      /\ \A w \in Version \ {v} : tmp'[w] = tmp[w]
      /\ UNCHANGED <<sets, current, usedStamps>>
  BY <1>1 DEF TypeOK
<1>4. VersionIsFresh'
  BY <1>1, <1>3 DEF DirInv, VersionIsFresh
<1>5. SetInProgress'
  <2>1. Stored(v) \cup {Dir} \subseteq tmp[v]
    BY DEF DirInv, SetInProgress, Filling, Filled
  <2>2. QED
    BY <1>3, <2>1 DEF SetInProgress, Filling, Filled, Stored, Content
<1>6. CurrentComplete' /\ DirectoryInv'
  <2>1. ManifestName \notin Names
    BY StoreAssumption
  <2>2. QED
    BY <1>3, <2>1 DEF DirInv, CurrentComplete, Complete, DirectoryInv
<1>7. RequestInv' /\ UndisturbedRequest'
  BY ClientsUndisturbed
<1>8. QED
  BY <1>2, <1>4, <1>5, <1>6, <1>7 DEF DirInv

LEMMA RenameIInv == ASSUME IInv, Rename PROVE IInv'
<1> USE DEF IInv, Rename
<1> DEFINE v == build.version
<1>1. v \in Version /\ v # current
  BY DEF DirInv, VersionIsFresh
<1>2. TypeOK'
  BY <1>1 DEF TypeOK, clientVars
<1>3. /\ build'.pc = "setCurrent" /\ build'.version = v
      /\ sets'[v] = tmp[v] /\ tmp'[v] = {}
      /\ \A w \in Version \ {v} : sets'[w] = sets[w] /\ tmp'[w] = tmp[w]
      /\ UNCHANGED <<current, usedStamps>>
  BY <1>1 DEF TypeOK
<1>4. VersionIsFresh'
  BY <1>1, <1>3 DEF DirInv, VersionIsFresh
<1>5. SetInProgress'
  <2>1. Stored(v) \cup {ManifestName, Dir} \subseteq tmp[v]
    BY DEF DirInv, SetInProgress, Filling, Filled
  <2>2. QED
    BY <1>3, <2>1 DEF SetInProgress, Filling, Filled, Complete, Stored, Content
<1>6. CurrentComplete'
  <2>1. SUFFICES ASSUME current # NoVersion PROVE Complete(current)'
    BY <1>3 DEF CurrentComplete
  <2>2. current \in Version /\ sets'[current] = sets[current]
    BY <1>1, <1>3, <2>1 DEF TypeOK
  <2>3. QED
    BY <1>3, <2>1, <2>2 DEF DirInv, CurrentComplete, Complete, Stored, Content
<1>7. DirectoryInv'
  BY <1>1, <1>3 DEF DirInv, DirectoryInv, Content
<1>8. RequestInv' /\ UndisturbedRequest'
  BY ClientsUndisturbed
<1>9. QED
  BY <1>2, <1>4, <1>5, <1>6, <1>7, <1>8 DEF DirInv

LEMMA SetCurrentIInv == ASSUME IInv, SetCurrent PROVE IInv'
<1> USE DEF IInv, SetCurrent
<1> DEFINE v == build.version
<1>1. v \in Version /\ Complete(v)
  BY DEF DirInv, VersionIsFresh, SetInProgress, Filling, Filled
<1>2. TypeOK'
  BY <1>1 DEF TypeOK
<1>3. /\ build'.pc = "prune" /\ build'.version = v
      /\ current' = v /\ current' # NoVersion
      /\ \A c \in Clients : moved'[c]
      /\ UNCHANGED <<sets, tmp, usedStamps, req>>
  BY <1>1, NoVersionIsNone DEF TypeOK
<1>4. VersionIsFresh'
  BY <1>1, <1>3 DEF DirInv, VersionIsFresh
<1>5. SetInProgress'
  BY <1>3 DEF SetInProgress, Filling, Filled
<1>6. CurrentComplete' /\ DirectoryInv'
  BY <1>1, <1>3 DEF DirInv, CurrentComplete, Complete, Stored, Content, DirectoryInv
<1>7. RequestInv' /\ UndisturbedRequest'
  BY <1>3 DEF RequestInv, UndisturbedRequest
<1>8. QED
  BY <1>2, <1>4, <1>5, <1>6, <1>7 DEF DirInv

\* Prune never chooses the set the pointer names.
LEMMA ListVictimsIInv == ASSUME IInv, ListVictims PROVE IInv'
<1> USE DEF IInv, ListVictims
<1>1. Victims \subseteq Version /\ current \notin Victims
  BY DEF Victims, Versions
<1>2. TypeOK'
  BY <1>1 DEF TypeOK, clientVars
<1>3. /\ build'.pc = "remove" /\ build'.version = build.version
      /\ build'.victims = Victims
      /\ UNCHANGED <<sets, tmp, current, usedStamps>>
  BY DEF TypeOK
<1>4. DirInv'
  BY <1>1, <1>3 DEF DirInv, VersionIsFresh, SetInProgress, Filling, Filled, CurrentComplete, Complete,
                    Stored, Content, DirectoryInv
<1>5. RequestInv' /\ UndisturbedRequest'
  BY ClientsUndisturbed
<1>6. QED
  BY <1>2, <1>4, <1>5

LEMMA UnlinkIInv == ASSUME IInv, Unlink PROVE IInv'
<1> USE DEF IInv
<1>1. PICK v \in build.victims, e \in Entries :
        /\ sets' = [sets EXCEPT ![v] = @ \ {e}]
        /\ build' = [build EXCEPT !.victims = IF e = Dir THEN @ \ {v} ELSE @]
  BY DEF Unlink
<1>2. /\ build.pc = "remove" /\ UNCHANGED <<tmp, current, usedStamps, crashes, clientVars>>
      /\ v \in Version /\ v # current
  BY DEF Unlink, TypeOK, DirInv, SetInProgress, Filling, Filled
<1>3. TypeOK'
  BY <1>1, <1>2 DEF TypeOK, clientVars
<1>4. /\ build'.pc = "remove" /\ build'.version = build.version
      /\ build'.victims \subseteq build.victims
      /\ sets'[v] \subseteq sets[v]
      /\ \A w \in Version \ {v} : sets'[w] = sets[w]
  BY <1>1, <1>2 DEF TypeOK
<1>5. VersionIsFresh' /\ SetInProgress'
  BY <1>2, <1>4 DEF DirInv, VersionIsFresh, SetInProgress, Filling, Filled
<1>6. CurrentComplete'
  <2>1. SUFFICES ASSUME current # NoVersion PROVE Complete(current)'
    BY <1>2 DEF CurrentComplete
  <2>2. sets'[current] = sets[current]
    BY <1>2, <1>4, <2>1 DEF TypeOK
  <2>3. QED
    BY <1>2, <2>1, <2>2 DEF DirInv, CurrentComplete, Complete, Stored, Content
<1>7. DirectoryInv'
  BY <1>2, <1>4 DEF DirInv, DirectoryInv, Content
<1>8. RequestInv' /\ UndisturbedRequest'
  BY <1>2, ClientsUndisturbed
<1>9. QED
  BY <1>3, <1>5, <1>6, <1>7, <1>8 DEF DirInv

\* The three ways a publication ends; a failed one drops its building directory.
LEMMA EndIInv ==
    ASSUME IInv, FinishPublish \/ FailPublish \/ FailPrune
    PROVE  IInv'
<1> USE DEF IInv
<1>1. /\ build' = Idle /\ UNCHANGED <<sets, current, usedStamps, crashes, clientVars>>
      /\ tmp' = tmp \/ tmp' = [tmp EXCEPT ![build.version] = {}]
  BY DEF FinishPublish, FailPublish, FailPrune
<1>2. TypeOK'
  BY <1>1 DEF TypeOK, Idle, clientVars
<1>3. build'.pc = "idle" /\ \A w \in Version : tmp'[w] \subseteq tmp[w]
  BY <1>1 DEF TypeOK, Idle
<1>4. DirInv'
  BY <1>1, <1>3 DEF DirInv, VersionIsFresh, SetInProgress, Filling, Filled, CurrentComplete, Complete,
                    Stored, Content, DirectoryInv
<1>5. RequestInv' /\ UndisturbedRequest'
  BY <1>1, ClientsUndisturbed
<1>6. QED
  BY <1>2, <1>4, <1>5

-----------------------------------------------------------------------------
(* The steps of the server, and a crash.                                   *)

LEMMA DirUndisturbed ==
    ASSUME IInv, UNCHANGED <<sets, tmp, current, build, usedStamps>>
    PROVE  DirInv'
BY DEF IInv, DirInv, VersionIsFresh, SetInProgress, Filling, Filled, CurrentComplete, Complete, Stored,
       Content, DirectoryInv

LEMMA RequestIInv == ASSUME IInv, NEW c \in Clients, Request(c) PROVE IInv'
<1> USE DEF IInv
<1>0. /\ UNCHANGED <<sets, tmp, current, build, usedStamps, crashes, cache>>
      /\ moved' = [moved EXCEPT ![c] = FALSE]
      /\ \E r \in RequestType :
            /\ req' = [req EXCEPT ![c] = r]
            /\ \/ current = NoVersion /\ r.pc = "idle" /\ r.status = 503
               \/ /\ current # NoVersion /\ r.pc = "manifest"
                  /\ r.manifest = current /\ r.status = 0
  <2>1. [NoRequest EXCEPT !.status = 503] \in RequestType
    BY DEF NoRequest, RequestType
  <2>2. current # NoVersion =>
          [pc |-> "manifest", manifest |-> current, version |-> NoVersion, status |-> 0]
             \in RequestType
    BY DEF RequestType, TypeOK
  <2>3. QED
    BY <2>1, <2>2 DEF Request, Answer, Reading, NoRequest, buildVars
<1>1. TypeOK'
  BY <1>0 DEF TypeOK
<1>2. DirInv'
  BY <1>0, DirUndisturbed
<1>3. current # NoVersion => current \in Version
  BY DEF TypeOK
<1>4. /\ req'[c].pc \in {"idle", "manifest"} /\ ~moved'[c]
      /\ req'[c].pc = "idle" => current = NoVersion /\ req'[c].status = 503
      /\ req'[c].pc = "manifest" =>
            current # NoVersion /\ req'[c].manifest = current /\ req'[c].status = 0
      /\ \A b \in Clients \ {c} : req'[b] = req[b] /\ moved'[b] = moved[b]
      /\ UNCHANGED <<current, cache>>
  BY <1>0 DEF TypeOK
<1>5. RequestInv'
  BY <1>3, <1>4 DEF RequestInv, Content
<1>6. UndisturbedRequest'
  BY <1>4 DEF UndisturbedRequest, UndisturbedAnswer, Content
<1>7. QED
  BY <1>1, <1>2, <1>5, <1>6

\* 503 for a missing manifest needs a disturbed request: the current set has one.
LEMMA ReadManifestIInv == ASSUME IInv, NEW c \in Clients, ReadManifest(c) PROVE IInv'
<1> USE DEF IInv
<1>0. /\ UNCHANGED <<sets, tmp, current, build, usedStamps, crashes, cache, moved>>
      /\ req[c].pc = "manifest"
      /\ \E r \in RequestType :
            /\ req' = [req EXCEPT ![c] = r]
            /\ \/ r.pc = "resolve" /\ r.manifest = req[c].manifest /\ r.status = 0
               \/ /\ ManifestName \notin sets[req[c].manifest]
                  /\ r.pc = "idle" /\ r.status = 503
  <2>1. [NoRequest EXCEPT !.status = 503] \in RequestType
    BY DEF NoRequest, RequestType
  <2>2. [pc |-> "resolve", manifest |-> req[c].manifest, version |-> NoVersion,
         status |-> 0] \in RequestType
    BY DEF TypeOK, RequestType
  <2>3. QED
    BY <2>1, <2>2 DEF ReadManifest, Answer, Reading, NoRequest, buildVars
<1>1. TypeOK'
  BY <1>0 DEF TypeOK
<1>2. DirInv'
  BY <1>0, DirUndisturbed
<1>3. ~moved[c] => ManifestName \in sets[req[c].manifest]
  BY <1>0 DEF DirInv, CurrentComplete, Complete, RequestInv
<1>4. /\ \/ /\ req'[c].pc = "resolve" /\ req'[c].manifest = req[c].manifest
            /\ req'[c].status = 0
         \/ /\ moved[c] /\ req'[c].pc = "idle" /\ req'[c].status = 503
      /\ \A b \in Clients \ {c} : req'[b] = req[b]
      /\ UNCHANGED <<current, cache, moved>>
  BY <1>0, <1>3 DEF TypeOK
<1>5. RequestInv'
  BY <1>0, <1>4 DEF RequestInv, Content, TypeOK, RequestType
<1>6. UndisturbedRequest'
  BY <1>0, <1>4 DEF UndisturbedRequest, UndisturbedAnswer, Content, RequestInv, TypeOK, RequestType
<1>7. QED
  BY <1>1, <1>2, <1>5, <1>6

LEMMA ResolveIInv == ASSUME IInv, NEW c \in Clients, Resolve(c) PROVE IInv'
<1> USE DEF IInv
<1>1. current \in Version /\ current # NoVersion
  BY DEF RequestInv, TypeOK, Resolve
<1>0. /\ UNCHANGED <<sets, tmp, current, build, usedStamps, crashes, cache, moved>>
      /\ req[c].pc = "resolve"
      /\ \E r \in RequestType :
            /\ req' = [req EXCEPT ![c] = r]
            /\ \/ /\ Polls[c] \in DOMAIN Content(req[c].manifest)
                  /\ r.pc = "open" /\ r.version = current
                  /\ r.manifest = req[c].manifest /\ r.status = 0
               \/ /\ Polls[c] \notin DOMAIN Content(req[c].manifest)
                  /\ r.pc = "idle" /\ r.status = 404
  <2>1. [NoRequest EXCEPT !.status = 404] \in RequestType
    BY DEF NoRequest, RequestType
  <2>2. [pc |-> "open", manifest |-> req[c].manifest, version |-> current, status |-> 0]
          \in RequestType
    BY <1>1 DEF TypeOK, RequestType
  <2>3. QED
    BY <2>1, <2>2 DEF Resolve, Answer, Reading, NoRequest, buildVars
<1>2. TypeOK'
  BY <1>0 DEF TypeOK
<1>3. DirInv'
  BY <1>0, DirUndisturbed
<1>4. /\ \/ /\ Polls[c] \in DOMAIN Content(req[c].manifest)
            /\ req'[c].pc = "open" /\ req'[c].version = current
            /\ req'[c].manifest = req[c].manifest /\ req'[c].status = 0
         \/ /\ Polls[c] \notin DOMAIN Content(req[c].manifest)
            /\ req'[c].pc = "idle" /\ req'[c].status = 404
      /\ \A b \in Clients \ {c} : req'[b] = req[b]
      /\ UNCHANGED <<current, cache, moved>>
  BY <1>0 DEF TypeOK
<1>5. RequestInv'
  BY <1>0, <1>1, <1>4 DEF RequestInv, Content
<1>6. UndisturbedRequest'
  BY <1>0, <1>1, <1>4 DEF UndisturbedRequest, UndisturbedAnswer, Content, RequestInv
<1>7. QED
  BY <1>2, <1>3, <1>5, <1>6

\* An undisturbed request opens the file its own manifest names, in its own set.
LEMMA OpenIInv == ASSUME IInv, NEW c \in Clients, Open(c) PROVE IInv'
<1> USE DEF IInv
<1> DEFINE m == req[c].manifest
           v == req[c].version
           etag == Content(m)[Polls[c]]
           file == FileOf(m, Polls[c])
<1>1. /\ req[c].pc = "open" /\ req[c].status = 0
      /\ m \in Version /\ v \in Version /\ Polls[c] \in DOMAIN Content(m)
      /\ ~moved[c] => m = current /\ v = current /\ current # NoVersion
  BY DEF Open, RequestInv
<1>2. file \in Stored(m) /\ Content(m)[file] = etag /\ file \in Names
  BY <1>1, FileOfIsStored, ContentType DEF Stored
<1>3. etag \in Bodies /\ (file \in sets[v] => Content(v)[file] \in Bodies)
  BY <1>1, <1>2, ContentType DEF DirInv, DirectoryInv
<1>4. /\ UNCHANGED <<sets, tmp, current, buildVars, crashes, moved>>
      /\ \/ /\ file \notin sets[v] /\ Answer(c, 503) /\ UNCHANGED cache
         \/ /\ file \in sets[v] /\ cache[c].etag = etag
            /\ Answer(c, 304) /\ UNCHANGED cache
         \/ /\ file \in sets[v] /\ Answer(c, 200)
            /\ cache' = [cache EXCEPT ![c] = [etag |-> etag, body |-> Content(v)[file]]]
  BY DEF Open
<1>5. TypeOK'
  <2>1. \A status \in {200, 304, 503} : [NoRequest EXCEPT !.status = status] \in RequestType
    BY DEF NoRequest, RequestType
  <2>2. PICK r \in RequestType : req' = [req EXCEPT ![c] = r]
    BY <1>4, <2>1 DEF Answer
  <2>5. req' \in [Clients -> RequestType]
    BY <2>2 DEF TypeOK
  <2>3. cache' \in [Clients -> [etag : Bodies \cup {NoBody}, body : Bodies \cup {NoBody}]]
    BY <1>3, <1>4 DEF TypeOK
  <2>4. QED
    BY <1>4, <2>5, <2>3 DEF TypeOK, buildVars
<1>6. DirInv'
  BY <1>4, DirUndisturbed DEF buildVars
<1>7. ~moved[c] => file \in sets[v]
  BY <1>1, <1>2 DEF DirInv, CurrentComplete, Complete
<1>8. /\ req'[c].pc = "idle"
      /\ \A b \in Clients \ {c} : req'[b] = req[b] /\ cache'[b] = cache[b]
      /\ UNCHANGED <<current, moved>>
  BY <1>4 DEF TypeOK, Answer, NoRequest
<1>9. RequestInv'
  BY <1>8 DEF RequestInv, Content
<1>10. ~moved[c] =>
         \/ req'[c].status = 200 /\ cache'[c] = [etag |-> etag, body |-> etag]
         \/ req'[c].status = 304 /\ cache'[c].etag = etag
  BY <1>1, <1>2, <1>4, <1>7 DEF TypeOK, Answer, NoRequest
<1>11. ~moved[c] => UndisturbedAnswer(c)'
  BY <1>1, <1>8, <1>10 DEF UndisturbedAnswer, Content
<1>12. UndisturbedRequest'
  BY <1>8, <1>11 DEF UndisturbedRequest, UndisturbedAnswer, Content
<1>13. QED
  BY <1>5, <1>6, <1>9, <1>12

LEMMA CrashIInv == ASSUME IInv, Crash PROVE IInv'
<1> USE DEF IInv, Crash, Idle, NoRequest, RequestType
<1>1. TypeOK'
  BY StoreAssumption DEF TypeOK
<1>2. DirInv'
  BY DEF DirInv, VersionIsFresh, SetInProgress, Filling, Filled, CurrentComplete, Complete, Stored,
         Content, DirectoryInv
<1>3. RequestInv' /\ UndisturbedRequest'
  BY DEF RequestInv, UndisturbedRequest
<1>4. QED
  BY <1>1, <1>2, <1>3

-----------------------------------------------------------------------------
LEMMA StepIInv == IInv /\ [Next]_vars => IInv'
<1> SUFFICES ASSUME IInv, [Next]_vars PROVE IInv'
  OBVIOUS
<1>1. CASE \E stamp \in Stamps, d \in Digests : StartPublish(stamp, d)
  BY <1>1, StartPublishIInv
<1>2. CASE Publishing
  BY <1>2, BeginIInv, AddIInv, WriteManifestIInv, RenameIInv, SetCurrentIInv,
     ListVictimsIInv, UnlinkIInv, EndIInv DEF Publishing
<1>3. CASE FailPublish \/ FailPrune
  BY <1>3, EndIInv
<1>4. CASE \E c \in Clients : Serve(c)
  BY <1>4, RequestIInv, ReadManifestIInv, ResolveIInv, OpenIInv DEF Serve
<1>5. CASE Crash
  BY <1>5, CrashIInv
<1>6. CASE UNCHANGED vars
  <2>1. TypeOK'
    BY <1>6 DEF IInv, TypeOK, vars
  <2>2. DirInv'
    BY <1>6, DirUndisturbed DEF vars
  <2>3. RequestInv' /\ UndisturbedRequest'
    BY <1>6, ClientsUndisturbed DEF vars, clientVars
  <2>4. QED
    BY <2>1, <2>2, <2>3 DEF IInv
<1>7. QED
  BY <1>1, <1>2, <1>3, <1>4, <1>5, <1>6 DEF Next

\* The inductive invariant holds throughout.
LEMMA Invariance == Spec => []IInv
BY InitIInv, StepIInv, PTL DEF Spec

\* Every variable stays in its type, whatever fails or crashes.
THEOREM TypeCorrect == Spec => []TypeOK
<1>1. IInv => TypeOK
  BY DEF IInv
<1>2. QED
  BY <1>1, Invariance, PTL

\* The pointer only ever names a set that is all there.
THEOREM CurrentIsComplete == Spec => []CurrentComplete
<1>1. IInv => CurrentComplete
  BY DEF IInv, DirInv
<1>2. QED
  BY <1>1, Invariance, PTL

\* A request that meets no change of the pointer is answered from one whole set.
THEOREM UndisturbedRequestsAreRight == Spec => []UndisturbedRequest
<1>1. IInv => UndisturbedRequest
  BY DEF IInv
<1>2. QED
  BY <1>1, Invariance, PTL

-----------------------------------------------------------------------------
(* Refinement of AtomicPublish.                                            *)

\* While the pointer and the set it names stay put, so does what it stands for.
LEMMA PublishedUnchanged ==
    ASSUME IInv, IInv', UNCHANGED current
    PROVE  UNCHANGED Published
<1>1. CASE current = NoVersion
  BY <1>1 DEF Published
<1>2. CASE current # NoVersion
  <2>1. current \in Version
    BY <1>2 DEF IInv, TypeOK
  <2>2. Published = Content(current)
    BY <2>1, PublishedIsContent DEF IInv, DirInv
  <2>3. Complete(current)'
    BY <1>2 DEF IInv, DirInv, CurrentComplete
  <2>4. \A n \in DOMAIN Content(current) :
           {ManifestName, FileOf(current, n)} \subseteq sets'[current]
    BY <2>1, <2>3, FileOfIsStored DEF Complete, Stored, Content
  <2>5. Published' = [n \in DOMAIN Content(current) |-> Content(current)[n]]
    BY <1>2, <2>4 DEF Published, FileOf, Stored, Content
  <2>6. QED
    BY <2>1, <2>2, <2>5, ContentType
<1>3. QED
  BY <1>1, <1>2

LEMMA OfferedContent ==
    ASSUME IInv, build.pc # "idle"
    PROVE  Offered = Content(build.version)
           /\ Offered \in {ContentOf[d] : d \in Digests} /\ Offered # NoContent
<1>1. build.version \in Version
  BY DEF IInv, DirInv, VersionIsFresh
<1>2. DOMAIN NoContent = {}
  BY DEF NoContent
<1>3. QED
  BY <1>1, <1>2, ContentType DEF Offered

LEMMA InitRefines == Init => AP!Init
BY DEF Init, Idle, AP!Init, Offered, Published

LEMMA StepRefines ==
    ASSUME IInv, IInv', [Next]_vars
    PROVE  [AP!Next]_AP!vars
<1> USE DEF AP!Next, AP!vars
<1>1. CASE \E stamp \in Stamps, d \in Digests : StartPublish(stamp, d)
  <2>1. PICK stamp \in Stamps, d \in Digests : StartPublish(stamp, d)
    BY <1>1
  <2>2. build'.pc = "begin" /\ build'.version = <<stamp, d>> /\ build.pc = "idle"
    BY <2>1 DEF StartPublish, Idle
  <2>3. Offered = NoContent /\ Offered' = ContentOf[d]
    BY <2>2 DEF Offered, Content
  <2>4. UNCHANGED Published
    BY <2>1, PublishedUnchanged DEF StartPublish
  <2>5. AP!Offer(ContentOf[d])
    BY <2>3, <2>4 DEF AP!Offer
  <2>6. QED
    BY <2>5
<1>2. CASE SetCurrent
  <2>1. /\ build.pc = "setCurrent" /\ build'.pc = "prune"
        /\ build'.version = build.version /\ current' = build.version
    BY <1>2 DEF SetCurrent, IInv, TypeOK
  <2>2. /\ Offered = Content(build.version) /\ Offered # NoContent
        /\ UNCHANGED Offered
    BY <2>1, OfferedContent DEF Offered, Content
  <2>3. build.version \in Version /\ Complete(build.version)
    BY <2>1 DEF IInv, DirInv, VersionIsFresh, SetInProgress, Filling, Filled
  <2>4. /\ current' # NoVersion
        /\ \A n \in DOMAIN Content(current') :
              {ManifestName, FileOf(current', n)} \subseteq sets'[current']
    BY <1>2, <2>1, <2>3, FileOfIsStored, NoVersionIsNone DEF Complete, SetCurrent
  <2>5. Published' = [n \in DOMAIN Content(current') |-> Content(current')[n]]
    BY <2>4 DEF Published, FileOf, Stored, Content
  <2>6. Published' = Offered
    BY <2>1, <2>2, <2>3, <2>5, ContentType
  <2>7. QED
    BY <2>2, <2>6 DEF AP!Publish
<1>3. CASE FinishPublish \/ FailPublish \/ FailPrune \/ Crash
  <2>1. build'.pc = "idle" /\ UNCHANGED current
    BY <1>3 DEF FinishPublish, FailPublish, FailPrune, Crash, Idle
  <2>2. Offered' = NoContent
    BY <2>1 DEF Offered, NoContent
  <2>3. QED
    BY <2>1, <2>2, PublishedUnchanged DEF AP!Withdraw
<1>4. CASE Begin \/ Add \/ WriteManifest \/ Rename \/ ListVictims \/ Unlink
  <2>1. /\ build.pc # "idle" /\ build'.pc # "idle"
        /\ UNCHANGED <<current, build.version>>
    BY <1>4 DEF Begin, Add, WriteManifest, Rename, ListVictims, Unlink, IInv, TypeOK
  <2>2. UNCHANGED Offered
    BY <2>1 DEF Offered, Content
  <2>3. QED
    BY <2>1, <2>2, PublishedUnchanged
<1>5. CASE (\E c \in Clients : Serve(c)) \/ UNCHANGED vars
  <2>1. UNCHANGED <<current, build>>
    BY <1>5 DEF Serve, Request, ReadManifest, Resolve, Open, buildVars, vars
  <2>2. UNCHANGED Offered
    BY <2>1 DEF Offered, Content
  <2>3. QED
    BY <2>1, <2>2, PublishedUnchanged
<1>6. QED
  BY <1>1, <1>2, <1>3, <1>4, <1>5 DEF Next, Publishing

\* Publication through the directory is atomic: clients see whole sets only.
THEOREM PublicationIsAtomic == Spec => PublishIsAtomic
<1>1. Init => AP!Init
  BY InitRefines
<1>2. IInv /\ IInv' /\ [Next]_vars => [AP!Next]_AP!vars
  BY StepRefines
<1>3. QED
  BY <1>1, <1>2, Invariance, PTL DEF Spec, PublishIsAtomic, AP!Spec

-----------------------------------------------------------------------------
(* What Prune leaves, also next to an operator who moves the pointer       *)
(* (RollbackSpec), where CurrentComplete does not hold.  A set that is not *)
(* whole, or is about to be removed, has Keep whole ones that are newer    *)
(* (KeepInv): the sets newer than a victim are whole, or have such ones    *)
(* above them, and removing one of those leaves the ones above it.  So     *)
(* nothing depends on the order of removal, on which prunes ran to their   *)
(* end, or on what the pointer names.                                      *)

BuildType ==
    /\ sets \in [Version -> SUBSET Entries]
    /\ tmp \in [Version -> SUBSET Entries]
    /\ build \in [pc : {"idle", "begin", "add", "rename", "setCurrent", "prune", "remove"},
                  version : Version \cup {NoVersion},
                  todo : SUBSET Names, victims : SUBSET Version]
    /\ build.pc # "idle" => build.version \in Version

WholeNewer(v) == {w \in Version : Complete(w) /\ Newer(w, v)}
NewerVersions(v) == {w \in Versions : Newer(w, v)}

KeepInv ==
    /\ IsFiniteSet(Versions)
    /\ \A v \in Versions : ~Complete(v) => Cardinality(WholeNewer(v)) >= Keep
    /\ build.pc = "remove" => \A v \in build.victims : Cardinality(WholeNewer(v)) >= Keep

\* What Prune keeps are the newest sets and the current one.
BoundInv ==
    build.pc = "remove" =>
        \A v \in Versions \ ({current} \cup build.victims) : Cardinality(NewerVersions(v)) < Keep

PruneInv == BuildType /\ Filling /\ Filled /\ KeepInv /\ BoundInv

LEMMA NewerOrder ==
    /\ \A v \in Version : ~Newer(v, v)
    /\ \A u, v, w \in Version : Newer(u, v) /\ Newer(v, w) => Newer(u, w)
  <1>1. \A v \in Version : v[1] \in Nat /\ v[2] \in Nat  BY StoreAssumption DEF Version
  <1> QED  BY <1>1 DEF Newer

LEMMA WholeIsThere ==
    /\ {v \in Version : Complete(v)} \subseteq Versions
    /\ \A v \in Version : WholeNewer(v) \subseteq {w \in Version : Complete(w)}
    /\ \A v, w \in Version : w \in WholeNewer(v) => WholeNewer(w) \subseteq WholeNewer(v) \ {w}
    /\ \A v, w \in Version : Newer(w, v) => WholeNewer(w) \subseteq WholeNewer(v)
  BY NewerOrder DEF WholeNewer, Complete, Versions

\* More sets are there, and more than enough.
LEMMA NoFewer ==
    ASSUME NEW S, NEW T, S \subseteq T, IsFiniteSet(T)
    PROVE  /\ IsFiniteSet(S) /\ Cardinality(S) \in Nat /\ Cardinality(T) \in Nat
           /\ Cardinality(S) <= Cardinality(T)
  BY FS_Subset, FS_CardinalityType

\* As long as no whole set is touched, the newer ones only become more.
LEMMA WholeStays ==
    ASSUME KeepInv, IsFiniteSet(Versions'), \A v \in Version : Complete(v) => Complete(v)'
    PROVE  /\ \A v \in Version : Cardinality(WholeNewer(v)) >= Keep => Cardinality(WholeNewer(v)') >= Keep
           /\ HasRollbackTarget => HasRollbackTarget'
  <1> DEFINE Whole == {v \in Version : Complete(v)}
  <1>1. Whole' \subseteq Versions'  BY DEF Complete, Versions, Stored, Content
  <1>2. IsFiniteSet(Whole')  BY <1>1, NoFewer
  <1>3. Keep \in Nat  BY StoreAssumption
  <1>4. ASSUME NEW v \in Version, Cardinality(WholeNewer(v)) >= Keep
        PROVE  Cardinality(WholeNewer(v)') >= Keep
    <2>1. WholeNewer(v) \subseteq WholeNewer(v)'  BY DEF WholeNewer, Newer
    <2>2. IsFiniteSet(WholeNewer(v)')
      <3>1. WholeNewer(v)' \subseteq Whole'  BY DEF WholeNewer
      <3> QED  BY <1>2, <3>1, NoFewer
    <2> QED  BY <1>3, <1>4, <2>1, <2>2, NoFewer
  <1>5. HasRollbackTarget => HasRollbackTarget'
    <2>1. Whole \subseteq Whole'  OBVIOUS
    <2> QED  BY <1>2, <2>1, NoFewer DEF HasRollbackTarget
  <1> QED  BY <1>4, <1>5

LEMMA InitPruneInv == Init => PruneInv
  <1> SUFFICES ASSUME Init PROVE PruneInv
    OBVIOUS
  <1>1. Versions = {}  BY DEF Init, Versions
  <1>2. BuildType  BY DEF Init, Idle, BuildType
  <1>3. Filling /\ Filled  BY DEF Init, Idle, Filling, Filled
  <1>4. KeepInv  BY <1>1, FS_EmptySet DEF KeepInv, Init, Idle
  <1> QED  BY <1>2, <1>3, <1>4 DEF PruneInv, BoundInv, Init, Idle

\* A step that leaves the sets, and is not the one in which Prune chooses.
LEMMA SetsUndisturbed ==
    ASSUME KeepInv, UNCHANGED sets,
           build'.pc = "remove" => build.pc = "remove" /\ build'.victims = build.victims
    PROVE  KeepInv'
  <1>1. \A v : Complete(v)' = Complete(v) /\ WholeNewer(v)' = WholeNewer(v)
    BY DEF Complete, WholeNewer, Stored, Content, Newer
  <1>2. Versions' = Versions  BY DEF Versions
  <1> QED  BY <1>1, <1>2 DEF KeepInv

LEMMA BoundUndisturbed ==
    ASSUME BoundInv, UNCHANGED sets,
           build'.pc = "remove" => build.pc = "remove" /\ build'.victims = build.victims /\ current' = current
    PROVE  BoundInv'
  <1>1. \A v : NewerVersions(v)' = NewerVersions(v)  BY DEF NewerVersions, Versions, Newer
  <1>2. Versions' = Versions  BY DEF Versions
  <1> QED  BY <1>1, <1>2 DEF BoundInv

\* A step that leaves the directory and the build alone.
LEMMA QuietPruneInv ==
    ASSUME PruneInv, UNCHANGED <<sets, tmp, current, build>>
    PROVE  PruneInv' /\ (HasRollbackTarget => HasRollbackTarget')
  <1>1. BuildType' /\ Filling' /\ Filled'
    BY DEF PruneInv, BuildType, Filling, Filled, Stored, Content
  <1>2. KeepInv' /\ BoundInv'  BY SetsUndisturbed, BoundUndisturbed DEF PruneInv
  <1>3. HasRollbackTarget = HasRollbackTarget'  BY DEF HasRollbackTarget, Complete, Stored, Content
  <1> QED  BY <1>1, <1>2, <1>3 DEF PruneInv

\* The steps of a publication that leave the sets alone.
LEMMA BuildingPruneInv ==
    ASSUME PruneInv,
           \/ \E stamp \in Stamps, d \in Digests : StartPublish(stamp, d)
           \/ Begin \/ Add \/ WriteManifest \/ SetCurrent
           \/ FinishPublish \/ FailPublish \/ FailPrune \/ Crash
           \/ \E v \in Version : Rollback(v)
    PROVE  PruneInv' /\ (HasRollbackTarget => HasRollbackTarget')
  <1> DEFINE v == build.version
  <1>1. BuildType  BY DEF PruneInv
  <1>2. Dir \notin Names /\ Dir # ManifestName  BY StoreAssumption DEF Dir, ManifestName
  <1>3. UNCHANGED sets /\ build'.pc # "remove"
    <2>1. CASE \E stamp \in Stamps, d \in Digests : StartPublish(stamp, d)
      BY <2>1 DEF StartPublish, Idle
    <2>2. CASE Begin \/ Add \/ WriteManifest \/ SetCurrent
      BY <1>1, <2>2 DEF Begin, Add, WriteManifest, SetCurrent, BuildType
    <2>3. CASE FinishPublish \/ FailPublish \/ FailPrune \/ Crash
      BY <2>3 DEF FinishPublish, FailPublish, FailPrune, Crash, Idle
    <2>4. CASE \E w \in Version : Rollback(w)
      BY <2>4 DEF Rollback, buildVars
    <2> QED  BY <2>1, <2>2, <2>3, <2>4
  <1>4. BuildType' /\ Filling' /\ Filled'
    <2>1. CASE \E stamp \in Stamps, d \in Digests : StartPublish(stamp, d)
      <3>1. PICK stamp \in Stamps, d \in Digests : StartPublish(stamp, d)  BY <2>1
      <3>2. <<stamp, d>> \in Version  BY DEF Version
      <3> QED  BY <1>1, <3>1, <3>2 DEF StartPublish, BuildType, Filling, Filled, Idle
    <2>2. CASE Begin
      <3>1. v \in Version /\ DOMAIN Content(v) \subseteq Names
        BY <1>1, <2>2, ContentType DEF BuildType, Begin
      <3>2. BuildType'  BY <1>1, <2>2, <3>1 DEF BuildType, Begin, Entries
      <3>3. build'.pc = "add" /\ build'.version = v /\ build'.todo = DOMAIN Content(v) /\ tmp'[v] = {Dir}
        BY <1>1, <2>2, <3>1 DEF BuildType, Begin
      <3> QED  BY <1>2, <3>2, <3>3 DEF Filling, Filled, Stored, Content
    <2>3. CASE Add
      <3>1. build.pc = "add" /\ v \in Version  BY <1>1, <2>3 DEF BuildType, Add
      <3>2. build \in [pc : {"add"}, version : Version, todo : SUBSET Names, victims : SUBSET Version]
        BY <1>1, <3>1 DEF BuildType
      <3>3. Filling'  BY <1>1, <2>3, <3>2, AddFills DEF PruneInv, BuildType
      <3>4. PICK n \in build.todo :
               /\ tmp' = [tmp EXCEPT ![v] =
                     IF \E m \in @ \cap Names : Content(v)[m] = Content(v)[n] THEN @ ELSE @ \cup {n}]
               /\ build' = [build EXCEPT !.todo = @ \ {n}]
        BY <2>3 DEF Add
      <3>5. BuildType'  BY <1>1, <2>3, <3>1, <3>4 DEF BuildType, Add, Entries
      <3>6. build'.pc = "add"  BY <1>1, <3>1, <3>4 DEF BuildType
      <3> QED  BY <3>3, <3>5, <3>6 DEF Filled
    <2>4. CASE WriteManifest
      <3>1. v \in Version /\ Stored(v) \cup {Dir} \subseteq tmp[v]
        BY <1>1, <2>4 DEF PruneInv, BuildType, WriteManifest, Filling
      <3>2. BuildType'  BY <1>1, <2>4, <3>1 DEF BuildType, WriteManifest, Entries
      <3>3. build'.pc = "rename" /\ build'.version = v /\ tmp'[v] = tmp[v] \cup {ManifestName}
        BY <1>1, <2>4, <3>1 DEF BuildType, WriteManifest
      <3> QED  BY <3>1, <3>2, <3>3 DEF Filling, Filled, Stored, Content
    <2>5. CASE SetCurrent
      BY <1>1, <2>5 DEF SetCurrent, BuildType, Filling, Filled
    <2>6. CASE FinishPublish \/ FailPrune \/ Crash
      BY <1>1, <2>6 DEF FinishPublish, FailPrune, Crash, BuildType, Filling, Filled, Idle
    <2>7. CASE FailPublish
      BY <1>1, <2>7 DEF FailPublish, BuildType, Filling, Filled, Idle
    <2>8. CASE \E w \in Version : Rollback(w)
      BY <1>1, <2>8 DEF Rollback, buildVars, BuildType, Filling, Filled
    <2> QED  BY <2>1, <2>2, <2>3, <2>4, <2>5, <2>6, <2>7, <2>8
  <1>5. KeepInv' /\ BoundInv'  BY <1>3, SetsUndisturbed, BoundUndisturbed DEF PruneInv
  <1>6. HasRollbackTarget = HasRollbackTarget'
    BY <1>3 DEF HasRollbackTarget, Complete, Stored, Content
  <1> QED  BY <1>4, <1>5, <1>6 DEF PruneInv

\* A set comes in whole.
LEMMA RenamePruneInv ==
    ASSUME PruneInv, Rename
    PROVE  PruneInv' /\ (HasRollbackTarget => HasRollbackTarget')
  <1> PICK v \in Version : v = build.version  BY DEF PruneInv, BuildType, Rename
  <1>1. BuildType /\ KeepInv /\ build.pc = "rename"  BY DEF PruneInv, Rename
  <1>2. /\ build'.pc = "setCurrent" /\ build'.version = v
        /\ sets'[v] = tmp[v] /\ \A w \in Version \ {v} : sets'[w] = sets[w]
    BY <1>1 DEF BuildType, Rename
  <1>3. BuildType'  BY <1>1 DEF BuildType, Rename
  <1>4. Complete(v)'
    BY <1>1, <1>2 DEF PruneInv, Filled, Complete, Stored, Content
  <1>5. \A w \in Version : w # v => (Complete(w)' <=> Complete(w))
    BY <1>2 DEF Complete, Stored, Content
  <1>6. Versions' = Versions \cup {v}
    BY <1>1, <1>2, <1>4, <1>5 DEF Versions, Complete
  <1>7. IsFiniteSet(Versions')  BY <1>1, <1>6, FS_AddElement DEF KeepInv
  <1>8. /\ \A w \in Version : Cardinality(WholeNewer(w)) >= Keep => Cardinality(WholeNewer(w)') >= Keep
        /\ HasRollbackTarget => HasRollbackTarget'
    <2>1. \A w \in Version : Complete(w) => Complete(w)'  BY <1>4, <1>5
    <2> QED  BY <1>1, <1>7, <2>1, WholeStays
  <1>9. KeepInv'
    <2>1. ASSUME NEW w \in Versions', ~Complete(w)'  PROVE Cardinality(WholeNewer(w)') >= Keep
      <3>1. w # v /\ w \in Versions /\ w \in Version  BY <1>1, <1>4, <1>6, <2>1 DEF Versions
      <3>2. ~Complete(w)  BY <1>5, <2>1, <3>1
      <3> QED  BY <1>1, <1>8, <3>1, <3>2 DEF KeepInv
    <2> QED  BY <1>2, <1>7, <2>1 DEF KeepInv
  <1> QED  BY <1>2, <1>3, <1>8, <1>9 DEF PruneInv, Filling, Filled, BoundInv

\* Prune chooses: the sets newer than a victim are whole, or have such above them.
LEMMA ListVictimsPruneInv ==
    ASSUME PruneInv, ListVictims
    PROVE  PruneInv' /\ (HasRollbackTarget => HasRollbackTarget')
  <1>1. BuildType /\ KeepInv /\ build.pc = "prune"  BY DEF PruneInv, ListVictims
  <1>2. Victims \subseteq Versions /\ Versions \subseteq Version  BY DEF Victims, Versions
  <1>3. /\ build'.pc = "remove" /\ build'.victims = Victims
        /\ UNCHANGED <<sets, tmp, current>>
    BY <1>1 DEF BuildType, ListVictims
  <1>4. BuildType'  BY <1>1, <1>2, <1>3 DEF BuildType, ListVictims
  <1>5. ASSUME NEW v \in Victims  PROVE Cardinality(WholeNewer(v)) >= Keep
    <2>1. Cardinality(NewerVersions(v)) >= Keep /\ v \in Version  BY <1>2 DEF Victims, NewerVersions
    <2>2. IsFiniteSet(WholeNewer(v))
      <3>1. WholeNewer(v) \subseteq Versions  BY <2>1, WholeIsThere
      <3> QED  BY <1>1, <3>1, NoFewer DEF KeepInv
    <2>3. CASE \A w \in NewerVersions(v) : Complete(w)
      <3>1. NewerVersions(v) \subseteq WholeNewer(v)
        BY <1>2, <2>3 DEF NewerVersions, WholeNewer
      <3> QED  BY <2>1, <2>2, <3>1, NoFewer, StoreAssumption
    <2>4. CASE \E w \in NewerVersions(v) : ~Complete(w)
      <3>1. PICK w \in NewerVersions(v) : ~Complete(w)  BY <2>4
      <3>2. w \in Versions /\ w \in Version /\ Newer(w, v)  BY <1>2 DEF NewerVersions
      <3>3. Cardinality(WholeNewer(w)) >= Keep  BY <1>1, <3>1, <3>2 DEF KeepInv
      <3>4. WholeNewer(w) \subseteq WholeNewer(v)  BY <2>1, <3>2, WholeIsThere
      <3> QED  BY <2>2, <3>3, <3>4, NoFewer, StoreAssumption
    <2> QED  BY <2>3, <2>4
  <1>6. /\ Versions' = Versions
        /\ \A v : Complete(v)' = Complete(v) /\ WholeNewer(v)' = WholeNewer(v)
                  /\ NewerVersions(v)' = NewerVersions(v)
    BY <1>3 DEF Versions, Complete, WholeNewer, NewerVersions, Stored, Content, Newer
  <1>7. KeepInv'  BY <1>1, <1>3, <1>5, <1>6 DEF KeepInv
  <1>8. BoundInv'
    <2>1. ASSUME NEW v \in Versions, v # current, v \notin Victims
          PROVE  Cardinality(NewerVersions(v)) < Keep
      <3>1. ~(Cardinality(NewerVersions(v)) >= Keep)  BY <2>1 DEF Victims, NewerVersions
      <3>2. NewerVersions(v) \subseteq Versions  BY DEF NewerVersions
      <3>3. Cardinality(NewerVersions(v)) \in Nat  BY <1>1, <3>2, NoFewer DEF KeepInv
      <3> QED  BY <3>1, <3>3, StoreAssumption
    <2> QED  BY <1>3, <1>6, <2>1 DEF BoundInv
  <1>9. HasRollbackTarget = HasRollbackTarget'  BY <1>6 DEF HasRollbackTarget
  <1> QED  BY <1>3, <1>4, <1>7, <1>8, <1>9 DEF PruneInv, Filling, Filled

\* Prune removes: what is above the victim stays, and is enough for all below.
LEMMA UnlinkPruneInv ==
    ASSUME PruneInv, Unlink
    PROVE  PruneInv' /\ (Keep >= 2 /\ HasRollbackTarget => HasRollbackTarget')
  <1>1. BuildType /\ KeepInv /\ BoundInv /\ build.pc = "remove" /\ Keep \in Nat
    BY StoreAssumption DEF PruneInv, Unlink
  <1>2. PICK v \in build.victims, e \in Entries :
          /\ e = Dir => sets[v] = {Dir}
          /\ sets' = [sets EXCEPT ![v] = @ \ {e}]
          /\ build' = [build EXCEPT !.victims = IF e = Dir THEN @ \ {v} ELSE @]
    BY DEF Unlink
  <1>3. v \in Version /\ UNCHANGED <<tmp, current>>  BY <1>1 DEF BuildType, Unlink
  <1>4. /\ build'.pc = "remove" /\ build'.victims \subseteq build.victims
        /\ e = Dir => Dir \notin sets'[v]
        /\ e # Dir => build'.victims = build.victims
        /\ build.victims \subseteq build'.victims \cup {v}
        /\ sets'[v] \subseteq sets[v] /\ \A w \in Version \ {v} : sets'[w] = sets[w]
    BY <1>1, <1>2, <1>3 DEF BuildType
  <1>5. BuildType'  BY <1>1, <1>2, <1>3 DEF BuildType
  <1>6. \A w \in Version : w # v => (Complete(w)' <=> Complete(w))
    BY <1>4 DEF Complete, Stored, Content
  <1>7. Complete(v)' => Complete(v)  BY <1>3, <1>4 DEF Complete, Stored, Content
  <1>8. Versions' \subseteq Versions /\ (v \in Versions' => e # Dir)
    BY <1>3, <1>4 DEF Versions
  <1>9. IsFiniteSet(Versions) /\ IsFiniteSet(Versions')  BY <1>1, <1>8, NoFewer DEF KeepInv
  <1>10. WholeNewer(v)' = WholeNewer(v) /\ Cardinality(WholeNewer(v)) >= Keep
    <2>1. Cardinality(WholeNewer(v)) >= Keep  BY <1>1 DEF KeepInv
    <2> QED  BY <1>3, <1>6, <2>1, NewerOrder DEF WholeNewer, Newer
  <1>11. \A w \in Version : WholeNewer(w)' \subseteq Versions'
    BY DEF WholeNewer, Complete, Versions, Stored, Content
  <1>12. ASSUME NEW w \in Version, Cardinality(WholeNewer(w)) >= Keep
         PROVE  Cardinality(WholeNewer(w)') >= Keep
    <2>1. IsFiniteSet(WholeNewer(w)')  BY <1>9, <1>11, NoFewer
    <2>2. CASE v \notin WholeNewer(w)
      <3>1. WholeNewer(w) \subseteq WholeNewer(w)'  BY <1>6, <2>2 DEF WholeNewer, Newer
      <3> QED  BY <1>1, <1>12, <2>1, <3>1, NoFewer
    <2>3. CASE v \in WholeNewer(w)
      <3>1. WholeNewer(v) \subseteq WholeNewer(w) \ {v}  BY <1>3, <2>3, WholeIsThere
      <3>2. WholeNewer(v) \subseteq WholeNewer(w)'  BY <1>6, <3>1 DEF WholeNewer, Newer
      <3> QED  BY <1>1, <1>10, <2>1, <3>2, NoFewer
    <2> QED  BY <2>2, <2>3
  <1>13. KeepInv'
    <2>1. ASSUME NEW w \in Versions', ~Complete(w)'  PROVE Cardinality(WholeNewer(w)') >= Keep
      <3>1. w \in Version /\ w \in Versions  BY <1>8 DEF Versions
      <3>2. Cardinality(WholeNewer(w)) >= Keep
        BY <1>1, <1>6, <1>10, <2>1, <3>1 DEF KeepInv
      <3> QED  BY <1>12, <3>1, <3>2
    <2>2. ASSUME NEW w \in build'.victims  PROVE Cardinality(WholeNewer(w)') >= Keep
      <3>1. w \in build.victims /\ w \in Version  BY <1>1, <1>4 DEF BuildType
      <3>2. Cardinality(WholeNewer(w)) >= Keep  BY <1>1, <3>1 DEF KeepInv
      <3> QED  BY <1>12, <3>1, <3>2
    <2> QED  BY <1>9, <2>1, <2>2 DEF KeepInv
  <1>14. BoundInv'
    <2>1. SUFFICES ASSUME NEW w \in Versions', w # current, w \notin build'.victims
                   PROVE  Cardinality(NewerVersions(w)') < Keep
      BY <1>3 DEF BoundInv
    <2>2. w \in Versions /\ w \notin build.victims
      BY <1>4, <1>8, <2>1
    <2>3. Cardinality(NewerVersions(w)) < Keep  BY <1>1, <2>1, <2>2 DEF BoundInv
    <2>4. NewerVersions(w)' \subseteq NewerVersions(w)  BY <1>8 DEF NewerVersions, Newer
    <2>5. NewerVersions(w) \subseteq Versions  BY DEF NewerVersions
    <2>6. IsFiniteSet(NewerVersions(w))  BY <1>9, <2>5, NoFewer
    <2> QED  BY <1>1, <2>3, <2>4, <2>6, NoFewer
  <1>15. Keep >= 2 => HasRollbackTarget'
    <2> DEFINE Whole == {w \in Version : Complete(w)}
    <2>1. WholeNewer(v)' \subseteq Whole'  BY DEF WholeNewer
    <2>2. IsFiniteSet(Whole')
      <3>1. Whole' \subseteq Versions'  BY DEF Complete, Versions, Stored, Content
      <3> QED  BY <1>9, <3>1, NoFewer
    <2> QED  BY <1>1, <1>10, <2>1, <2>2, NoFewer DEF HasRollbackTarget
  <1>16. Filling' /\ Filled'  BY <1>4 DEF Filling, Filled
  <1> QED  BY <1>5, <1>13, <1>14, <1>15, <1>16 DEF PruneInv

RollbackNext == Next \/ \E v \in Version : Rollback(v)

LEMMA StepPruneInv ==
    ASSUME PruneInv, [RollbackNext]_vars
    PROVE  PruneInv' /\ (Keep >= 2 /\ HasRollbackTarget => HasRollbackTarget')
  <1>1. CASE \E c \in Clients : Serve(c)
    <2>1. UNCHANGED <<sets, tmp, current, build>>
      BY <1>1 DEF Serve, Request, ReadManifest, Resolve, Open, buildVars
    <2> QED  BY <2>1, QuietPruneInv
  <1>2. CASE UNCHANGED vars  BY <1>2, QuietPruneInv DEF vars
  <1>3. CASE Rename  BY <1>3, RenamePruneInv
  <1>4. CASE ListVictims  BY <1>4, ListVictimsPruneInv
  <1>5. CASE Unlink  BY <1>5, UnlinkPruneInv
  <1> QED
    BY <1>1, <1>2, <1>3, <1>4, <1>5, BuildingPruneInv DEF RollbackNext, Next, Publishing

LEMMA PruneInvariance == RollbackSpec => []PruneInv
  <1>1. PruneInv /\ [RollbackNext]_vars => PruneInv'  BY StepPruneInv
  <1> QED  BY <1>1, InitPruneInv, PTL DEF RollbackSpec, RollbackNext

\* The service without the operator's tool.
LEMMA SpecIsRollbackSpec == Spec => RollbackSpec
  <1>1. [Next]_vars => [RollbackNext]_vars  BY DEF RollbackNext
  <1> QED  BY <1>1, PTL DEF Spec, RollbackSpec, RollbackNext

\* A Prune that has run to its end leaves the Keep newest sets and the current one,
\* whatever half-pruned or unpublished sets earlier runs left (snapshot.go, Prune),
\* also when an operator moves the pointer back in between.
THEOREM DiskIsBoundedWithRollback == RollbackSpec => []DiskBounded
  <1>1. PruneInv => DiskBounded  BY DEF PruneInv, BoundInv, DiskBounded, NewerVersions
  <1> QED  BY <1>1, PruneInvariance, PTL

\* The same without rollbacks, which only tests call.
COROLLARY DiskIsBounded == Spec => []DiskBounded
  BY SpecIsRollbackSpec, DiskIsBoundedWithRollback, PTL

\* When two sets or more are kept, there stays a set to go back to once there is
\* one, next to rollbacks, interrupted prunes and a clock that steps back (NewStore,
\* "phải >= 1 để còn bản rollback"; with 1 this is false).
THEOREM RollbackTargetStaysWithRollback ==
    ASSUME Keep >= 2 PROVE RollbackSpec => RollbackTargetKept
  <1>1. PruneInv /\ [RollbackNext]_vars => [HasRollbackTarget => HasRollbackTarget']_vars
    BY StepPruneInv
  <1> QED  BY <1>1, PruneInvariance, PTL DEF RollbackSpec, RollbackNext, RollbackTargetKept

\* The same without rollbacks.
COROLLARY RollbackTargetStays ==
    ASSUME Keep >= 2 PROVE Spec => RollbackTargetKept
  BY SpecIsRollbackSpec, RollbackTargetStaysWithRollback, PTL
=============================================================================
