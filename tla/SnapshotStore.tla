---------------------------- MODULE SnapshotStore ----------------------------
(***************************************************************************)
(* blocklist-generator: the build goroutine (internal/builder) publishes   *)
(* sets of list files through internal/snapshot while the public server    *)
(* (internal/blocklistsrv) answers Blocky clients from the same directory. *)
(*                                                                         *)
(* The directory is the only shared state: no lock orders the two sides.   *)
(* Every system call that the other side, or a crash, can see is a step of *)
(* its own.  A file and its .gz twin are one entry; the bytes of a file    *)
(* are a member of Bodies, which is also its checksum and its ETag.        *)
(***************************************************************************)
EXTENDS Naturals, FiniteSets

CONSTANTS
    Names,      \* list files, e.g. "all.txt", "t/acme/all.txt"
    Position,   \* Names -> Nat, the order in which publish writes them
    Bodies,     \* rendered bodies
    Digests,    \* digests of a whole set (setDigest)
    ContentOf,  \* digest -> the files of that set, with their bodies
    Stamps,     \* timestamps of builds; their number bounds the builds
    Keep,       \* snapshot.keep
    Clients,    \* Blocky resolvers
    Polls,      \* Clients -> Names, the list each one downloads
    MaxCrashes  \* bound on the crashes of the process

ManifestName == "manifest.json"
Dir == "."              \* stands for the directory itself
NoVersion == <<0, 0>>
NoBody == "no body"
NoContent == [n \in {} |-> NoBody]

ASSUME StoreAssumption ==
    /\ Names # {} /\ {ManifestName, Dir} \cap Names = {}
    /\ Position \in [Names -> Nat]
    /\ \A m, n \in Names : Position[m] = Position[n] => m = n
    /\ NoBody \notin Bodies
    /\ Digests \subseteq Nat /\ Stamps \subseteq Nat \ {0}
    /\ ContentOf \in [Digests -> UNION {[S -> Bodies] : S \in (SUBSET Names) \ {{}}}]
    /\ \A d, e \in Digests : ContentOf[d] = ContentOf[e] => d = e
    /\ Keep \in Nat \ {0}
    /\ Polls \in [Clients -> Names]
    /\ MaxCrashes \in Nat

VARIABLES
    sets,       \* sets[v]: what is in snapshots/{v}/
    tmp,        \* tmp[v]: what is in snapshots/.building-{v}/
    current,    \* the version in snapshots/current, or NoVersion
    build,      \* the build goroutine: its step and the Set it works on
    req,        \* req[c]: the request of client c being served
    cache,      \* cache[c]: the last 200 answer client c keeps
    usedStamps, \* stamps of the builds begun (no two builds share one)
    crashes,
    moved       \* history: moved[c], current changed since c's request began

buildVars == <<build, usedStamps>>
clientVars == <<req, cache, moved>>
vars == <<sets, tmp, current, build, req, cache, usedStamps, crashes, moved>>

-----------------------------------------------------------------------------
(* Versions and what a set of a version holds.                             *)

Version == Stamps \X Digests
Entries == Names \cup {ManifestName, Dir}
Content(v) == ContentOf[v[2]]

\* Version names sort by timestamp, then by digest.
Newer(v, w) == v[1] > w[1] \/ (v[1] = w[1] /\ v[2] > w[2])

\* The files write puts on disk: the first of each body, in write order.
Stored(v) ==
    {n \in DOMAIN Content(v) :
        \A m \in DOMAIN Content(v) :
            Content(v)[m] = Content(v)[n] => Position[n] <= Position[m]}

\* Variant: an entry is opened under its own name, same_as forgotten.
FileOfWithoutSameAs(v, n) == n

\* Where the manifest of v says the bytes of n are (n itself, or same_as).
FileOf(v, n) ==
    CHOOSE m \in Stored(v) : Content(v)[m] = Content(v)[n]

Complete(v) == Stored(v) \cup {ManifestName, Dir} \subseteq sets[v]

\* Store.Versions: every directory that is not a building one.
Versions == {v \in Version : Dir \in sets[v]}

-----------------------------------------------------------------------------
Idle == [pc |-> "idle", version |-> NoVersion, todo |-> {}, victims |-> {}]
NoRequest == [pc |-> "idle", manifest |-> NoVersion, version |-> NoVersion,
              status |-> 0]
NoCache == [etag |-> NoBody, body |-> NoBody]

Init ==
    /\ sets = [v \in Version |-> {}]
    /\ tmp = [v \in Version |-> {}]
    /\ current = NoVersion
    /\ build = Idle
    /\ req = [c \in Clients |-> NoRequest]
    /\ cache = [c \in Clients |-> NoCache]
    /\ usedStamps = {}
    /\ crashes = 0
    /\ moved = [c \in Clients |-> FALSE]

-----------------------------------------------------------------------------
(* Builder.Build and Builder.publish.                                      *)

\* unchanged: the manifest of the current set has exactly these checksums.
Unchanged(d) ==
    /\ current # NoVersion
    /\ ManifestName \in sets[current]
    /\ Content(current) = ContentOf[d]

\* Build has rendered the files of digest d and they differ from the current
\* ones; NewVersion names the set.  The wall clock may step backwards, so the
\* stamp is any one not used before.
StartPublish(stamp, d) ==
    /\ build.pc = "idle"
    /\ stamp \notin usedStamps
    /\ ~Unchanged(d)
    /\ build' = [Idle EXCEPT !.pc = "begin", !.version = <<stamp, d>>]
    /\ usedStamps' = usedStamps \cup {stamp}
    /\ UNCHANGED <<sets, tmp, current, crashes, clientVars>>

\* Store.Begin: RemoveAll, then MkdirAll, of .building-{version}.
Begin ==
    /\ build.pc = "begin"
    /\ tmp' = [tmp EXCEPT ![build.version] = {Dir}]
    /\ build' = [build EXCEPT !.pc = "add", !.todo = DOMAIN Content(build.version)]
    /\ UNCHANGED <<sets, current, usedStamps, crashes, clientVars>>

\* Set.Add / AddTenant of the next file: a body already written under another
\* name only gets a same_as entry, which Commit writes with the manifest.
Add ==
    /\ build.pc = "add"
    /\ \E n \in build.todo :
        /\ \A m \in build.todo : Position[n] <= Position[m]
        /\ tmp' = [tmp EXCEPT ![build.version] =
                     IF \E m \in @ \cap Names :
                            Content(build.version)[m] = Content(build.version)[n]
                     THEN @ ELSE @ \cup {n}]
        /\ build' = [build EXCEPT !.todo = @ \ {n}]
    /\ UNCHANGED <<sets, current, usedStamps, crashes, clientVars>>

\* Commit, first part: the manifest goes into the building directory.
WriteManifest ==
    /\ build.pc = "add"
    /\ build.todo = {}
    /\ tmp' = [tmp EXCEPT ![build.version] = @ \cup {ManifestName}]
    /\ build' = [build EXCEPT !.pc = "rename"]
    /\ UNCHANGED <<sets, current, usedStamps, crashes, clientVars>>

\* Commit: RemoveAll(finalDir), Rename(tmpDir, finalDir).
Rename ==
    /\ build.pc = "rename"
    /\ sets' = [sets EXCEPT ![build.version] = tmp[build.version]]
    /\ tmp' = [tmp EXCEPT ![build.version] = {}]
    /\ build' = [build EXCEPT !.pc = "setCurrent"]
    /\ UNCHANGED <<current, usedStamps, crashes, clientVars>>

\* Variant: the pointer may move before the directory is in place.
SetCurrentFirst ==
    /\ build.pc \in {"rename", "setCurrent"}
    /\ current' = build.version
    /\ moved' = [c \in Clients |-> TRUE]
    /\ build' = [build EXCEPT !.pc = "prune"]
    /\ UNCHANGED <<sets, tmp, usedStamps, crashes, req, cache>>

\* Commit: setCurrent renames current.tmp over current.
SetCurrent ==
    /\ build.pc = "setCurrent"
    /\ current' = build.version
    /\ moved' = [c \in Clients |-> TRUE]
    /\ build' = [build EXCEPT !.pc = "prune"]
    /\ UNCHANGED <<sets, tmp, usedStamps, crashes, req, cache>>

\* Variants: the current set is not spared; one set too few, or too many, is kept.
VictimsWithCurrent ==
    {v \in Versions : Cardinality({w \in Versions : Newer(w, v)}) >= Keep}

VictimsOneTooMany ==
    {v \in Versions : /\ Cardinality({w \in Versions : Newer(w, v)}) >= Keep - 1
                      /\ v # current}

VictimsOneTooFew ==
    {v \in Versions : /\ Cardinality({w \in Versions : Newer(w, v)}) > Keep
                      /\ v # current}

\* Prune: list the versions and choose those to remove.
Victims ==
    {v \in Versions : /\ Cardinality({w \in Versions : Newer(w, v)}) >= Keep
                      /\ v # current}

ListVictims ==
    /\ build.pc = "prune"
    /\ build' = [build EXCEPT !.pc = "remove", !.victims = Victims]
    /\ UNCHANGED <<sets, tmp, current, usedStamps, crashes, clientVars>>

\* Prune: RemoveAll of the newest victim, one directory entry at a time in no
\* particular order, the directory itself last.
Unlink ==
    /\ build.pc = "remove"
    /\ \E v \in build.victims, e \in Entries :
        /\ \A w \in build.victims \ {v} : Newer(v, w)
        /\ e \in sets[v]
        /\ e = Dir => sets[v] = {Dir}
        /\ sets' = [sets EXCEPT ![v] = @ \ {e}]
        /\ build' = [build EXCEPT !.victims = IF e = Dir THEN @ \ {v} ELSE @]
    /\ UNCHANGED <<tmp, current, usedStamps, crashes, clientVars>>

FinishPublish ==
    /\ build.pc = "remove"
    /\ build.victims = {}
    /\ build' = Idle
    /\ UNCHANGED <<sets, tmp, current, usedStamps, crashes, clientVars>>

\* A system call or a query fails before the pointer moves: publish returns and
\* its deferred Abort removes the building directory.
FailPublish ==
    /\ build.pc \in {"begin", "add", "rename", "setCurrent"}
    /\ tmp' = [tmp EXCEPT ![build.version] = {}]
    /\ build' = Idle
    /\ UNCHANGED <<sets, current, usedStamps, crashes, clientVars>>

\* Prune fails part-way: the set is published, the error is only logged.
FailPrune ==
    /\ build.pc \in {"prune", "remove"}
    /\ build' = Idle
    /\ UNCHANGED <<sets, tmp, current, usedStamps, crashes, clientVars>>

-----------------------------------------------------------------------------
(* Server.serveList over Store.Lookup.                                     *)

Answer(c, status) == req' = [req EXCEPT ![c] = [NoRequest EXCEPT !.status = status]]

Reading(c, pc, manifest, version) ==
    req' = [req EXCEPT ![c] = [pc |-> pc, manifest |-> manifest, version |-> version,
                               status |-> 0]]

\* Lookup calls Manifest, which reads the pointer a first time.
Request(c) ==
    /\ req[c].pc = "idle"
    /\ IF current = NoVersion
       THEN Answer(c, 503)
       ELSE Reading(c, "manifest", current, NoVersion)
    /\ moved' = [moved EXCEPT ![c] = FALSE]
    /\ UNCHANGED <<sets, tmp, current, buildVars, crashes, cache>>

ReadManifest(c) ==
    /\ req[c].pc = "manifest"
    /\ IF ManifestName \in sets[req[c].manifest]
       THEN Reading(c, "resolve", req[c].manifest, NoVersion)
       ELSE Answer(c, 503)
    /\ UNCHANGED <<sets, tmp, current, buildVars, crashes, cache, moved>>

\* Lookup reads the pointer a second time, for the directory of the file.
Resolve(c) ==
    /\ req[c].pc = "resolve"
    /\ IF Polls[c] \in DOMAIN Content(req[c].manifest)
       THEN Reading(c, "open", req[c].manifest, current)
       ELSE Answer(c, 404)
    /\ UNCHANGED <<sets, tmp, current, buildVars, crashes, cache, moved>>

\* Variant: 304 for whatever If-None-Match a client sends.
OpenTrustingClient(c) ==
    LET etag == Content(req[c].manifest)[Polls[c]]
        file == FileOf(req[c].manifest, Polls[c])
    IN
    /\ req[c].pc = "open"
    /\ IF file \notin sets[req[c].version] THEN Answer(c, 503) /\ UNCHANGED cache
       ELSE IF cache[c].etag # NoBody THEN Answer(c, 304) /\ UNCHANGED cache
       ELSE /\ Answer(c, 200)
            /\ cache' = [cache EXCEPT ![c] =
                            [etag |-> etag, body |-> Content(req[c].version)[file]]]
    /\ UNCHANGED <<sets, tmp, current, buildVars, crashes, moved>>

\* serveFile opens the path; ServeContent then compares If-None-Match with the
\* ETag of the entry and sends 304, or 200 with the bytes of the open file.
Open(c) ==
    LET etag == Content(req[c].manifest)[Polls[c]]
        file == FileOf(req[c].manifest, Polls[c])
    IN
    /\ req[c].pc = "open"
    /\ \/ /\ file \notin sets[req[c].version]
          /\ Answer(c, 503)
          /\ UNCHANGED cache
       \/ /\ file \in sets[req[c].version]
          /\ cache[c].etag = etag
          /\ Answer(c, 304)
          /\ UNCHANGED cache
       \/ /\ file \in sets[req[c].version]
          /\ cache[c].etag # etag
          /\ Answer(c, 200)
          /\ cache' = [cache EXCEPT ![c] =
                         [etag |-> etag, body |-> Content(req[c].version)[file]]]
    /\ UNCHANGED <<sets, tmp, current, buildVars, crashes, moved>>

Serve(c) == Request(c) \/ ReadManifest(c) \/ Resolve(c) \/ Open(c)

-----------------------------------------------------------------------------
\* The process dies at any point and is restarted; only the directory survives.
Crash ==
    /\ crashes < MaxCrashes
    /\ crashes' = crashes + 1
    /\ build' = Idle
    /\ req' = [c \in Clients |-> NoRequest]
    /\ moved' = [c \in Clients |-> FALSE]
    /\ UNCHANGED <<sets, tmp, current, cache, usedStamps>>

\* Store.Rollback(v), by an operator (docs/OPERATIONS.md) who waits until no
\* publication is running.
Rollback(v) ==
    /\ build.pc = "idle"
    /\ v # current
    /\ Dir \in sets[v]
    /\ ManifestName \in sets[v]
    /\ current' = v
    /\ moved' = [c \in Clients |-> TRUE]
    /\ UNCHANGED <<sets, tmp, buildVars, req, cache, crashes>>

Publishing ==
    \/ Begin \/ Add \/ WriteManifest \/ Rename \/ SetCurrent
    \/ ListVictims \/ Unlink \/ FinishPublish

Next ==
    \/ \E stamp \in Stamps, d \in Digests : StartPublish(stamp, d)
    \/ Publishing
    \/ FailPublish
    \/ FailPrune
    \/ \E c \in Clients : Serve(c)
    \/ Crash

Spec == Init /\ [][Next]_vars

\* The operator's tool next to the service.
RollbackSpec == Init /\ [][Next \/ \E v \in Version : Rollback(v)]_vars

\* One goroutine runs a publication to its end; a client polls for ever, and
\* each of its requests is a goroutine the server does not hold up.
Fairness == WF_vars(Publishing) /\ \A c \in Clients : WF_vars(Serve(c))

FairSpec == Spec /\ Fairness

-----------------------------------------------------------------------------
(* Properties.                                                             *)

RequestType ==
    [pc : {"idle", "manifest", "resolve", "open"},
     manifest : Version \cup {NoVersion}, version : Version \cup {NoVersion},
     status : {0, 200, 304, 404, 503}]

TypeOK ==
    /\ sets \in [Version -> SUBSET Entries]
    /\ tmp \in [Version -> SUBSET Entries]
    /\ current \in Version \cup {NoVersion}
    /\ build \in [pc : {"idle", "begin", "add", "rename", "setCurrent", "prune", "remove"},
                  version : Version \cup {NoVersion},
                  todo : SUBSET Names, victims : SUBSET Version]
    /\ req \in [Clients -> RequestType]
    /\ cache \in [Clients -> [etag : Bodies \cup {NoBody}, body : Bodies \cup {NoBody}]]
    /\ usedStamps \subseteq Stamps
    /\ crashes \in 0..MaxCrashes
    /\ moved \in [Clients -> BOOLEAN]

\* The pointer never names a set that is not all there, whatever the builder
\* was doing when it failed, crashed or pruned (E4 in write, TestAbortedSetIs-
\* Invisible, TestCrashBeforePointerSwapLeavesCurrentIntact).
CurrentComplete == current # NoVersion => Complete(current)

\* A client whose request, up to now, met no change of the pointer got what the
\* current set holds: the list with its own ETag, 304 only for that ETag, 404
\* only for a list the set lacks, and 503 only before the first publication.
\* Pruning and half-built sets never show.
UndisturbedAnswer(c) ==
    IF current = NoVersion THEN req[c].status = 503
    ELSE IF Polls[c] \notin DOMAIN Content(current) THEN req[c].status = 404
    ELSE LET body == Content(current)[Polls[c]]
         IN  \/ req[c].status = 200 /\ cache[c] = [etag |-> body, body |-> body]
             \/ req[c].status = 304 /\ cache[c].etag = body

UndisturbedRequest ==
    \A c \in Clients :
        req[c].status # 0 /\ ~moved[c] => UndisturbedAnswer(c)

\* Once there is a set to go back to besides another one, there always is ("phải
\* >= 1 để còn bản rollback", NewStore): neither Prune, interrupted or not, nor a
\* publication, nor a rollback, nor a clock that stepped back takes it away.
HasRollbackTarget == Cardinality({v \in Version : Complete(v)}) > 1

RollbackTargetKept == [][HasRollbackTarget => HasRollbackTarget']_vars

\* The disk stays bounded: when Prune has run to its end the Keep newest sets and
\* the current one are left, half-pruned and unpublished sets counted.
DiskBounded ==
    build.pc = "remove" /\ build.victims = {} =>
        \A v \in Versions \ {current} : Cardinality({w \in Versions : Newer(w, v)}) < Keep

\* The content on disk that the pointer stands for; a missing file shows.
Published ==
    IF current = NoVersion THEN NoContent
    ELSE [n \in DOMAIN Content(current) |->
            IF {ManifestName, FileOf(current, n)} \subseteq sets[current]
            THEN Content(current)[n] ELSE NoBody]

Offered == IF build.pc = "idle" THEN NoContent ELSE Content(build.version)

AP == INSTANCE AtomicPublish WITH
        Contents <- {ContentOf[d] : d \in Digests}, NoContent <- NoContent,
        offered <- Offered, published <- Published

\* The directory protocol implements atomic publication of whole sets.
PublishIsAtomic == AP!Spec

\* When builds have stopped, every polling client ends up holding the ETag of
\* the current version of its list, whatever it downloaded in between.
ClientsCatchUp ==
    \A c \in Clients :
        <>[](current # NoVersion /\ Polls[c] \in DOMAIN Content(current)
                => cache[c].etag = Content(current)[Polls[c]])

\* docs/API.md: the ETag is the hash of the content it comes with.
ETagMatchesBody == \A c \in Clients : cache[c].etag = cache[c].body

\* "Dọn tàn dư của một lần dựng hỏng trước đó" (Begin): a build that has begun
\* finds no leftover of an earlier one.
BeginClearsLeftovers ==
    build.pc = "add" => \A v \in Version \ {build.version} : tmp[v] = {}
=============================================================================
