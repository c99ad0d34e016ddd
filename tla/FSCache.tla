------------------------------- MODULE FSCache -------------------------------
(***************************************************************************)
(* The file server (fs_v3.go) with its cache: requests that look a file    *)
(* up, open, compress and cache it, read and close it; and the goroutine   *)
(* of handleCleanCache.  A key is a request path with a cache kind.        *)
(* An fsFile is pooled; it is released when its key is Nil.  A copy is a   *)
(* bigFileReader with its open file.  What a file contains is its version, *)
(* which is its modification time also.  Files the garbage collector would *)
(* close are not followed, nor is what happens after a request has counted *)
(* itself as a reader of a file that the cleaner had given up by then.     *)
(* A panic is one that the request's handler recovers from.  CleanStop is  *)
(* a cleaner that ticks no more; SkipCache is not modelled.                *)
(* A definition D_Fault just before D is D with a plausible fault; no spec *)
(* uses it.                                                                *)
(***************************************************************************)
EXTENDS Integers, Sequences, FiniteSets

CONSTANTS
  Requests,    \* goroutines that serve requests, one after the other
  Keys,
  Files,       \* bound: fsFile objects
  Copies,      \* bound: bigFileReader objects
  Nil,
  CopyLimit,   \* c of an fsFile: DefaultBigFileReaderCount
  MaxVersion,  \* bound: modifications of a file
  Scenes       \* the settings to be checked

\* What is asked for (small or big files, or directories, which may get an index file), whether it
\* is to be compressed, whether the file system is osFS, the keys that are asked for, and how often
\* a file may be modified.
SceneType ==
  [kind : {"small", "big", "dir"}, compress : BOOLEAN, osFS : BOOLEAN, keys : SUBSET Keys,
   mods : 0..MaxVersion]

VARIABLES
  scene,     \* the setting; never changes
  disk,      \* the version of each file
  zdisk,     \* the compressed copy of each file, or Nil
  cache,     \* the fsFile of each key, or Nil
  file,      \* the fsFiles
  pool,      \* how often each of them was put into smallFsFilePool or bigFsFilePool
  copyOf,    \* the key of the file a bigFileReader has open, or Nil
  locks,     \* fileLocks: the paths that are locked
  request,   \* the requests
  cleaner,   \* the goroutine of handleCleanCache
  late       \* somebody has counted itself in after the cleaner had found no reader

vars == <<scene, disk, zdisk, cache, file, pool, copyOf, locks, request, cleaner, late>>

\* A directory has its own path and that of its index file.
Paths == {"file", "dir"}
Versions == 0..MaxVersion
Cut == -1    \* the content of a compressed file that ends too early
FileType ==
  [key : Keys \cup {Nil}, ver : Versions, dir : BOOLEAN, count : Int, copies : Seq(Copies)]
ZipType == [mtime : Versions, content : Versions \cup {Cut}]
Points ==
  {"out", "count", "lock", "zip", "rename", "create", "set", "have", "read",
   "dec", "panic"}
RequestType ==
  [at : Points, key : Keys \cup {Nil}, f : Files \cup {Nil}, c : Copies \cup {Nil},
   path : Paths, ver : Versions, tmp : Versions \cup {Cut}, locked : BOOLEAN]
CleanerType ==
  [at : {"idle", "range", "pending", "release"}, todo : SUBSET Keys, pending : Seq(Files), i : 0..2]

TypeOK ==
  /\ scene \in SceneType
  /\ disk \in [Keys -> Versions]
  /\ zdisk \in [Keys -> ZipType \cup {Nil}]
  /\ cache \in [Keys -> Files \cup {Nil}]
  /\ file \in [Files -> FileType]
  /\ pool \in [Files -> Nat]
  /\ copyOf \in [Copies -> Keys \cup {Nil}]
  /\ locks \subseteq Keys \X Paths
  /\ request \in [Requests -> RequestType]
  /\ cleaner \in CleanerType
  /\ late \in BOOLEAN

NewFile == [key |-> Nil, ver |-> 0, dir |-> FALSE, count |-> 0, copies |-> <<>>]
Out == [at |-> "out", key |-> Nil, f |-> Nil, c |-> Nil, path |-> "file", ver |-> 0, tmp |-> 0,
        locked |-> FALSE]

Init ==
  /\ scene \in Scenes
  /\ disk = [k \in Keys |-> 0] /\ zdisk = [k \in Keys |-> Nil]
  /\ cache = [k \in Keys |-> Nil]
  /\ file = [x \in Files |-> NewFile] /\ pool = [x \in Files |-> 1]
  /\ copyOf = [c \in Copies |-> Nil]
  /\ locks = {}
  /\ request = [g \in Requests |-> Out]
  /\ cleaner = [at |-> "idle", todo |-> {}, pending |-> <<>>, i |-> 0]
  /\ late = FALSE

fileVars == <<cache, file, pool, copyOf>>
diskVars == <<disk, zdisk>>

At(g, point) == request[g].at = point
Go(g, point) == request' = [request EXCEPT ![g].at = point]
Done(g) == request' = [request EXCEPT ![g] = Out]
F(g) == request[g].f
K(g) == request[g].key
Counted(x, n) == file' = [file EXCEPT ![x].count = @ + n]

\* release(), of a file whose copies are closed with it.  dir is not reset.
Released(x) ==
  /\ file' = [file EXCEPT ![x] = [NewFile EXCEPT !.dir = file[x].dir]]
  /\ pool' = [pool EXCEPT ![x] = @ + 1]
  /\ copyOf' = [c \in Copies |->
       IF \E i \in DOMAIN file[x].copies : file[x].copies[i] = c THEN Nil ELSE copyOf[c]]
----------------------------------------------------------------------------
(* handleRequest: GetFileFromCache *)

\* caches[kind].Load(path), and on a miss openFSFile opens the file.  If there is none, or it
\* cannot be used, or a directory wants a slash, the request is answered and nothing has changed;
\* else a directory has an index file or not.
Hit(g, k) ==
  /\ At(g, "out") /\ cache[k] # Nil
  /\ request' = [request EXCEPT ![g] = [Out EXCEPT !.at = "count", !.key = k, !.f = cache[k]]]
  /\ UNCHANGED <<diskVars, fileVars, locks, cleaner, late>>

Open(g, k) ==
  /\ At(g, "out") /\ cache[k] = Nil
  /\ \E path \in (IF scene.kind = "dir" THEN Paths ELSE {"file"}) :
       request' = [request EXCEPT ![g] =
         [Out EXCEPT !.at = "lock", !.key = k, !.path = path, !.ver = disk[k]]]
  /\ UNCHANGED <<diskVars, fileVars, locks, cleaner, late>>

\* The file is another one meanwhile; or it is in the cache no more, nor will the cleaner look at
\* its readers again.
TooLate(g) ==
  \/ file[F(g)].key # K(g)
  \/ /\ cache[K(g)] # F(g)
     /\ \A i \in DOMAIN cleaner.pending : cleaner.pending[i] = F(g) => i = cleaner.i

\* readersCount.Add(1), and openFSFile gives the lock of the path back if that was its way here.
Count(g) ==
  /\ At(g, "count")
  /\ Counted(F(g), 1)
  /\ late' = (late \/ TooLate(g))
  /\ locks' = IF request[g].locked THEN locks \ {<<K(g), request[g].path>>} ELSE locks
  /\ request' = [request EXCEPT ![g].at = "have", ![g].locked = FALSE]
  /\ UNCHANGED <<diskVars, cache, pool, copyOf, cleaner>>
----------------------------------------------------------------------------
(* openFSFile *)

\* The lock of the path, and GetFileFromCache once more.  Only osFS keeps compressed files on the
\* disk.
Lock(g) ==
  /\ At(g, "lock") /\ <<K(g), request[g].path>> \notin locks
  /\ locks' = locks \cup {<<K(g), request[g].path>>}
  /\ request' = [request EXCEPT ![g].locked = TRUE, ![g].f = cache[K(g)],
       ![g].at = IF cache[K(g)] # Nil THEN "count"
                 ELSE IF scene.compress /\ scene.osFS /\ request[g].path = "file" THEN "zip"
                 ELSE "create"]
  /\ UNCHANGED <<diskVars, fileVars, cleaner, late>>

\* compressAndOpenFSFile: take a fresh copy; remove a stale one, and compress what was opened,
\* which is the version of then or, if it has been written to, the one of now, into a temporary
\* file.  An error of the copying is overwritten by that of closing the writer.
Fresh(g) == zdisk[K(g)] # Nil /\ request[g].ver <= zdisk[K(g)].mtime
TakeCopy(g) ==
  /\ At(g, "zip") /\ Fresh(g)
  /\ request' = [request EXCEPT ![g].at = "create", ![g].ver = zdisk[K(g)].mtime]
  /\ UNCHANGED <<diskVars, fileVars, locks, cleaner, late>>

Compress(g) ==
  /\ At(g, "zip") /\ ~Fresh(g)
  /\ zdisk' = [zdisk EXCEPT ![K(g)] = Nil]
  /\ \E content \in {request[g].ver, disk[K(g)], Cut} :
       request' = [request EXCEPT ![g].at = "rename", ![g].tmp = content]
  /\ UNCHANGED <<disk, fileVars, locks, cleaner, late>>

\* Chtimes gives the copy the time the original had, and Rename shows it to others.
Rename_NoChtimes(g) ==
  /\ At(g, "rename")
  /\ zdisk' = [zdisk EXCEPT ![K(g)] = [mtime |-> disk[K(g)], content |-> request[g].tmp]]
  /\ Go(g, "create")
  /\ UNCHANGED <<disk, fileVars, locks, cleaner, late>>
Rename(g) ==
  /\ At(g, "rename")
  /\ zdisk' = [zdisk EXCEPT ![K(g)] = [mtime |-> request[g].ver, content |-> request[g].tmp]]
  /\ Go(g, "create")
  /\ UNCHANGED <<disk, fileVars, locks, cleaner, late>>

\* One of the calls that make the copy fails: openFSFile then sets contentType of a nil fsFile,
\* with the lock held.
CompressFails(g) ==
  /\ request[g].at \in {"zip", "rename", "create"}
  /\ scene.compress /\ request[g].path = "file"
  /\ Go(g, "panic")
  /\ UNCHANGED <<diskVars, fileVars, locks, cleaner, late>>

\* createDirIndex fails.
NoIndex(g) ==
  /\ At(g, "create") /\ request[g].path = "dir"
  /\ locks' = locks \ {<<K(g), "dir">>}
  /\ Done(g)
  /\ UNCHANGED <<diskVars, fileVars, cleaner, late>>

\* newFSFile, createDirIndex or newCompressedFSFileCache: an fsFile of the pool.  The first does
\* not set dir.  A big one that is not compressed gets the opened file as its first copy.
FreeCopies == {c \in Copies : copyOf[c] = Nil}
Create(g) ==
  /\ At(g, "create")
  /\ \E x \in Files : pool[x] > 0
  /\ LET x == CHOOSE x \in Files : pool[x] > 0
         first == scene.kind = "big" /\ ~scene.compress
         c == CHOOSE c \in FreeCopies : TRUE
     IN /\ first => FreeCopies # {}
        /\ pool' = [pool EXCEPT ![x] = @ - 1]
        /\ file' = [file EXCEPT ![x] =
             [@ EXCEPT !.key = K(g), !.ver = request[g].ver,
                       !.dir = request[g].path = "dir" \/ (@ /\ ~(scene.compress /\ ~scene.osFS)),
                       !.copies = IF first THEN <<c>> ELSE @]]
        /\ copyOf' = IF first THEN [copyOf EXCEPT ![c] = K(g)] ELSE copyOf
        /\ request' = [request EXCEPT ![g].f = x, ![g].at = "set"]
  /\ UNCHANGED <<diskVars, cache, locks, cleaner, late>>

\* SetFileToCache: LoadOrStore.  A file is there already if a directory has got or lost its
\* index file in between: that has another lock.
Set(g) ==
  /\ At(g, "set")
  /\ IF cache[K(g)] = Nil
     THEN /\ cache' = [cache EXCEPT ![K(g)] = F(g)]
          /\ Go(g, "count")
          /\ UNCHANGED <<file, pool, copyOf>>
     ELSE /\ Released(F(g))
          /\ request' = [request EXCEPT ![g].f = cache[K(g)], ![g].at = "count"]
          /\ UNCHANGED cache
  /\ UNCHANGED <<diskVars, locks, cleaner, late>>
----------------------------------------------------------------------------
(* handleRequest, with a file: NotModified, NewReader, Close *)

\* The answer is NotModified, or the file is small: its reader has nothing to close but itself.
Leave(g) ==
  /\ At(g, "have")
  /\ Counted(F(g), -1)
  /\ Done(g)
  /\ UNCHANGED <<diskVars, cache, pool, copyOf, locks, cleaner, late>>

\* A range of a small file is asked for, and its reader is no byteRangeUpdater, to which handleRequest
\* converts it: its UpdateByteRange takes int, not int64.
SmallRange(g) ==
  /\ At(g, "have") /\ scene.kind # "big" /\ ~scene.compress
  /\ Go(g, "panic")
  /\ UNCHANGED <<diskVars, fileVars, locks, cleaner, late>>

\* The last copy that was put back, or else a new one.
BigReader(g) ==
  LET x == F(g)
      n == Len(file[x].copies)
      fresh == CHOOSE c \in FreeCopies : TRUE
  IN /\ At(g, "have") /\ scene.kind = "big"
     /\ IF n > 0
        THEN /\ file' = [file EXCEPT ![x].copies = SubSeq(@, 1, n - 1)]
             /\ request' = [request EXCEPT ![g].at = "read", ![g].c = file[x].copies[n]]
             /\ UNCHANGED copyOf
        ELSE /\ FreeCopies # {}
             /\ copyOf' = [copyOf EXCEPT ![fresh] = file[x].key]
             /\ request' = [request EXCEPT ![g].at = "read", ![g].c = fresh]
             /\ UNCHANGED file
     /\ UNCHANGED <<diskVars, cache, pool, locks, cleaner, late>>

\* The new copy cannot be opened.
NoReader(g) ==
  /\ At(g, "have") /\ scene.kind = "big" /\ file[F(g)].copies = <<>>
  /\ Counted(F(g), -1)
  /\ Done(g)
  /\ UNCHANGED <<diskVars, cache, pool, copyOf, locks, cleaner, late>>

\* Close: it is kept for the next reader, or dropped if there are enough.
CloseBig(g) ==
  LET x == F(g)
      kept == Len(file[x].copies) < CopyLimit
  IN /\ At(g, "read")
     /\ file' = IF kept THEN [file EXCEPT ![x].copies = Append(@, request[g].c)] ELSE file
     /\ copyOf' = IF kept THEN copyOf ELSE [copyOf EXCEPT ![request[g].c] = Nil]
     /\ request' = [request EXCEPT ![g].at = "dec", ![g].c = Nil]
     /\ UNCHANGED <<diskVars, cache, pool, locks, cleaner, late>>

CountDown(g) ==
  /\ At(g, "dec")
  /\ Counted(F(g), -1)
  /\ Done(g)
  /\ UNCHANGED <<diskVars, cache, pool, copyOf, locks, cleaner, late>>

\* It cannot be rewound: it is closed and put into the pool, which clears r.ff, and then the
\* readers of r.ff are to be counted down.
SeekFails(g) ==
  /\ At(g, "read")
  /\ copyOf' = [copyOf EXCEPT ![request[g].c] = Nil]
  /\ request' = [request EXCEPT ![g].at = "panic", ![g].c = Nil]
  /\ UNCHANGED <<diskVars, cache, file, pool, locks, cleaner, late>>
----------------------------------------------------------------------------
(* handleCleanCache *)

Tick ==
  /\ cleaner.at = "idle"
  /\ cleaner' = [cleaner EXCEPT !.at = "range", !.todo = scene.keys]
  /\ UNCHANGED <<diskVars, fileVars, locks, request, late>>

\* cleanCache, for one key: the entry of a directory goes some time, that of a file if it was
\* modified or is not found.
Modified(x) == ~file[x].dir /\ file[x].ver < disk[file[x].key]
CleanCache(k) ==
  LET next == [cleaner EXCEPT !.todo = @ \ {k},
                              !.at = IF cleaner.todo = {k} THEN "pending" ELSE "range"]
  IN /\ cleaner.at = "range" /\ k \in cleaner.todo
     /\ \/ /\ cache[k] # Nil /\ scene.osFS
           /\ cleaner' = [next EXCEPT !.pending = <<cache[k]>> \o @]
           /\ cache' = [cache EXCEPT ![k] = Nil]
        \/ /\ cache[k] # Nil /\ scene.osFS => ~Modified(cache[k])
           /\ cleaner' = next
           /\ UNCHANGED cache
     /\ UNCHANGED <<diskVars, file, pool, copyOf, locks, request, late>>

\* handlePendingCache looks at the second item until it has no reader, and so on until only the
\* head is left, at which it looks once.
Unused_OffByOne(x) == file[x].count <= 1
Unused(x) == file[x].count = 0
Second == IF Len(cleaner.pending) > 1 THEN 2 ELSE Len(cleaner.pending)
LookPending ==
  /\ cleaner.at = "pending"
  /\ \/ /\ Second > 0 /\ Unused(cleaner.pending[Second])
        /\ cleaner' = [cleaner EXCEPT !.at = "release", !.i = Second]
     \/ /\ Second = 1 => ~Unused(cleaner.pending[1])
        /\ Second < 2 /\ cleaner' = [cleaner EXCEPT !.at = "idle"]
     \/ Second = 2 /\ ~Unused(cleaner.pending[2]) /\ UNCHANGED cleaner
  /\ UNCHANGED <<diskVars, fileVars, locks, request, late>>

Release ==
  LET i == cleaner.i
      p == cleaner.pending
  IN /\ cleaner.at = "release"
     /\ Released(p[i])
     /\ cleaner' = [cleaner EXCEPT !.pending = SubSeq(p, 1, i - 1) \o SubSeq(p, i + 1, Len(p)),
                                   !.i = 0, !.at = IF i = 1 THEN "idle" ELSE "pending"]
     /\ UNCHANGED <<diskVars, cache, locks, request, late>>

\* Somebody writes to a file or replaces it, two seconds or more later.
Modify(k) ==
  /\ disk[k] < scene.mods
  /\ disk' = [disk EXCEPT ![k] = @ + 1]
  /\ UNCHANGED <<zdisk, fileVars, locks, request, cleaner, late>>

Step ==
  \/ \E g \in Requests :
       \/ \E k \in scene.keys : Hit(g, k) \/ Open(g, k)
       \/ Count(g) \/ Lock(g) \/ TakeCopy(g)
       \/ Compress(g) \/ Rename(g) \/ CompressFails(g) \/ NoIndex(g) \/ Create(g) \/ Set(g)
       \/ Leave(g) \/ SmallRange(g) \/ BigReader(g) \/ NoReader(g) \/ CloseBig(g)
       \/ CountDown(g) \/ SeekFails(g)
  \/ Tick \/ LookPending \/ Release
  \/ \E k \in scene.keys : CleanCache(k) \/ Modify(k)

Next ==
  \/ ~late /\ Step /\ UNCHANGED scene
  \/ late /\ UNCHANGED vars

Spec == Init /\ [][Next]_vars
----------------------------------------------------------------------------
(* What is to be checked *)

Reading == {"have", "read", "dec"}
HasCounted(x) == {g \in Requests : F(g) = x /\ request[g].at \in Reading \cup {"panic"}}

\* How often a copy is in somebody's hands or put by for the next reader.
CopyPlaces(c) ==
  {g \in Requests : request[g].c = c}
    \cup UNION {{<<x, i>> : i \in {j \in DOMAIN file[x].copies : file[x].copies[j] = c}} : x \in Files}

\* A request that has counted itself as a reader has the file it asked for, open, until it has
\* read it, whatever the cleaner and other requests do: readersCount is the number of readers; an
\* fsFile is in the pool, in the cache, on the cleaner's list or being made, in one place only,
\* also when two requests have opened the same file; and an open copy of a big file is with one
\* reader or put by for one, and of the right file.  (Until somebody counts itself too late, see
\* NeverLate.)
HeldIsOpen ==
  /\ TypeOK
  /\ ~late =>
       /\ \A g \in Requests :
            request[g].at \in Reading =>
              /\ file[F(g)].key = K(g)
              /\ request[g].c # Nil => copyOf[request[g].c] = K(g)
       /\ \A x \in Files :
            /\ file[x].count = Cardinality(HasCounted(x))
            /\ pool[x] + Cardinality({k \in Keys : cache[k] = x})
                 + Cardinality({i \in DOMAIN cleaner.pending : cleaner.pending[i] = x})
                 + Cardinality({g \in Requests : At(g, "set") /\ F(g) = x}) = 1
            /\ (pool[x] = 0) = (file[x].key # Nil)
            /\ Len(file[x].copies) <= CopyLimit
            /\ \A i \in DOMAIN file[x].copies : copyOf[file[x].copies[i]] = file[x].key
       /\ \A c \in Copies : Cardinality(CopyPlaces(c)) = IF copyOf[c] = Nil THEN 0 ELSE 1

\* A compressed copy that passes for fresh has the content the file has now, although the file
\* may change while it is being compressed; and nobody else writes to the temporary file.
\* (Cut is left to NeverCut.)
CopyIsCurrent ==
  \A k \in Keys :
    /\ zdisk[k] # Nil /\ zdisk[k].mtime = disk[k] => zdisk[k].content \in {disk[k], Cut}
    /\ Cardinality({g \in Requests : K(g) = k /\ At(g, "rename")}) <= 1
----------------------------------------------------------------------------
(* What the comments say and the code does not do *)

\* "The current number of readers for this file": a reader that was there before the file was
\* released is among them.
NeverLate == ~late

\* "Create temporary file, so concurrent goroutines don't use it until it is created": what is
\* renamed is whole.
NeverCut == \A k \in Keys : zdisk[k] # Nil => zdisk[k].content # Cut

\* "After unlocking, the file cache version must be stored in the cache unless an error occurs":
\* a request that fails unlocks.
LockIsGivenBack == \A g \in Requests : At(g, "panic") => ~request[g].locked

\* "Is it a directory?": an fsFile that was one and came from the pool as a file still says so.
DirIsKnown ==
  \A g \in Requests :
    At(g, "set") => file[F(g)].dir = (request[g].path = "dir")

\* "Enables byte range requests if set to true.": a request with a range is served, and counts
\* itself out as every other one.
NoReaderIsLost == \A g \in Requests : At(g, "panic") => F(g) = Nil
=============================================================================
