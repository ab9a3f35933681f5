------------------------------ MODULE FileUploads ------------------------------
(***************************************************************************)
(* Files and their previews in the file browser (filebrowser/v2): requests *)
(* that save, delete, copy, move and preview files run side by side, on a  *)
(* file system that knows nothing of requests.  A request looks at a path, *)
(* acts on whatever the path names later, and cleans up by path when it    *)
(* fails.  A preview is cached under the path and the second of the file's *)
(* last change.  Two paths are modelled; a body has two chunks.            *)
(***************************************************************************)
EXTENDS Integers, Sequences, FiniteSets

CONSTANTS Transfers,   \* requests
          MaxFiles,    \* files a behaviour may make
          MaxSeconds   \* seconds it lasts

ASSUME UploadsAssumption == {MaxFiles, MaxSeconds} \subseteq Nat \ {0}

VARIABLES disk,      \* per path, the file it names, 0 for none
          files,     \* per file, who wrote each chunk, and the second of the last change
          transfer,  \* the requests
          thumb,     \* per key, the cached preview and the request that is writing it
          seconds,
          spoiled,   \* history: files written by two, read or moved while written, or left by a copy that failed
          held,      \* history: what each path named, and of which second it was
          raced      \* history: keys a preview was stored under that was read after a change

uploadVars == <<disk, files, transfer, thumb, seconds, spoiled, held, raced>>

Paths == {"p", "q"}
Other(p) == CHOOSE q \in Paths : q # p
Files == 1 .. MaxFiles
Keys == Paths \X (1 .. MaxSeconds)
NoOne == "old"   \* who wrote the files that were there before
BodyLen == 2

\* The key of a preview, of one size of previews.
previewCacheKey(p, second) == <<p, second>>

Whole(data) == \E w \in Transfers \cup {NoOne} : data = <<w, w>>
Here(d, fs, p) == d[p] # 0 /\ Whole(fs[d[p]].data)
Names(d, fs) == {<<p, fs[d[p]].changed, fs[d[p]].data>> : p \in {p \in Paths : Here(d, fs, p)}}

NewTransfer == [kind |-> "put", at |-> "new", path |-> "p", second |-> 0, source |-> 0, target |-> 0, done |-> 0,
                seen |-> <<>>]

UploadInit ==
  /\ disk = [p \in Paths |-> IF p = "p" THEN 1 ELSE 0]
  /\ files = [f \in Files |-> [data |-> IF f = 1 THEN <<NoOne, NoOne>> ELSE <<>>, changed |-> IF f = 1 THEN 1 ELSE 0]]
  /\ transfer = [r \in Transfers |-> NewTransfer]
  /\ thumb = [k \in Keys |-> [shows |-> <<>>, by |-> NoOne]]
  /\ seconds = 1 /\ spoiled = {} /\ raced = {}
  /\ held = Names(disk, files)

Writers(f) == {r \in Transfers : transfer[r].at = "write" /\ transfer[r].target = f}
ReadersOf(f) == {r \in Transfers : transfer[r].at \in {"open", "write"} /\ transfer[r].source = f}
Changes == held' = held \cup Names(disk', files')
Enters(r, at) == transfer' = [transfer EXCEPT ![r].at = at]
Answered(r) == transfer' = [transfer EXCEPT ![r] = [NewTransfer EXCEPT !.at = "answered"]]

Tick ==
  /\ seconds < MaxSeconds /\ seconds' = seconds + 1
  /\ UNCHANGED <<disk, files, transfer, thumb, spoiled, held, raced>>

--------------------------------------------------------------------------------
(* The handlers of resource.go and preview.go, up to what they do to the file. *)

\* A request for p comes, and goes on at `at' with what it learned of the file.
Learned(p) == IF disk[p] # 0 THEN files[disk[p]].changed ELSE 0
Begins(r, method, p, at) ==
  /\ transfer[r].at = "new"
  /\ transfer' = [transfer EXCEPT ![r] =
       IF at = "answered" THEN [NewTransfer EXCEPT !.at = at]
       ELSE [NewTransfer EXCEPT !.kind = method, !.path = p, !.at = at, !.second = Learned(p)]]
  /\ UNCHANGED <<disk, files, thumb, seconds, spoiled, held, raced>>

\* PUT does not look whether the file is there.
ResourcePut(r, p) == Begins(r, "put", p, "open")

\* POST ends here if the file is there and not to be overridden.
ResourcePost(r, p) ==
  \/ disk[p] = 0 /\ Begins(r, "post", p, "open")
  \/ disk[p] # 0 /\ \E at \in {"thumbs", "answered"} : Begins(r, "post", p, at)

ResourceDelete(r, p) == Begins(r, "delete", p, IF disk[p] # 0 THEN "thumbs" ELSE "answered")

\* PATCH copies or renames; it ends here if a file is where it would write and
\* not to be overridden, or a hook refuses.
ResourcePatch(r, p) == \E method \in {"copy", "rename"} :
  \/ Begins(r, method, p, "answered")
  \/ method = "copy" /\ Begins(r, method, p, "source")
  \/ method = "rename" /\ disk[p] # 0 /\ Begins(r, method, p, "thumbs")

\* A preview ends here if there is no file, or the browser has its preview.
HandleImagePreview(r, p) == Begins(r, "preview", p, IF disk[p] # 0 THEN "load" ELSE "answered")

Key(r) == previewCacheKey(transfer[r].path, transfer[r].second)

\* delThumbs, which waits for whoever writes the entry.
DelThumbs(r) ==
  /\ transfer[r].at = "thumbs" /\ thumb[Key(r)].by = NoOne
  /\ thumb' = [thumb EXCEPT ![Key(r)].shows = <<>>]
  /\ Enters(r, CASE transfer[r].kind = "post" -> "open"
                 [] transfer[r].kind = "delete" -> "remove"
                 [] OTHER -> "move")
  /\ UNCHANGED <<disk, files, seconds, spoiled, held, raced>>

\* RemoveAll of the path, whatever it names by now, unless a hook refuses.
Delete(r) ==
  /\ transfer[r].at = "remove" /\ Answered(r)
  /\ disk' \in {disk, [disk EXCEPT ![transfer[r].path] = 0]}
  /\ UNCHANGED <<files, thumb, seconds, spoiled, held, raced>>

--------------------------------------------------------------------------------
(* writeFile, CopyFile and MoveFile. *)

Target(r) == IF transfer[r].kind \in {"put", "post"} THEN transfer[r].path ELSE Other(transfer[r].path)

\* MoveFile: the file system renames, or cannot and the file is copied.
MoveFile(r) ==
  LET p == transfer[r].path IN
  /\ transfer[r].at = "move"
  /\ \/ /\ disk[p] # 0
        /\ disk' = [disk EXCEPT ![p] = 0, ![Other(p)] = disk[p]]
        /\ spoiled' = spoiled \cup {f \in {disk[p]} : Writers(f) # {}}
        /\ Answered(r)
     \/ Enters(r, "source") /\ UNCHANGED <<disk, spoiled>>
  /\ UNCHANGED <<files, thumb, seconds, raced>>
  /\ Changes

\* CopyFile opens its source.
OpenSource(r) ==
  /\ transfer[r].at = "source" /\ disk[transfer[r].path] # 0
  /\ transfer' = [transfer EXCEPT ![r].at = "open", ![r].source = disk[transfer[r].path]]
  /\ UNCHANGED <<disk, files, thumb, seconds, spoiled, held, raced>>

\* The target is made, or cut to nothing if it is there.
OpenFile(r) ==
  LET made == {f \in Files : files[f].changed = 0}
      f == IF disk[Target(r)] # 0 THEN disk[Target(r)] ELSE CHOOSE f \in made : \A g \in made : f <= g IN
  /\ transfer[r].at = "open" /\ (disk[Target(r)] # 0 \/ made # {})
  /\ disk' = [disk EXCEPT ![Target(r)] = f]
  /\ files' = [files EXCEPT ![f] = [data |-> <<>>, changed |-> seconds]]
  /\ transfer' = [transfer EXCEPT ![r].at = "write", ![r].target = f]
  /\ LET copying == {transfer[s].target : s \in ReadersOf(f) \ {r}} \ {0} IN
     spoiled' = (IF Writers(f) = {} THEN spoiled \ {f} ELSE spoiled \cup {f}) \cup copying
  /\ UNCHANGED <<thumb, seconds, raced>>
  /\ Changes

\* One chunk of io.Copy, at the request's own place in the file.
Chunk(r) == LET t == transfer[r] IN IF t.source = 0 THEN r ELSE files[t.source].data[t.done + 1]
\* A copy is as good as its source: unfinished, or left by one that failed.
Taints(r) ==
  LET src == transfer[r].source IN
  {f \in {transfer[r].target} : src # 0 /\ (Writers(src) # {} \/ src \in spoiled \/ ~Whole(files[src].data))}
Write(r) ==
  LET t == transfer[r]
      old == files[t.target].data IN
  /\ t.at = "write" /\ t.done < BodyLen
  /\ t.source # 0 => t.done < Len(files[t.source].data)
  /\ files' = [files EXCEPT ![t.target] =
       [data |-> [i \in 1 .. (IF Len(old) > t.done THEN Len(old) ELSE t.done + 1) |->
                    IF i = t.done + 1 THEN Chunk(r) ELSE IF i <= Len(old) THEN old[i] ELSE "hole"],
        changed |-> seconds]]
  /\ transfer' = [transfer EXCEPT ![r].done = @ + 1]
  /\ spoiled' = spoiled \cup Taints(r)
  /\ UNCHANGED <<disk, thumb, seconds, raced>>
  /\ Changes

\* The body, or the source, is at its end; a file moved by copying is removed
\* from where it was, and stays at both places if that fails.
Written(r) ==
  LET t == transfer[r] IN
  /\ t.at = "write" /\ (t.done = BodyLen \/ (t.source # 0 /\ t.done >= Len(files[t.source].data)))
  /\ \/ t.kind = "rename" /\ disk' = [disk EXCEPT ![t.path] = 0]
     \/ disk' = disk
  /\ spoiled' = spoiled \cup Taints(r)
  /\ Answered(r)
  /\ UNCHANGED <<files, thumb, seconds, held, raced>>

\* A hook refuses, the body breaks off, the disk is full, or the source is
\* gone.  A failed upload removes what its path names, a failed move what the
\* path it would have moved to names, a failed copy nothing.
MutCleanUp(r) == disk
CleanUp(r) == IF transfer[r].kind = "copy" THEN disk ELSE [disk EXCEPT ![Target(r)] = 0]
Fails(r) ==
  /\ transfer[r].at \in {"source", "open", "write"}
  /\ disk' = CleanUp(r)
  /\ spoiled' = spoiled \cup {f \in {transfer[r].target} : f # 0 /\ transfer[r].kind = "copy"}
  /\ Answered(r)
  /\ UNCHANGED <<files, thumb, seconds, held, raced>>

--------------------------------------------------------------------------------
(* preview.go and diskcache/file_cache.go. *)

\* Load takes no lock: it may read an entry that is being written.
Load(r) ==
  /\ transfer[r].at = "load"
  /\ IF thumb[Key(r)].shows # <<>> \/ thumb[Key(r)].by # NoOne THEN Answered(r) ELSE Enters(r, "make")
  /\ UNCHANGED <<disk, files, thumb, seconds, spoiled, held, raced>>

\* createPreview opens and reads the file, here in one step; what is no image yet
\* cannot be resized.  The answer is given, and a goroutine of its own stores it.
CreatePreview(r) ==
  LET p == transfer[r].path IN
  /\ transfer[r].at = "make"
  /\ IF Here(disk, files, p)
     THEN /\ transfer' = [transfer EXCEPT ![r].at = "store", ![r].seen = files[disk[p]].data]
          /\ raced' = IF files[disk[p]].changed = transfer[r].second THEN raced ELSE raced \cup {Key(r)}
     ELSE Answered(r) /\ UNCHANGED raced
  /\ UNCHANGED <<disk, files, thumb, seconds, spoiled, held>>

\* Store, under the lock of the key.
StoreBegins(r) ==
  /\ transfer[r].at = "store" /\ thumb[Key(r)].by = NoOne
  /\ thumb' = [thumb EXCEPT ![Key(r)] = [shows |-> <<>>, by |-> r]] /\ Enters(r, "stores")
  /\ UNCHANGED <<disk, files, seconds, spoiled, held, raced>>
StoreEnds(r) ==
  /\ transfer[r].at = "stores"
  /\ thumb' = [thumb EXCEPT ![Key(r)] = [shows |-> transfer[r].seen, by |-> NoOne]] /\ Answered(r)
  /\ UNCHANGED <<disk, files, seconds, spoiled, held, raced>>

UploadNext ==
  \/ Tick
  \/ \E r \in Transfers :
       \/ \E p \in Paths : \/ ResourcePut(r, p) \/ ResourcePost(r, p) \/ ResourceDelete(r, p)
                           \/ ResourcePatch(r, p) \/ HandleImagePreview(r, p)
       \/ DelThumbs(r) \/ Delete(r) \/ MoveFile(r) \/ OpenSource(r) \/ OpenFile(r) \/ Write(r) \/ Written(r)
       \/ Fails(r) \/ Load(r) \/ CreatePreview(r) \/ StoreBegins(r) \/ StoreEnds(r)

UploadSpec == UploadInit /\ [][UploadNext]_uploadVars

--------------------------------------------------------------------------------
UploadTypeOK ==
  /\ disk \in [Paths -> 0 .. MaxFiles] /\ seconds \in 1 .. MaxSeconds
  /\ \A f \in Files : Len(files[f].data) <= BodyLen /\ files[f].changed \in 0 .. MaxSeconds
  /\ \A p, q \in Paths : p # q /\ disk[p] # 0 => disk[p] # disk[q]
  /\ \A r \in Transfers :
       /\ transfer[r].at \in {"new", "thumbs", "remove", "move", "source", "open", "write", "load", "make",
                              "store", "stores", "answered"}
       /\ {transfer[r].source, transfer[r].target} \subseteq 0 .. MaxFiles /\ transfer[r].done \in 0 .. BodyLen
  /\ \A k \in Keys : thumb[k].by \in Transfers \cup {NoOne}
  /\ spoiled \subseteq Files /\ raced \subseteq Keys

\* A file nobody is writing holds one body from end to end, whatever failed or
\* was removed meanwhile, unless two requests wrote to it at once, or it was
\* copied or moved while it was written, or a failed copy left it
\* (resource.go:177, fileutils/file.go:16).
SavedWhole ==
  \A p \in Paths :
    disk[p] # 0 /\ disk[p] \notin spoiled /\ Writers(disk[p]) = {} => Whole(files[disk[p]].data)

\* The preview cached for a file shows that file, unless its path named
\* another file changed in the same second, or a file changed between the look
\* at its time and the reading of it (http/preview.go:88, 110).
PreviewsFit ==
  \A p \in Paths : Here(disk, files, p) =>
    LET f == files[disk[p]]
        k == previewCacheKey(p, f.changed) IN
    \/ thumb[k].shows \in {<<>>, f.data}
    \/ \E d \in {h[3] : h \in held} : d # f.data /\ <<p, f.changed, d>> \in held
    \/ k \in raced
================================================================================
