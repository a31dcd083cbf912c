------------------------------- MODULE Initrd -------------------------------
(***************************************************************************)
(* The boot archive (mm/initrd.c): the scan of the ustar image into a      *)
(* table of files, and the answers find, stat and listdir compute from it. *)
(* Directories exist only as prefixes of file paths.                       *)
(*                                                                         *)
(* A path is a sequence of characters, because the questions here are      *)
(* which byte ends a component.  The image is read block by block; what a  *)
(* header block holds is chosen when the scan gets there.  Mode, owner,    *)
(* time and checksum are never looked at.                                  *)
(***************************************************************************)
EXTENDS Integers, Sequences, SequencesExt, FiniteSets

CONSTANTS ImageSizes,   \* possible sizes of the module
          BlockSize,    \* SCDK_TAR_BLOCK_SIZE
          Names,        \* name fields
          PrefixFields, \* prefix fields
          SizeFields,   \* size fields
          MaxFiles,     \* SCDK_INITRD_MAX_FILES
          MaxPath,      \* SCDK_INITRD_MAX_PATH
          MaxName,      \* SCDK_VFS_MAX_NAME
          Queries,      \* paths asked for
          Capacity      \* room in the caller's buffer

BadPath == <<"bad">>  \* instead of a path, a listing or a size
BadSize == -1
Blank == 8            \* a character that ends a size field
NoNode == [type |-> "none", size |-> 0]
BadListing == <<[name |-> <<>>, node |-> NoNode]>>

VARIABLES phase,          \* "scan", "ready" (initrd_initialized) or "failed"
          image_size,
          offset,         \* of the next header
          initrd_files    \* the table, initrd_file_count entries

rdVars == <<phase, image_size, offset, initrd_files>>

RdInit == /\ phase = "scan" /\ image_size \in ImageSizes
        /\ offset = 0 /\ initrd_files = <<>>

-----------------------------------------------------------------------------
(* The scan                                                                *)

\* A size field, least digit last, up to the first blank.
parse_octal(field) ==
    LET stops == {i \in DOMAIN field : field[i] = Blank}
        digits == IF stops = {} THEN field
                  ELSE SubSeq(field, 1, (CHOOSE i \in stops : \A j \in stops : i <= j) - 1)
    IN  IF digits = <<>> \/ \E i \in DOMAIN digits : digits[i] \notin 0 .. 7 THEN BadSize
        ELSE FoldLeft(LAMBDA value, d : value * 8 + d, 0, digits)

\* BadPath, or the path so far with the component behind it.
append_path_component(out, component) ==
    IF component = <<>> THEN out
    ELSE IF Len(out) + Len(component) >= MaxPath THEN BadPath
    ELSE out \o component

normalize_tar_path(header) ==
    LET dir == append_path_component(<<"/">>, header.prefix)
        base == IF dir # BadPath /\ Len(dir) > 1 THEN dir \o <<"/">> ELSE dir
        name == IF Len(header.name) >= 2 /\ SubSeq(header.name, 1, 2) = <<".", "/">>
                THEN SubSeq(header.name, 3, Len(header.name)) ELSE header.name
        path == IF base = BadPath THEN BadPath ELSE append_path_component(base, name)
    IN  IF base # BadPath /\ Len(base) >= MaxPath THEN BadPath
        ELSE IF path # BadPath /\ Len(path) <= 1 THEN BadPath ELSE path

tar_header_is_file(header) == header.file

padded(size) == ((size + BlockSize - 1) \div BlockSize) * BlockSize

\* Mutant: the data may reach past the end of the image.
DataFits_header_only(size) == offset + BlockSize <= image_size

DataFits(size) ==
    /\ offset + BlockSize <= image_size
    /\ padded(size) <= image_size - (offset + BlockSize)

TableFull == Len(initrd_files) >= MaxFiles

remember_file(path, size) ==
    Append(initrd_files, [path |-> path, data |-> offset + BlockSize, size |-> size])

Fail == phase' = "failed" /\ UNCHANGED <<image_size, offset, initrd_files>>

\* One round of the loop of parse_tar_image.
parse_tar_image(header) ==
    /\ phase = "scan" /\ offset + BlockSize <= image_size
    /\ LET size == parse_octal(header.size)
           path == normalize_tar_path(header)
           file == tar_header_is_file(header)
       IN  IF size = BadSize THEN Fail
           ELSE IF ~DataFits(size) THEN Fail
           ELSE IF file /\ (path = BadPath \/ TableFull) THEN Fail
           ELSE /\ initrd_files' = IF file THEN remember_file(path, size) ELSE initrd_files
                /\ offset' = offset + BlockSize + padded(size)
                /\ UNCHANGED <<phase, image_size>>

\* A zero block, or the end of the image; scdk_initrd_init_from_limine.
ScanEnds ==
    /\ phase = "scan"
    /\ phase' = IF image_size < BlockSize \/ initrd_files = <<>> THEN "failed" ELSE "ready"
    /\ UNCHANGED <<image_size, offset, initrd_files>>

Headers == [name : Names, prefix : PrefixFields, size : SizeFields, file : BOOLEAN]
RdNext == (\E h \in Headers : parse_tar_image(h)) \/ ScanEnds
RdSpec == RdInit /\ [][RdNext]_rdVars

-----------------------------------------------------------------------------
(* Questions                                                               *)

FirstOf(S) == CHOOSE i \in S : \A j \in S : i <= j

\* The index of the file, 0 when there is none.
scdk_initrd_find(path) ==
    LET hits == {i \in DOMAIN initrd_files : initrd_files[i].path = path}
    IN  IF phase # "ready" \/ hits = {} THEN 0 ELSE FirstOf(hits)

\* The query without the slashes at its end.
normalized_query(path) ==
    SubSeq(path, 1, FirstOf({n \in 1 .. Len(path) :
                                \A k \in n + 1 .. Len(path) : path[k] = "/"}))

path_eq_len(path, query) == path = query

\* Mutant: the byte behind the prefix is not looked at.
path_has_dir_prefix_bytes(path, query) ==
    IF query = <<"/">> THEN Len(path) > 1
    ELSE Len(path) > Len(query) + 1 /\ SubSeq(path, 1, Len(query)) = query

path_has_dir_prefix(path, query) ==
    IF query = <<"/">> THEN Len(path) > 1
    ELSE /\ Len(path) > Len(query) + 1
         /\ SubSeq(path, 1, Len(query)) = query
         /\ path[Len(query) + 1] = "/"

Dir == [type |-> "dir", size |-> 0]
FileOf(f) == [type |-> "file", size |-> f.size]

scdk_initrd_stat(path) ==
    LET query == normalized_query(path)
        files == {i \in DOMAIN initrd_files : path_eq_len(initrd_files[i].path, query)}
    IN  IF phase # "ready" \/ path[1] # "/" THEN NoNode
        ELSE IF query = <<"/">> THEN Dir
        ELSE IF files # {} THEN FileOf(initrd_files[FirstOf(files)])
        ELSE IF \E i \in DOMAIN initrd_files : path_has_dir_prefix(initrd_files[i].path, query)
        THEN Dir ELSE NoNode

\* BadListing, or the entries with one more name; a directory beats a file.
add_dirent(entries, name, node) ==
    LET same == {i \in DOMAIN entries : entries[i].name = name}
    IN  IF name = <<>> \/ Len(name) >= MaxName THEN BadListing
        ELSE IF same # {}
        THEN IF node = Dir THEN [entries EXCEPT ![FirstOf(same)].node = Dir] ELSE entries
        ELSE IF Len(entries) >= Capacity THEN BadListing
        ELSE Append(entries, [name |-> name, node |-> node])

\* The name under which a file shows in the directory query, and what it is.
dirent_of(file, query) ==
    LET rest == SubSeq(file.path, IF query = <<"/">> THEN 2 ELSE Len(query) + 2, Len(file.path))
        slashes == {i \in DOMAIN rest : rest[i] = "/"}
    IN  IF slashes = {} THEN [name |-> rest, node |-> FileOf(file)]
        ELSE [name |-> SubSeq(rest, 1, FirstOf(slashes) - 1), node |-> Dir]

scdk_initrd_listdir(path) ==
    LET query == normalized_query(path)
        step(entries, file) ==
            IF entries = BadListing \/ ~path_has_dir_prefix(file.path, query) THEN entries
            ELSE LET d == dirent_of(file, query) IN add_dirent(entries, d.name, d.node)
    IN  IF scdk_initrd_stat(path) # Dir THEN BadListing
        ELSE FoldLeft(step, <<>>, initrd_files)

-----------------------------------------------------------------------------
(* Properties, against the tree of components                              *)

\* The components of a path.
Components(path) ==
    LET cuts == {i \in 0 .. Len(path) : i = 0 \/ path[i] = "/"}
        end(i) == FirstOf({j \in i + 1 .. Len(path) + 1 : j = Len(path) + 1 \/ path[j] = "/"})
        parts == [k \in 1 .. Cardinality(cuts) |->
                     LET i == CHOOSE c \in cuts : Cardinality({d \in cuts : d < c}) = k - 1
                     IN  SubSeq(path, i + 1, end(i) - 1)]
    IN  SelectSeq(parts, LAMBDA p : p # <<>>)

FilePaths == {Components(initrd_files[i].path) : i \in DOMAIN initrd_files}
Below(dir) == {c \in FilePaths : IsStrictPrefix(dir, c)}
SizeAt(c) == initrd_files[FirstOf({i \in DOMAIN initrd_files :
                                      Components(initrd_files[i].path) = c})].size

\* No path ends in a slash: every header had a name.
WellFormed == \A i \in DOMAIN initrd_files : Last(initrd_files[i].path) # "/"

\* The types of the state; the table never overflows.
RdTypeOK ==
    /\ phase \in {"scan", "ready", "failed"} /\ Len(initrd_files) <= MaxFiles
    /\ \A i \in DOMAIN initrd_files : Len(initrd_files[i].path) \in 2 .. MaxPath - 1

\* Whatever sizes the headers claim, the data of a file lies inside the
\* image, and no two files and no header that was read share a byte.
DataInsideImage ==
    /\ \A i \in DOMAIN initrd_files :
           initrd_files[i].data + initrd_files[i].size <= image_size
    /\ \A i \in 1 .. Len(initrd_files) - 1 :
           initrd_files[i].data + initrd_files[i].size <= initrd_files[i + 1].data - BlockSize

\* A file is found under the absolute path that its header's name stands for,
\* with or without "./" in front; its prefix field comes before the name.
\* (A "./" in the prefix field is kept by the code.)
FilesFoundByName ==
    phase = "ready" =>
        \A i \in DOMAIN initrd_files :
            /\ \A k \in DOMAIN Components(initrd_files[i].path) :
                   Components(initrd_files[i].path)[k] # <<".">>
            /\ scdk_initrd_find(initrd_files[i].path) \in 1 .. i

\* stat and listdir answer as if the files stood in a tree of components,
\* whatever names are prefixes of each other as strings, with or without
\* slashes at the end of the query: stat tells files, directories and nothing
\* apart; listdir names each child once, as a directory if anything is below
\* it, otherwise with the size stat gives.  A listing fails only for want of
\* room.
AnswersMatchTree ==
    phase = "ready" /\ WellFormed =>
        \A q \in Queries :
            LET dir == Components(q)
                stat == scdk_initrd_stat(q)
                children == {SubSeq(c, 1, Len(dir) + 1) : c \in Below(dir)}
                list == scdk_initrd_listdir(q)
            IN  /\ stat = IF dir \in FilePaths THEN [type |-> "file", size |-> SizeAt(dir)]
                          ELSE IF dir = <<>> \/ Below(dir) # {} THEN Dir
                          ELSE NoNode
                /\ (list = BadListing) <=> (stat # Dir \/ Cardinality(children) > Capacity)
                /\ list # BadListing =>
                       /\ Len(list) = Cardinality(children)
                       /\ {list[i].name : i \in DOMAIN list} = {c[Len(c)] : c \in children}
                       /\ \A i \in DOMAIN list :
                              LET c == Append(dir, list[i].name)
                              IN  list[i].node = IF Below(c) # {} THEN Dir
                                                 ELSE [type |-> "file", size |-> SizeAt(c)]

\* The table of files is a faithful index of the archive: within its bounds,
\* with data inside the image, each file under its name.
ArchiveIndexed == RdTypeOK /\ DataInsideImage /\ FilesFoundByName

=============================================================================
