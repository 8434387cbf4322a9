------------------------------ MODULE BlockStore -------------------------------
(* The 'blocks' object store of engine/EncryptedIDBVFS.js and what the VFS    *)
(* does to it inside one IndexedDB transaction.  A block is keyed by path,    *)
(* offset and version; there is one database file, so the path is dropped,    *)
(* and offset (minus the position) becomes the page number, since the page    *)
(* size never changes here.  Versions go DOWN: the smallest is the newest.    *)
(* Encryption (encryptBlock, decryptBlock) wraps a block's bytes and leaves   *)
(* its key, version and size alone; a page is its value.                      *)
EXTENDS Integers, Sequences, FiniteSets, FiniteSetsExt

Blank  == 0         \* no bytes: the data of a block 0 that was just created
Zero   == 0         \* xRead fills the buffer with zeros on a short read
NoPurge == [page |-> <<>>, count |-> 0]
NoJournal == [size |-> -1, page |-> <<>>]

EmptyStore == [blocks |-> {}, purge |-> NoPurge, journal |-> NoJournal]

\* FileBlock: size is fileSize, meaningful in block 0 only.
Block(pos, ver, val, size) == [pos |-> pos, ver |-> ver, val |-> val, size |-> size]

\* blocks.put: replaces the block of the same key.
Put(s, b) ==
    [s EXCEPT !.blocks = {x \in @ : <<x.pos, x.ver>> # <<b.pos, b.ver>>} \cup {b}]

Newest(blocks) == CHOOSE b \in blocks : \A x \in blocks : b.ver <= x.ver

Block0s(s) == {b \in s.blocks : b.pos = 0}

FoundUnbounded(s, b0, pos) ==
    LET in == {b \in s.blocks : b.pos = pos} IN IF in = {} THEN {} ELSE {Newest(in)}

\* blocks.get(#bound(file, -pos)): the first key at or after <<-pos, version>>,
\* so a page that has no such block finds one of an earlier page instead.
Found(s, b0, pos) ==
    LET in  == {b \in s.blocks : b.pos = pos /\ (b.ver >= b0.ver \/ pos = 0)}
        low == {b \in s.blocks : b.pos < pos}
    IN  IF in # {} THEN {Newest(in)}
        ELSE IF low = {} THEN {}
        ELSE {Newest({b \in low : b.pos = Max({x.pos : x \in low})})}

\* xRead of one page: from the block 0 in memory, from the block found, or
\* SQLITE_IOERR_SHORT_READ when that block ends at or before the page.
ReadPage(s, b0, pos) ==
    IF pos = 0 /\ b0.val # Blank THEN b0.val
    ELSE LET here == {b \in Found(s, b0, pos) : b.pos = pos}
         IN  IF here = {} THEN Zero ELSE (CHOOSE b \in here : TRUE).val

\* Every page up to the file size of block 0.
ReadFile(s, b0) == [i \in 1 .. b0.size |-> ReadPage(s, b0, i - 1)]

\* The content a new connection finds: a rollback journal left behind is
\* played back, otherwise the newest block 0 says which versions count.
Recovered(s) ==
    IF Block0s(s) = {} THEN <<>>
    ELSE LET plain == ReadFile(s, Newest(Block0s(s)))
         IN  IF s.journal = NoJournal THEN plain
             ELSE [i \in 1 .. s.journal.size |->
                      IF i - 1 \in DOMAIN s.journal.page THEN s.journal.page[i - 1]
                      ELSE IF i <= Len(plain) THEN plain[i] ELSE Zero]

--------------------------------------------------------------------------------
(* The functions passed to IDBContext.run with 'readwrite', applied to the    *)
(* store they see; f is the OpenedFileEntry, which some of them read late.    *)

\* BEGIN_ATOMIC_WRITE: delete the blocks of abandoned transactions.
ClearAbandoned(s, f) == [s EXCEPT !.blocks = {b \in @ : b.ver > f.b0.ver}]

\* COMMIT_ATOMIC_WRITE: block 0, then the changed pages join the purge block.
CommitBatch(s, b0, changed) ==
    LET old  == s.purge.page
        page == [p \in DOMAIN old \cup changed |->
                    IF p \in changed THEN b0.ver ELSE old[p]]
    IN  [Put(s, b0) EXCEPT !.purge = [page |-> page,
                                      count |-> s.purge.count + Cardinality(changed)]]

\* xTruncate: delete the pages at and beyond the new size, then put block 0.
Truncate(s, b0) == Put([s EXCEPT !.blocks = {b \in @ : b.pos < b0.size}], b0)

PurgeInclusive(s) ==
    LET page == s.purge.page
    IN  [s EXCEPT !.purge = NoPurge,
                  !.blocks = {b \in @ :
                      ~(b.pos \in DOMAIN page /\ b.ver >= page[b.pos])}]

\* purge: for each page of the purge block, the versions older than the one
\* recorded; then the purge block itself.
Purge(s) ==
    LET page == s.purge.page
    IN  [blocks  |-> {b \in s.blocks : ~(b.pos \in DOMAIN page /\ b.ver > page[b.pos])},
         purge   |-> NoPurge,
         journal |-> s.journal]

================================================================================
