# A verification of crabapple

`crabapple` is a Rust library that opens iOS backups: it parses `Manifest.plist`, derives a master
key from a password, unwraps the class keys of the key bag with it, decrypts `Manifest.db` into a
temporary file, queries it, and decrypts single files, at once or as a stream. This directory holds
TLA+ models of its core, the TLC runs that check them on small instances, and proofs that TLAPS
checks for every instance. Paths below are relative to the repository; `crypto.rs:422` is a line of
`src/backup/crypto.rs`.

## Inventory

| component | state | operations | talks to | what makes it correct |
|---|---|---|---|---|
| streaming reader (`crypto.rs`, `AesCbcDecryptReader`) | lookahead block, cipher chaining, decrypted buffer and position, eof | `from`, `read` | a `BufReader` over the ciphertext; the caller, `io::copy` | the caller gets the plaintext, whole, in order, once; the stream and the one-shot call agree; reading ends; a caller that goes on after an error is not misled |
| one-shot CBC (`crypto.rs`) | none | encrypt, decrypt | — | decryption undoes encryption at every length |
| manifest database (`manifest_db.rs`) | path, connection; the shared temporary file | `new`, three queries, `drop` | reader, SQLite, the file system; other sessions through the file | a session reads its own database; no decrypted database is left behind |
| key bag parser (`keyring.rs`) | header fields, open record, class keys | `from_bytes` | `tlv_blocks` | each class gets the keys of its own record whatever the order of blocks |
| block iterator (`tlv.rs`) | position in the blob | `next` | the parser's loop | every block that is whole, in order; a cut value is one error; the end comes |
| authentication and unlocking (`manifest_plist.rs`, `crypto.rs`) | master key, unlocked class keys | `from_manifest_data`, `unlock_keys_from_manifest`, `get_class_key`, `keys` | key bag; database and files ask it for class keys | the right password opens, others do not; all protected classes or none; the derived key is as good |
| backup session (`backup/mod.rs`, `device.rs`) | manifest, database, directory | `open`, `get_file`, `entries`, `decrypt_entry`, `decrypt_entry_stream`; `get_device_basic_info` | all of them; the files of the backup | exactly the right key opens an intact backup, nothing opens a sealed one without; both ways to decrypt an entry agree |
| property list (`manifest_plist.rs`, `lockdown.rs`, `app.rs`, `plist.rs`) | none | `from_plist`, getters | `open`, `get_device_basic_info` | the plist alone decides whether it is accepted |
| hex (`hex.rs`) | none | `hex_encode`, `hex_decode` | the caller's key | round trip, in every spelling; a text that is no key is refused |
| file entries (`file.rs`) | none | `MBFile::from_plist`, `FileKeyPair::new`, `source` | database rows | an entry is unwrapped with its own class and key, whatever the layout of its archive |
| errors (`error.rs`) | none | texts | — | — |

The library starts no threads and has no async code: what interleaves is several sessions of one or
of several processes that meet in the file system, and the calls of one reader with the faults of
its source. What is hard about it:

* **chunks, blocks and tails.** A ciphertext is consumed in chunks of 8192 bytes, decrypted in
  blocks of 16, drained in pieces of the caller's size, and its last block must be held back until
  the end is known. Any of these boundaries may coincide or be one off.
* **partial failure.** An error in the middle of `read()`, of a copy or of a loop over classes, with
  something already done.
* **a shared name.** All sessions decrypt their database into `temp_dir()/crabapple-Manifest.db`.
* **crash and leftovers.** The temporary file survives a process that ends without `drop`.
* **a format without delimiters.** The key bag parser infers what a block belongs to from what it
  has already seen.
* **files that go.** `open` asks for each file first and opens it later.
* **damaged input.** Property lists, archives, key bags and texts of keys come from outside; some of
  what they may hold panics in functions that return `Result`.
* **map order.** Class keys are unwrapped in the order of a `HashMap`, another one in each run.

`PROJECT.json` lists the hazards one by one with the line where each bites.

## Modules

| module | models | composed with |
|---|---|---|
| `Cbc` | CBC with PKCS#7 as lengths and offsets; one-shot encrypt and decrypt | — |
| `PlainStream` | abstract: what any streaming decryptor promises | — |
| `CbcReader` | the reader, its `BufReader`, the source, the caller | extends `Cbc`, implements `PlainStream` |
| `CbcRetry` | a caller that goes on reading after any error | extends `CbcReader` |
| `CbcReaderProofs` | theorems | extends `CbcReader` |
| `CbcRetryProofs` | theorems | extends `CbcRetry` and `CbcReaderProofs` |
| `PrivateDb` | abstract: what a `ManifestDb` is to its session | — |
| `ManifestDb` | sessions, the file system, the temporary database | implements `PrivateDb` |
| `ManifestDbProofs` | theorems | extends `ManifestDb` |
| `Plist` | values of a property list, the getters, what lockdown and application entries need | — |
| `Archive` | `MBFile::from_plist`, `FileKeyPair::new` | extends `Plist` |
| `Backup` | lookups, listings, decryption of entries by open sessions | extends `ManifestDb`: its steps are steps of `Backup`; uses `Cbc` and `Archive` |
| `BackupProofs` | theorems | extends `Backup` and `ManifestDbProofs` |
| `BlockSource` | abstract: what `from_bytes` relies on when it goes through a bag | — |
| `Tlv` | `tlv_blocks` byte by byte | implements `BlockSource` |
| `TlvProofs` | theorems | extends `Tlv` |
| `KeyRing` | `KeyRing::from_bytes` block by block, over the blocks `BlockSource` promises | — |
| `KeyRingProofs` | theorems | extends `KeyRing` |
| `Hex` | `hex_encode`, `hex_decode` | — |
| `Manifest` | authentication, key derivation, unlocking, reopening | extends `KeyRing` and `Hex`: the steps of `KeyRing` are steps of `Manifest` |
| `ManifestProofs` | theorems, also about `Hex` | extends `Manifest` and `KeyRingProofs` |
| `Open` | `Backup::open` and `get_device_basic_info` over files that may vanish | extends `Manifest` and `Plist`: the steps of `Manifest` are steps of `Open` |
| `OpenProofs` | theorems | extends `Open` and `ManifestProofs` |
| `MC*` | instances for TLC | extend the above |

Definitions named "mutant" in a comment are wrong variants of the definition that follows. They are
not used in any specification; replacing the right one by its mutant breaks the property that
`PROJECT.json` pairs it with.

### Cbc, CbcReader, PlainStream

The cipher is abstracted to what CBC guarantees. A plaintext byte is its own offset, a block of
ciphertext is the offset at which it starts, and `DecryptByte` gives the right byte only if a whole
block is decrypted with its predecessor in the chaining register; otherwise `Garbage`. A ciphertext
is two numbers: its length and the pad count at the end of its last whole block, 0 if the padding is
not valid. So all that the properties can tell apart remains, and lengths are free.

`lookahead`, `chain`, `buf`, `buf_pos`, `eof` are the fields of the struct (`chain` is the state of
`cipher`), `want` and `out` the `read()` in progress, `pos` and `filled` the `BufReader`. `From` is
the constructor, `BeginRead` a call, and `FlushPending`, `DecryptChunk`, `FinalBlock`, `FailRead`
and `EndRead` are the ways an iteration of the loop may go. The `BufReader` passes a read of at
least its capacity through to the source and refills itself otherwise, as the standard library's
does; this is why the first chunk after the 16 bytes of `from` is shorter than the others.

`PlainStream` knows nothing of blocks: it delivers the next bytes, ends after the last, and may fail
if the ciphertext is broken or the source is. `CbcReader` refines it with `handed <- delivered`; a
bad ending means that everything before the last block can be handed out.

The reader does not remember that it failed. `CbcRetry` adds the caller who calls `read()` again all
the same: after a fault of the source that is harmless, up to the bytes that
`reader_interrupted_loss` shows to be lost; after a padding error the last block is decrypted once
more with itself as its predecessor, and what comes out may by chance end in what looks like
padding.

### ManifestDb

The file system is POSIX: names, inodes and open handles. `File::create` truncates the inode that
has the name, an open file keeps its inode when the name goes, `Connection::open` finds or creates.
A database is a few pieces, and a piece is the session that wrote it. One action per system call of
`new` and `drop`, for each session, so that sessions interleave between any two; `Fault` collects
what may go wrong. `met` and `litter` are history: whom a session overlapped with, and whether
something explains a leftover. `PrivateDb` knows of no file at all: a session finds its own rows
unless it shares, sharing takes two, and only a session that is still opening changes what others
find. `ManifestDb` refines it with `Opening`, `Opened`, `Sharing` and `Finds`. What SQLite caches is
left out: a query is a read of the file.

### Archive, Backup

What the database has of a file is an archive: objects that refer to each other by index, the root
among them. `Archive` follows the references as `MBFile::from_plist` does, with every way in which
they may lead nowhere, and says what becomes of an archive: an entry, an error, or the panic of
`split_at`. A key blob is its length, the key it is wrapped with and the key inside. A stored file
is the key it is encrypted with, its length and its padding.

Which rows a session finds depends on what the temporary database holds at that moment (`Found`), so
that an entry may come from another backup; the field `of` of an entry remembers which, for the
properties only. What a user does with an entry depends on the session's own directory and class
keys. An entry is a value that the user keeps, also when the session that gave it is over.
`WholeError` and `StreamError` are the checks of the two ways to decrypt, each in the order of its
function, with the panic on an id of fewer than two bytes: `decrypt_entry` reads all of the file
before it takes the key, `decrypt_entry_stream` opens it, takes the key and reads the first block.
A file that is there may fail to be opened or read at any of these points (`fails`), and later on,
while the stream is read (`DrainFails`); `unread` is history, which of the two ways met that.
`OpenStream` and `Drain` are the construction of the reader and its use up to the end, of which the
proofs about `CbcReader` say that it is the one-shot decryption. A caller that reads on after an
error is in `CbcRetry`, not here. With a key that is not the file's, the padding is wrong or by
chance is not (`Decrypted`). A failing call
changes nothing and has no action of its own, unless it is one of the two decryptions, whose results
are compared; a lookup that panics leaves what the end of the session leaves, which `ManifestDb`
has.

`decrypt_entry` says that missing keys are a `Crypto` error (`mod.rs:414`). The model has what the
code does: `Crypto` when the class key is missing, `NotEncrypted` when the entry has no key
(`mod.rs:512`).

### Tlv, BlockSource

`Tlv` is the iterator over bytes: a tag, a big-endian length of four bytes, a value, with positions
computed in a `usize` of either width (`Widths`; with the narrow one a sum may wrap around). The blob is what is
left of blocks written one after the other when it is cut off anywhere; any bytes that have room for
a header are such a blob. How many values a byte has and how long a tag is are constants, so that a
length of four bytes stays within TLC's reach. `BlockSource` is what the parser relies on: the blocks that are whole,
once each and in order, then one failure if a value is cut, then nothing. `KeyRing` takes its bag as
such a sequence of blocks, the last of which may be cut: a `CUT` block is told as an error
(`CutOff`), an `OVER` block is one whose end a `usize` cannot hold, which panics (`EndOverflows`;
with 64 bits there is none).

### KeyRing, Manifest, Hex

A bag is a sequence of TLV blocks `[tag, len, val]`. `val` is a number that stands for the bytes;
for blocks of four bytes it is the number they encode. There is an action per arm of the `match`,
with the errors and the panic. `Written` states what a bag means off its layout, by positions: where
a record begins and ends, that the last block of a kind and the last record of a class count.

`Manifest` adds the authentication, the master key as the tuple of what it is derived from, and the
loop over the classes with a set `todo` from which any class may come next. `Wrapped` says of each
wrapped value which key it contains and under which. Cryptography is ideal: different passwords or
parameters never derive the same key, and AES key wrap refuses every key but its own. `Reopen` feeds
the key of an open backup back as its authentication, as the text that `hex_encode` makes.

`Hex` has texts as the bytes of their UTF-8: digits in both cases, a sign, other characters, and the
two bytes of a longer one. `from_str_radix` takes a sign for a part of a number, so that `+f` is a
byte; a slice that begins inside a character panics. `Spells` says which texts are spellings of a
key.

### Plist, Open

`Plist` is values by type, with the getters as "present and of this type". `Open` is the call of
`Backup::open`, or of `get_device_basic_info`, check by check: directory, `Manifest.plist`, what
`ManifestData::from_plist` asks for and in which order (`Asked`), the key bag and the keys (the
actions of `Manifest`), the database, and the steps of `ManifestDb::new` up to the temporary file,
where `ManifestDb` takes over (`CopyDb` has any of its results, with names of their own,
`CopyErrors`, so that a failure of the temporary file is not taken for one of the keys). Between any two steps a file, or
all of the backup, may disappear (`Lose`); SQLite creates an empty database where it finds none.
`Knows` and `KeySealed` say, off the code's path, who ought to get in.

## Runs

| run | result | bounds |
|---|---|---|
| `reader` | types, order, agreement with the one-shot call, round trip, `PlainStream` | block 3, buffer 6, ciphertexts up to 16 bytes with every pad count, callers' buffers as in `MCOutLens` |
| `reader_stream` | `PlainStream` and `Drains` with a source that fails for good | same, no empty buffers |
| `reader_interrupted` | a caller that goes on after every error: nothing comes twice or out of order, and nothing that is no plaintext before a padding error was told | same, buffers of 0, 2 and 7 bytes |
| `reader_interrupted_loss` | **violated**: bytes get lost | same |
| `reader_short_reads` | **violated**: bytes get lost when the source returns short | same |
| `reader_memory` | **violated**: the reader holds a chunk, not two blocks | buffer 9, so that a chunk is more than two blocks |
| `manifest_db` | types, own database when alone, no stale rows, no litter, `PrivateDb` | two encrypted sessions, one not, databases of 2 and 1 pieces, every fault |
| `manifest_db_shared` | **violated**: one session lists the other's files | two sessions, no fault |
| `backup` | own plaintext only, both ways agree, own entries decrypt | two encrypted sessions with crashes, databases of 2 and 1 pieces, two inodes; one looks up and decrypts 10 files, which may fail to be read, each odd in another way, in archives of several layouts; rows of the other are damaged |
| `tlv` | `BlockSource`, and the end comes | a byte has 2 values, a tag one byte, a length four; up to two blocks with lengths that have none, one, two or all of the bits set, and three of a few lengths, cut at every byte; a usize of 16 and of 4096 values |
| `open` | classes as written, all or none, the password decides, the derived key, the plist decides, end to end only the right key opens, every panic explained, the call returns | 215 bags: 7 headers with one of 11 records, one header with two, cut off in any of three ways; and one plist with each field missing, of another type or damaged; 13 authentications; losses before five of the steps |
| `key_ring_wrap` | **violated**: without a header WRAP the first record loses its own | 7 headers, up to two of 11 records, cut off in any of three ways |

Why the bounds are enough. Three chunks of two blocks give every combination of an empty, partial
and full chunk with a partial, single and last block, and a block of three bytes has an inside, a
start and an end; buffers of callers are shorter than, equal to and longer than a block and a chunk.
With two pieces against one, what a session leaves behind is longer than what the next writes. Two
sessions meet in all ways, and what a third could add the proofs cover. Every kind of record occurs
both before and after every other of its group, with a class that two records share; bags of two
records have one header in `open`, since the header is over when the records begin. Lengths of
blocks go through zero, each of the four digits alone, a pair of them and the longest there is, and
every cut of three blocks lies in a tag, a length or a value of one of them. The plists differ from a
sound one in one field each; the order in which several damaged fields are reported is the order of
`Asked` and no property asks for it. Keys have five bytes of two digits, one for each thing they are
derived from. Files vanish before each step that looks at one. Sessions reopen without a bound, so
that crashes and leftovers accumulate; there are more inodes than can be in use at once (`backup`
declares the inodes symmetric: none is ever singled out, and two are enough for its two sessions,
since the name leads to one of them whenever both are in use). The files of `backup` are one for each way
a row or a stored file may be odd, in the order in which the code finds out, and one that is odd in
two ways, so that the order of checks shows.

The five violated runs are the disagreements with the documentation that came up while modelling;
`PROJECT.json` quotes the lines. In short: the reader is right over files and over what a
`BufReader` makes of them, but not over "any `Read` source", nor when the source is interrupted; the
temporary file makes concurrent sessions of encrypted backups interfere. How far that goes is what
`backup` asks: a session may list another's files, or none, but key wrap keeps it from handing out
anything but plaintext of its own. Also, `drop` removes by name, so that the path of an open session
(`manifest_db_path`) may lead nowhere or to another database.

Deadlock is checked in the reader, database and backup runs. The parser and the opening of a backup
end, and so does the iterator once it has panicked: `key_ring_wrap`, `open` and `tlv` say
`CHECK_DEADLOCK FALSE`.

### Fairness

`reader_stream` assumes weak fairness of the loop of `read()`, which runs in one thread and blocks
on nothing but its source, and of a caller that keeps reading until the end or an error, as
`io::copy` does, with buffers that are not empty. Files are finite and do not grow. `open` assumes
that a call which has begun runs on (`Returns`), but not that files stay, nor that anybody opens the
backup again. `tlv` assumes that the parser's `for` loop goes on asking (`Ends`). No other run needs
any.

## Proofs

TLAPS checks the theorems for all values of the constants that satisfy the named assumptions. Those
say what the code takes for granted (blocks of at least one byte, blobs that a writer wrote, a
`usize` of at least 32 bits) and what values are, and TLC evaluates them on the instances. Eight
modules hold theorems.

The reader (`BlockAssumption`, `ReaderAssumption`):

* **`TypeCorrect`** (reader): for any source. Besides the types it needs that what the reader and
  the `BufReader` hold together is in the file.
* **`PlaintextArrivesInOrder`, `StreamIsOneShot`, `EncryptedStreamsBack`,
  `ReaderImplementsPlainStream`**: under `FillingSource`, a source that does not return short and is
  not interrupted (the violated runs show that neither can be dropped). The invariant is not
  inductive by itself; `IInv` adds that nothing has been read before the stream is open
  (`Unopened`), that the lookahead is on a block boundary and in the file (`Aligned`), that the
  chaining register holds the block before it (`Chained`), that delivered, written and pending bytes
  together reach exactly to the lookahead (`Accounted`), that they are the plaintext of their
  offsets (`Contents`), and what is true at each end (`Ends`). The one hard step is `DecryptChunk`:
  a chunk that leaves off inside a block can only be the last one, since the source fills what it
  can.
* **`RoundTrip`**: `OneShot` undoes `Encryption`, by arithmetic of blocks.
* **`NothingComesTwice`** (`CbcRetryProofs`): for any source, one that returns short and fails
  included, and a caller that ignores every error. Its invariant knows nothing of blocks that are
  whole or of the chaining register: what is delivered, in the caller's buffer and left in `buf` is
  in order (`InOrder`), and until the last block is decrypted it lies before the lookahead, which
  has been read (`Behind`). The blocks of a chunk do not overlap (`BlocksApart`), wherever they
  begin.
* **`LessThanABlockIsWrong`**: the same caller, over a source that does not return short. With
  `ShortReads` even a caller that gives up gets garbage. After an error bytes may be lost, so
  `Accounted` does not hold. `RInv` has in its place that what has been delivered is in order and
  lies before what is pending (`Sensible`), or that the last block has been decrypted a second time
  and less than a block of what it gave is or was handed out (`Senseless`); and the register holds
  the block before the lookahead or, after a padding error at the end of the file, the lookahead
  itself (`ChainedOrSpent`).

The database and the sessions (`ManifestDbAssumption`, `BackupAssumption`, `KeysAssumption`):

* **`TypeCorrect`, `AloneIsSafe`, `LeftoversAreNeverRead`, `NothingLeftBehind`** (database): for any
  number of sessions, sizes and faults. `IInv` adds that only encrypted sessions touch the file,
  that sessions that use it at the same time have met, that what the name leads to and what each
  handle leads to has been written only by sessions that were met, and that a session alone holds
  exactly what it has copied so far.
* **`ManifestDbImplementsPrivateDb`**: each step is a step of `PrivateDb` or not seen by it. It
  needs, besides `IInv`, that a session has met nobody before it creates its file (`NotMetYet`): a
  copy of a session that shares is an `Overwrite`, one that does not share is seen by nobody, since
  two that are active have met.
* **`NoForeignPlaintext`, `WaysAgree`, `OwnEntriesOpen`, `BackupTypeCorrect`** (backup): for any
  number of sessions, users, files and rows. The invariant says that a result is what the entry, the
  user's directory and its class keys determine, or one of the errors that a file which cannot be
  read may give at the point that was reached (`WholeFollows`, `StreamFollows`), and that every
  entry, whoever's row it was, has a key that is that of its file if it is of the user's own backup
  (`EntriesProper`, from `KeysAssumption`, which says what the archives of backups wrap; what
  `Archive` makes of them is taken from the definitions, for any archives). Key wrap then refuses
  every other. `WaysAgree` rests on a comparison of the two sequences of checks (`WholeReads`,
  `StreamReads`, `SameErrors`): they let the same entries through to the decryption and, where they
  refuse, name the same reason, unless a read failed; then it says what each may report. The invariant of `ManifestDb` is part of it, since its steps are steps of `Backup`.

The key bag (`TlvAssumption`, `KeyRingAssumption`):

* **`BlobIsASource`, `IteratorTypes`**: the iterator implements `BlockSource`, for any number of
  blocks of any lengths, cut off anywhere. `TlvInv` says that the iterator stands where a block
  begins that is whole, or at the first that is not, or at the end once that one has been reported
  (`Position`). The work is in the layout: where the k-th block begins (`Layout`), that it is there
  byte for byte (`BlobHas`), that four digits are read as the number they were written for
  (`BigEndianIsRead`), and that a sum that wraps around does so once and lands before the value, so
  that it is never taken for an end within the blob (`AtCut`).
* **`ParserIsAFunction`**: for a bag of any layout, whole or not, the outcome and the class keys are
  a function of the bag. `KInv` states that function by positions, for the blocks read so far:
  which of them are the header's and what it says by then (`HeadFollows`), that the open record is
  that of the last UUID that is not the header's (`CurrentFollows`), that the class keys are those
  of the records before it (`KeysFollow`), and that no block and no finished record has been bad
  (`VerdictFollows`).
* **`EveryClassHasItsKeys`**, from it: for a bag with a whole header, this function is what `Written`
  says the bag means, which knows nothing of the parser. **`PanicsOnRecordsWithoutClass`**: the parser panics on such a
record and on an `OVER` block, and on nothing else;
  **`KeyRingTypes`**.

Opening (also `ManifestAssumption`, `HexAssumption`, `OpenAssumption`):

* **`OrderOfClassesIsIrrelevant`, `OnlyThePasswordOpens`, `KeyOpensLikePassword`,
  `UnlockingTypes`**: for every bag, way of wrapping and order of the map. `MInv` adds to `KInv`
  that the master key follows from header and authentication, that the classes visited let the loop
  go on and the protected ones among them are unlocked (`LoopFollows`), that the outcome follows
  from the classes (`OutcomeFollows`), and what the first opening left for the second
  (`EarlierFollows`). That the order does not matter comes from stating the loop by the set it has
  visited.
* **`HexReadsWhatItWrites`**: `hex_decode` undoes `hex_encode` for keys of every length, and accepts
  for a key exactly its spellings.
* **`PlistAloneDecides`, `FreshOnlyIfLost`, `KeysChainToTheDatabase`, `OnlyItsKeyOpens`,
  `NoOtherPanics`, `OpeningTypes`**: for every property list, authentication and moment at which
  files disappear. `OInv` adds how far the call and `from_manifest_data` are (`StageFits`), which
  checks of the plist are behind (`PlistFits`), that a database is missing at the connection only if
  it was lost after the check (`DbFits`), and that a database is decrypted only with a key that fits
  and refused only without one (`KeyFollows`). `OnlyItsKeyOpens` says of the right key that nothing
  refuses it up to the temporary file, whose own failures have other names; `NoOtherPanics` is about
  these two calls only: a short key blob in a row and a short file id panic elsewhere (`Archive`,
  `Backup`). **`OpeningKeepsItsParts`**: what is proved of parser
  and unlocking holds within `open`, since its steps on them are theirs.

Induction over the naturals or over the elements of a set is done for a set at hand, by its least
element (`LeastNumber`, `AllNaturals`): `<` is well founded, and the library's induction theorems take
an operator, which no installed prover instantiates. `FlattenSeq` is a recursive function and goes
through that way (`FlatSteps`), as do `Min` and `Max`.

Model-checked only: `Drains`, `Returns` and `Ends`, which are liveness. Where the source returns
short, only `TypeCorrect` and `NothingComesTwice` are proved; the violated run shows why.

## Not modelled

* The other metadata of files, devices and applications: asked for, so that their absence is an
  error, and copied. The accessors of `Backup`, which only return fields. The grouping of domains in
  the SQL text of `query_all_domains`. The texts of errors.
* The strength of the cryptography: key derivation and key wrap are ideal, a block decrypted with
  the wrong key or predecessor is garbage.
* What SQLite caches or journals. A query reads the file, at once: a row and the blob it leads to
  are two reads in the code, and SQLite keeps the pages of a statement that is active.
* A backup that is written anew while a session is open: the stored files of `Backup` stay, and in
  `Open` files may go but not change.
* Memory and time.

## Plan

1. *(done)* reader, database, key bag, unlocking; proofs for the reader and the database.
2. *(done)* `Backup`: open sessions that look up, list and decrypt entries, from archives in any
   layout; `Open`: the opening as one operation, over files that disappear.
3. *(done)* `Tlv` against `BlockSource`; `Hex` as part of `Open`; `Plist` and what is asked of it.
4. *(done)* `PrivateDb`, the abstract database of one session, and the proof that `ManifestDb`
   implements it.
5. *(done)* Proofs for `KeyRing`, `Manifest`, `Hex`, `Open`, `CbcRetry` and `Tlv`: every safety
   property and every refinement that a run checks has its theorem.
6. Left: what joins the parts. That an archive in any layout is read as its writer meant it
   (`Archive`, as `Written` for `KeyRing`), so that `KeysAssumption` of `Backup` speaks of writers
   only; that a bag which `BlockSource` cuts is refused by `KeyRing` wherever the cut is; a backup
   that is written anew during a session.
