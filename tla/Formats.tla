------------------------------ MODULE Formats ------------------------------
(***************************************************************************)
(* What CryFS writes into files and blocks and reads back later:           *)
(*   - the integrity data of KnownBlockVersions (a file of the local       *)
(*     state directory),                                                   *)
(*   - the configuration file cryfs.config (OuterConfig around InnerConfig *)
(*     around the padded JSON, both encrypted), and the fields of the JSON *)
(*     document,                                                           *)
(*   - the entries of a directory blob (DirEntryList),                     *)
(*   - the run length encoding of the compressing block store.             *)
(* A document is saved, the process may die while the file is written, and *)
(* the file is loaded again, in the old format too where the code still    *)
(* reads it.                                                               *)
(*                                                                         *)
(* A byte is a number below Base, an integer of the format takes Width     *)
(* bytes and a block id IdLength bytes, so that values of a few bytes      *)
(* exercise every boundary.  beyond is the byte found in memory behind the *)
(* loaded file: Deserializer::readFixedSizeData does not check its bounds. *)
(***************************************************************************)
EXTENDS RunLengthEncoding, FiniteSets, TLC

CONSTANTS
    Base, Width, IdLength,
    InnerConfigSize, OuterConfigSize,   \* CONFIG_SIZE of ConcreteInnerEncryptor and of OuterEncryptor
    AEADCiphers, CFBCiphers,            \* CryCiphers::SUPPORTED_CIPHERS: the names of either class
    DefaultBlocksize, NoClient,         \* the block size of old versions; no exclusive client
    Documents       \* the documents a behaviour may start with

VARIABLES
    doc,        \* what the program has in memory when it saves
    file,       \* the bytes on disk
    beyond,
    phase,      \* "new", "saved", "save failed", "torn", "loaded" or "refused"
    loaded      \* what the last load returned

fvars == <<doc, file, beyond, phase, loaded>>

(***************************************************************************)
(* SerializationHelper.h: integers are copied in the machine's byte order. *)
(***************************************************************************)
serialize(v, w) == [i \in 1..w |-> (v \div Base^(i - 1)) % Base]
deserialize(bytes) == FoldFunction(+, 0, [i \in DOMAIN bytes |-> bytes[i] * Base^(i - 1)])

(***************************************************************************)
(* Serializer: a buffer of a size that is computed beforehand.             *)
(***************************************************************************)
Serializer(size) == [out |-> <<>>, size |-> size, err |-> FALSE]

\* _writeData and _write: never past the end of the buffer
_writeData(s, bytes) ==
    IF s.err \/ Len(s.out) + Len(bytes) > s.size THEN [s EXCEPT !.err = TRUE]
                                                 ELSE [s EXCEPT !.out = @ \o bytes]
_write(s, v, w) == _writeData(s, serialize(v, w))
writeBool(s, b) == _write(s, IF b THEN 1 ELSE 0, 1)
writeData(s, d) == _writeData(_write(s, Len(d), Width), d)
writeTailData(s, d) == IF Len(s.out) + Len(d) # s.size THEN [s EXCEPT !.err = TRUE] ELSE _writeData(s, d)
writeString(s, str) == _writeData(s, Append(str, 0))
StringSize(str) == Len(str) + 1
DataSize(d) == Width + Len(d)

\* finished() throws unless the buffer is full
finishedWriting(s) == [s EXCEPT !.err = @ \/ Len(s.out) # s.size]

(***************************************************************************)
(* Deserializer: a read appends its value to vals and advances the         *)
(* position; after an exception nothing more is read.                      *)
(***************************************************************************)
Deserializer(bytes) == [src |-> bytes, pos |-> 0, err |-> FALSE, vals |-> <<>>]
Throw(d) == [d EXCEPT !.err = TRUE]
Val(d) == Last(d.vals)

\* the bytes [_pos, _pos + n) of the buffer, and what is behind it
BytesAt(d, n) == [i \in 1..n |-> IF d.pos + i <= Len(d.src) THEN d.src[d.pos + i] ELSE beyond]
Take(d, n, val) == IF d.err THEN d ELSE [d EXCEPT !.pos = @ + n, !.vals = Append(@, val)]

_read(d, w) == IF d.pos + w > Len(d.src) THEN Throw(d) ELSE Take(d, w, deserialize(BytesAt(d, w)))
readBool(d) == IF d.pos < Len(d.src) /\ BytesAt(d, 1)[1] \in {0, 1} THEN Take(d, 1, BytesAt(d, 1)[1] = 1) ELSE Throw(d)
readFixedSizeData(d, n) == Take(d, n, BytesAt(d, n))
_readData(d) == \* after the size
    IF d.err THEN d
    ELSE IF d.pos + Val(d) > Len(d.src) THEN Throw(d)
    ELSE [d EXCEPT !.pos = @ + Val(d), !.vals = Append(Front(@), BytesAt(d, Val(d)))]
readData(d) == _readData(_read(d, Width))
readTailData(d) == IF d.err THEN d ELSE Take(d, Len(d.src) - d.pos, BytesAt(d, Len(d.src) - d.pos))
NullByte(d) == SelectInSubSeq(d.src, d.pos + 1, Len(d.src), LAMBDA b : b = 0)
readString(d) ==
    IF d.err \/ NullByte(d) = 0 THEN Throw(d)
    ELSE Take(d, NullByte(d) - d.pos, BytesAt(d, NullByte(d) - d.pos - 1))
finishedReading(d) == IF d.pos # Len(d.src) THEN Throw(d) ELSE d

\* the last n values become one
Group(d, n) ==
    IF d.err THEN d
    ELSE [d EXCEPT !.vals = Append(SubSeq(@, 1, Len(@) - n), SubSeq(@, Len(@) - n + 1, Len(@)))]

(***************************************************************************)
(* KnownBlockVersions: the integrity data.                                 *)
(***************************************************************************)
STATE_HEADER == <<1, 2>>
STATE_OLD_HEADER == <<1, 1>>

serializeKnownVersionsEntry(s, e) == _write(_writeData(_write(s, e[1], Width), e[2]), e[3], Width)
serializeLastUpdateClientIdEntry(s, e) == _write(_writeData(s, e[1]), e[2], Width)
_serializeKnownVersions(s, known) ==
    FoldLeft(serializeKnownVersionsEntry, _write(s, Len(known), Width), known)
_serializeLastUpdateClientIds(s, last) ==
    FoldLeft(serializeLastUpdateClientIdEntry, _write(s, Len(last), Width), last)

\* a mutant: the size of the file before it had the violation flag
SizeWithoutFlag(known, last) ==
    StringSize(STATE_HEADER) + Width + Len(known) * (Width + IdLength + Width) + Width + Len(last) * (IdLength + Width)

\* _saveStateFile: known and last are the maps in the order they are iterated in
StateSize(known, last) ==
    StringSize(STATE_HEADER) + 1
      + Width + Len(known) * (Width + IdLength + Width)
      + Width + Len(last) * (IdLength + Width)
_saveStateFile(violation, known, last) ==
    LET s1 == writeBool(writeString(Serializer(StateSize(known, last)), STATE_HEADER), violation)
    IN  finishedWriting(_serializeLastUpdateClientIds(_serializeKnownVersions(s1, known), last))

\* before the header changed, the violation flag was not part of the file
OldStateFile(known, last) ==
    LET s1 == writeString(Serializer(StateSize(known, last) - 1), STATE_OLD_HEADER)
    IN  finishedWriting(_serializeLastUpdateClientIds(_serializeKnownVersions(s1, known), last))

_deserializeKnownVersionsEntry(d) == Group(_read(readFixedSizeData(_read(d, Width), IdLength), Width), 3)
_deserializeLastUpdateClientIdEntry(d) == Group(_read(readFixedSizeData(d, IdLength), Width), 2)

\* numEntries, then as many entries, inserted into a map
AsMap(d, n) == IF d.err THEN d ELSE [d EXCEPT !.vals = Append(SubSeq(@, 1, Len(@) - n - 1), Range(SubSeq(@, Len(@) - n + 1, Len(@))))]

RECURSIVE knownVersionsEntries(_, _)
knownVersionsEntries(d, n) == IF d.err \/ n = 0 THEN d ELSE knownVersionsEntries(_deserializeKnownVersionsEntry(d), n - 1)
KnownVersions(d) == IF d.err THEN d ELSE AsMap(knownVersionsEntries(d, Val(d)), Val(d))
_deserializeKnownVersions(d) == KnownVersions(_read(d, Width))

RECURSIVE lastUpdateClientIdEntries(_, _)
lastUpdateClientIdEntries(d, n) ==
    IF d.err \/ n = 0 THEN d ELSE lastUpdateClientIdEntries(_deserializeLastUpdateClientIdEntry(d), n - 1)
LastUpdateClientIds(d) == IF d.err THEN d ELSE AsMap(lastUpdateClientIdEntries(d, Val(d)), Val(d))
_deserializeLastUpdateClientIds(d) == LastUpdateClientIds(_read(d, Width))

\* after the header: the flag is FALSE where the old format has none
StateAfterHeader(d) ==
    IF d.err THEN d
    ELSE IF Val(d) = STATE_OLD_HEADER THEN Take(d, 0, FALSE)
    ELSE IF Val(d) = STATE_HEADER THEN readBool(d)
    ELSE Throw(d)
StateRead(d) ==
    IF d.err THEN [err |-> TRUE]
    ELSE [err |-> FALSE, old |-> d.vals[1] = STATE_OLD_HEADER,
          content |-> [kind |-> "state", violation |-> d.vals[2], known |-> d.vals[3], last |-> d.vals[4]]]
_loadStateFile(bytes) ==
    StateRead(finishedReading(_deserializeLastUpdateClientIds(_deserializeKnownVersions(
        StateAfterHeader(readString(Deserializer(bytes)))))))

(***************************************************************************)
(* The configuration file.  The outer cipher is always AES-256-GCM, an     *)
(* AEADCipher: a ciphertext is a nonce, the data and a tag, and decryption *)
(* fails unless the tag is the one of this data and key.  A tag is a byte  *)
(* value that occurs nowhere else, so no other bytes carry it.  The inner  *)
(* cipher, the one of the blocks, is of this class or a CFB_Cipher, which  *)
(* does not authenticate.                                                  *)
(***************************************************************************)
IV_SIZE == 1
TAG_SIZE == 1
OuterKey == Base
InnerKey == Base + 1
encrypt(key, plaintext) == <<0>> \o plaintext \o <<key>>
decrypt(key, ciphertext) ==
    IF Len(ciphertext) < IV_SIZE + TAG_SIZE THEN [err |-> TRUE]
    ELSE IF Last(ciphertext) # key THEN [err |-> TRUE]
    ELSE [err |-> FALSE, val |-> SubSeq(ciphertext, IV_SIZE + 1, Len(ciphertext) - TAG_SIZE)]

\* CFB_Cipher::encrypt and decrypt: a nonce and the data
encryptCFB(plaintext) == <<0>> \o plaintext
decryptCFB(ciphertext) ==
    IF Len(ciphertext) < IV_SIZE THEN [err |-> TRUE]
    ELSE [err |-> FALSE, val |-> SubSeq(ciphertext, IV_SIZE + 1, Len(ciphertext))]

\* CryCiphers::find, an assertion for an unknown name
find(cipherName) == IF cipherName \in AEADCiphers THEN "AEAD" ELSE IF cipherName \in CFBCiphers THEN "CFB" ELSE "assert"

\* RandomPadding::add and remove; the random bytes are all 1
TooLong(data, targetSize) == Len(data) >= targetSize - Width
addPadding(data, targetSize) ==
    serialize(Len(data), Width) \o data \o [i \in 1..(targetSize - Width - Len(data)) |-> 1]
removePadding(data) ==
    LET size == deserialize(BytesAt(Deserializer(data), Width))
    IN  IF Width + size >= Len(data) THEN [err |-> TRUE]
        ELSE [err |-> FALSE, val |-> SubSeq(data, Width + 1, Width + size)]

\* SCryptParameters: serialize, deserialize, and the salt as sized data in the old format
serializeKdf(k) ==
    finishedWriting(writeTailData(_write(_write(_write(Serializer(Len(k[4]) + 3 * Width), k[1], Width), k[2], Width), k[3], Width), k[4])).out
deserializeKdf(bytes) == Group(finishedReading(readTailData(_read(_read(_read(Deserializer(bytes), Width), Width), Width))), 4)
deserializeKdfOldFormat(d) == Group(readData(_read(_read(_read(d, Width), Width), Width)), 4)

INNER_HEADER == <<3, 1>>
OUTER_HEADER == <<2, 2>>
OUTER_OLD_HEADER == <<2, 1>>

\* ConcreteInnerEncryptor::encrypt and InnerConfig::serialize
serializeInner(cipherName, encrypted) ==
    finishedWriting(writeTailData(writeString(writeString(
        Serializer(StringSize(INNER_HEADER) + StringSize(cipherName) + Len(encrypted)), INNER_HEADER), cipherName), encrypted))
encryptInner(cipherName, padded) == IF find(cipherName) = "CFB" THEN encryptCFB(padded) ELSE encrypt(InnerKey, padded)
InnerBytes(cipherName, json) == serializeInner(cipherName, encryptInner(cipherName, addPadding(json, InnerConfigSize))).out

\* CryConfigEncryptor::encrypt: OuterEncryptor::encrypt and OuterConfig::serialize around the inner config
serializeOuter(params, encrypted) ==
    finishedWriting(writeTailData(writeData(writeString(
        Serializer(StringSize(OUTER_HEADER) + DataSize(params) + Len(encrypted)), OUTER_HEADER), params), encrypted))
encryptConfig(kdf, cipherName, json) ==
    IF find(cipherName) = "assert" \/ TooLong(json, InnerConfigSize) THEN [err |-> TRUE]
    ELSE IF TooLong(InnerBytes(cipherName, json), OuterConfigSize) THEN [err |-> TRUE]
    ELSE serializeOuter(serializeKdf(kdf), encrypt(OuterKey, addPadding(InnerBytes(cipherName, json), OuterConfigSize)))

\* the same file as versions before the header changed wrote it
OldConfigFile(kdf, cipherName, json) ==
    [err |-> FALSE,
     out |-> Append(OUTER_OLD_HEADER, 0) \o serialize(kdf[1], Width) \o serialize(kdf[2], Width) \o serialize(kdf[3], Width)
               \o serialize(Len(kdf[4]), Width) \o kdf[4] \o encrypt(OuterKey, addPadding(InnerBytes(cipherName, json), OuterConfigSize))]

\* OuterConfig::deserialize: the kdf parameters as bytes and the encrypted inner config; an exception becomes none
_deserializeOldFormat(d) == [d EXCEPT !.vals = IF d.err THEN @ ELSE Append(Front(@), serializeKdf(Last(@)))]
OuterAfterHeader(d) ==
    IF d.err THEN d
    ELSE IF Val(d) = OUTER_OLD_HEADER THEN _deserializeOldFormat(deserializeKdfOldFormat(d))
    ELSE IF Val(d) = OUTER_HEADER THEN readData(d)
    ELSE Throw(d)
deserializeOuter(bytes) == finishedReading(readTailData(OuterAfterHeader(readString(Deserializer(bytes)))))

\* InnerConfig::deserialize: the header, the cipher's name and the encrypted config
_checkHeader(d) == IF d.err \/ Val(d) # INNER_HEADER THEN Throw(d) ELSE d
deserializeInner(bytes) == finishedReading(readTailData(readString(_checkHeader(readString(Deserializer(bytes))))))

\* ConcreteInnerEncryptor::decrypt and OuterEncryptor::decrypt
withoutPadding(p) == IF p.err THEN p ELSE removePadding(p.val)
decryptPadded(key, ciphertext) == withoutPadding(decrypt(key, ciphertext))

\* CryConfigEncryptor::_innerEncryptor: the cipher that the file names
_innerEncryptor(cipherName, ciphertext) ==
    CASE find(cipherName) = "AEAD" -> decryptPadded(InnerKey, ciphertext)
      [] find(cipherName) = "CFB" -> withoutPadding(decryptCFB(ciphertext))
      [] OTHER -> [err |-> TRUE]

\* CryConfigEncryptor::decrypt: every step may give none.  The file's own parameters give the key.
Decrypted(outer, inner, json) ==
    IF json.err THEN json
    ELSE [err |-> FALSE, old |-> outer.vals[1] = OUTER_OLD_HEADER,
          content |-> [kind |-> "config", kdf |-> Val(deserializeKdf(outer.vals[2])), cipherName |-> inner.vals[2],
                       json |-> json.val]]
decryptInner(outer, inner) ==
    IF inner.err THEN [err |-> TRUE] ELSE Decrypted(outer, inner, _innerEncryptor(inner.vals[2], inner.vals[3]))
decryptOuter(outer, bytes) == IF bytes.err THEN bytes ELSE decryptInner(outer, deserializeInner(bytes.val))
decryptParsed(outer) ==
    IF outer.err THEN [err |-> TRUE] ELSE decryptOuter(outer, decryptPadded(OuterKey, outer.vals[3]))
decryptConfig(bytes) == decryptParsed(deserializeOuter(bytes))

(***************************************************************************)
(* DirEntryList and DirEntry.  A mode holds the permission bits and the    *)
(* flag of the entry's type.  Reading does not look at the blob's size.    *)
(***************************************************************************)
hasFlagOf(mode, type) == mode \div Base = type
TimeBytes(t) == serialize(t[1], Width) \o serialize(t[2], Width)
serializeEntry(e) ==
    serialize(e.type, 1) \o serialize(e.mode, Width) \o serialize(e.uid, Width) \o serialize(e.gid, Width)
      \o TimeBytes(e.atime) \o TimeBytes(e.mtime) \o TimeBytes(e.ctime) \o Append(e.name, 0) \o e.blockId
serializedSize(e) == 1 + 3 * Width + 3 * (2 * Width) + (Len(e.name) + 1) + IdLength

\* the order of block ids: the first byte that differs decides
IdLess(a, b) == \E i \in 1..IdLength : a[i] < b[i] /\ \A j \in 1..(i - 1) : a[j] = b[j]
OrderedById(entries) == \A i \in 2..Len(entries) : IdLess(entries[i - 1].blockId, entries[i].blockId)

\* DirEntryList::serialize, with its assertions and those of DirEntry::serialize
serializeEntries(entries) ==
    LET size == FoldLeft(LAMBDA n, e : n + serializedSize(e), 0, entries)
        out == FoldLeft(LAMBDA bytes, e : bytes \o serializeEntry(e), <<>>, entries)
    IN  [err |-> \/ ~OrderedById(entries)
                 \/ \E i \in DOMAIN entries : ~hasFlagOf(entries[i].mode, entries[i].type)
                 \/ \E i \in DOMAIN entries : Len(serializeEntry(entries[i])) # serializedSize(entries[i])
                 \/ Len(out) # size,
         out |-> out]

unchecked(d, w) == Take(d, w, deserialize(BytesAt(d, w)))
readTime(d) == Group(unchecked(unchecked(d, Width), Width), 2)
readMetadata(d) == unchecked(unchecked(unchecked(unchecked(d, 1), Width), Width), Width)
EntryOf(v) ==
    [type |-> v[1], mode |-> v[2], uid |-> v[3], gid |-> v[4], atime |-> v[5], mtime |-> v[6], ctime |-> v[7],
     name |-> v[8], blockId |-> v[9]]
deserializeAndAddToVector(d) ==
    Group(readFixedSizeData(readString(readTime(readTime(readTime(readMetadata(d))))), IdLength), 9)

\* while (pos < data + size)
RECURSIVE readEntries(_)
readEntries(d) == IF d.err \/ d.pos >= Len(d.src) THEN d ELSE readEntries(deserializeAndAddToVector(d))

DirectoryRead(err, entries) ==
    IF err \/ ~OrderedById(entries) THEN [err |-> TRUE]
    ELSE [err |-> FALSE, old |-> FALSE, content |-> [kind |-> "directory", entries |-> entries]]
EntriesRead(d) == DirectoryRead(d.err, [i \in DOMAIN d.vals |-> EntryOf(d.vals[i])])
deserializeFrom(bytes) == EntriesRead(readEntries(Deserializer(bytes)))

(***************************************************************************)
(* CryConfig: the JSON document inside the configuration file, a property  *)
(* tree.  Fields that older versions did not write have defaults.          *)
(***************************************************************************)
saveFields(c) ==
    [rootblob |-> c._rootBlob, key |-> c._encKey, cipher |-> c._cipher, version |-> c._version,
     createdWithVersion |-> c._createdWithVersion, lastOpenedWithVersion |-> c._lastOpenedWithVersion,
     blocksizeBytes |-> c._blocksizeBytes, filesystemId |-> c._filesystemId]
    @@ (IF c._exclusiveClientId = NoClient THEN <<>> ELSE [exclusiveClientId |-> c._exclusiveClientId])
    @@ [hasVersionNumbers |-> c._hasVersionNumbers, hasParentPointers |-> c._hasParentPointers]

get(pt, field, default) == IF field \in DOMAIN pt THEN pt[field] ELSE default
loadFields(pt) ==
    [kind |-> "fields", _rootBlob |-> pt.rootblob, _encKey |-> pt.key, _cipher |-> pt.cipher,
     _version |-> get(pt, "version", "0.8"),
     _createdWithVersion |-> get(pt, "createdWithVersion", get(pt, "version", "0.8")),
     _lastOpenedWithVersion |-> get(pt, "lastOpenedWithVersion", get(pt, "version", "0.8")),
     _blocksizeBytes |-> get(pt, "blocksizeBytes", DefaultBlocksize), _filesystemId |-> pt.filesystemId,
     _exclusiveClientId |-> get(pt, "exclusiveClientId", NoClient),
     _hasVersionNumbers |-> get(pt, "hasVersionNumbers", FALSE),
     _hasParentPointers |-> get(pt, "hasParentPointers", FALSE)]

\* the fields that the versions up to 0.8, 0.9.2 and 0.9.8 did not write
FieldsOf(c, missing) == [f \in DOMAIN saveFields(c) \ missing |-> saveFields(c)[f]]
OldFields(c) ==
    {[err |-> FALSE, out |-> FieldsOf(c, missing)] : missing \in
        {m \in {{"lastOpenedWithVersion"}, {"createdWithVersion", "lastOpenedWithVersion", "blocksizeBytes"},
                {"version", "createdWithVersion", "lastOpenedWithVersion", "blocksizeBytes", "hasVersionNumbers", "hasParentPointers"}} :
            /\ "blocksizeBytes" \in m => c._blocksizeBytes = DefaultBlocksize
            /\ "version" \in m => c._version = "0.8" /\ ~c._hasVersionNumbers /\ ~c._hasParentPointers
            /\ "createdWithVersion" \in m => c._createdWithVersion = c._version
            /\ c._lastOpenedWithVersion = c._version}}

(***************************************************************************)
(* Saving and loading                                                      *)
(***************************************************************************)
\* the files that doc can be written as: the maps of the integrity data are unordered
Saved(d) ==
    CASE d.kind = "state" -> {_saveStateFile(d.violation, known, last) :
                                known \in SetToSeqs(d.known), last \in SetToSeqs(d.last)}
      [] d.kind = "config" -> {encryptConfig(d.kdf, d.cipherName, d.json)}
      [] d.kind = "directory" -> {serializeEntries(d.entries)}
      [] d.kind = "fields" -> {[err |-> FALSE, out |-> saveFields(d)]}
      [] d.kind = "block" -> {[err |-> FALSE, out |-> Compress(d.bytes)]}

\* the files that an older version wrote for the same content
SavedByOldVersion(d) ==
    CASE d.kind = "state" /\ ~d.violation -> {OldStateFile(SetToSeq(d.known), SetToSeq(d.last))}
      [] d.kind = "config" /\ ~encryptConfig(d.kdf, d.cipherName, d.json).err ->
            {OldConfigFile(d.kdf, d.cipherName, d.json)}
      [] d.kind = "fields" -> OldFields(d)
      [] OTHER -> {}

Load(kind, bytes) ==
    CASE kind = "state" -> _loadStateFile(bytes)
      [] kind = "config" -> decryptConfig(bytes)
      [] kind = "directory" -> deserializeFrom(bytes)
      [] kind = "fields" -> [err |-> FALSE, old |-> FALSE, content |-> loadFields(bytes)]
      [] kind = "block" -> [err |-> Decompress(bytes).err, old |-> FALSE,
                            content |-> [kind |-> "block", bytes |-> Decompress(bytes).val]]

NotLoaded == [kind |-> "nothing"]

FormatsInit ==
    /\ doc \in Documents
    /\ beyond \in {0, Base - 1}
    /\ file = <<>>
    /\ phase = "new"
    /\ loaded = NotLoaded

\* serialize and Data::StoreToFile
Save ==
    /\ phase = "new"
    /\ \E s \in Saved(doc) :
          IF s.err THEN phase' = "save failed" /\ UNCHANGED file
                   ELSE phase' = "saved" /\ file' = s.out
    /\ UNCHANGED <<doc, beyond, loaded>>

SaveInOldFormat ==
    /\ phase = "new"
    /\ \E s \in SavedByOldVersion(doc) : file' = s.out
    /\ phase' = "saved"
    /\ UNCHANGED <<doc, beyond, loaded>>

\* the process dies in StoreToFile: the file was truncated and holds a part of the bytes
DieWhileStoring ==
    /\ phase = "saved"
    /\ doc.kind \in {"state", "config"}
    /\ \E n \in 0..(Len(file) - 1) : file' = SubSeq(file, 1, n)
    /\ phase' = "torn"
    /\ UNCHANGED <<doc, beyond, loaded>>

\* Data::LoadFromFile and deserialize; a file in the old format is written again in the new one
LoadSaved ==
    /\ phase \in {"saved", "torn"}
    /\ LET l == Load(doc.kind, file)
       IN  IF l.err THEN phase' = "refused" /\ UNCHANGED <<loaded, file>>
           ELSE /\ loaded' = l.content
                /\ \/ /\ l.old
                      /\ phase' = "saved"
                      /\ file' \in {s.out : s \in Saved(l.content)}
                   \/ /\ l.old => doc.kind = "config"     \* not with Access::ReadOnly
                      /\ phase' = "loaded"
                      /\ UNCHANGED file
    /\ UNCHANGED <<doc, beyond>>

FormatsNext == Save \/ SaveInOldFormat \/ DieWhileStoring \/ LoadSaved

FormatsSpec == FormatsInit /\ [][FormatsNext]_fvars

(***************************************************************************)
(* Properties                                                              *)
(***************************************************************************)
\* What is loaded is what was saved, in either format, and saving fails only for a configuration
\* that does not fit into its padding: sizes computed beforehand are the sizes written, the
\* bounds of RandomPadding::add and remove agree, and a run of any length is decoded.
WhatWasSavedIsLoaded ==
    /\ loaded # NotLoaded => loaded = doc
    /\ phase = "save failed" =>
          doc.kind = "config" /\ (TooLong(doc.json, InnerConfigSize) \/ TooLong(InnerBytes(doc.cipherName, doc.json), OuterConfigSize))

\* What is loaded is always what was saved, and a file that the process died on is refused when it
\* is loaded and a complete one is not, whatever bytes lie behind it in memory: no part of the
\* integrity data or of the configuration is taken for the whole.
SavedFilesLoadOrAreRefused ==
    [][/\ WhatWasSavedIsLoaded'
       /\ LoadSaved => (phase' = "refused") = (phase = "torn")]_fvars
=============================================================================
