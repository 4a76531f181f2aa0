---------------------------- MODULE MCDocuments ----------------------------
(* Documents that the program saves: bytes are 0..base-1, integers and     *)
(* block ids have two bytes.                                               *)
EXTENDS Integers, Sequences

StateDocuments ==
    [kind : {"state"}, violation : BOOLEAN,
     known : {{}, {<<1, <<1, 2>>, 0>>}, {<<1, <<1, 2>>, 5>>, <<2, <<0, 0>>, 15>>}, {<<0, <<0, 3>>, 1>>, <<1, <<0, 3>>, 1>>}},
     last : {{}, {<<<<1, 2>>, 1>>}, {<<<<0, 0>>, 0>>, <<<<1, 2>>, 1>>}}]

MCAEADCiphers == {<<1>>, <<1, 2, 3>>, <<1, 2, 3, 3>>}
MCCFBCiphers == {<<2>>, <<1, 2, 3, 2>>}

ConfigDocuments ==
    [kind : {"config"}, kdf : {<<4, 1, 15, <<1, 0, 3>>>>, <<0, 0, 0, <<>>>>},
     cipherName : MCAEADCiphers \cup MCCFBCiphers,
     json : {<<>>, <<0>>, <<3, 0, 2>>, <<1, 1, 1, 1, 0>>, <<1, 1, 1, 1, 1, 1>>}]

Entry(base, type, name, id, t) ==
    [type |-> type, mode |-> type * base + 3, uid |-> 15, gid |-> 0, atime |-> <<t, 0>>, mtime |-> <<0, t>>,
     ctime |-> <<t, t>>, name |-> name, blockId |-> id]
DirectoryDocuments(base) ==
    [kind : {"directory"},
     entries : {<<>>}
       \cup {<<Entry(base, ty, n, id, t)>> : ty \in 0..2, n \in {<<1>>, <<3, 2>>}, id \in {<<0, 0>>, <<3, 1>>}, t \in {0, 14}}
       \cup {<<Entry(base, ty, n, <<0, 1>>, 7), Entry(base, 1, <<2>>, <<1, 0>>, 3), Entry(base, 2, n, <<1, 3>>, 0)>> : ty \in 0..2, n \in {<<1>>, <<1, 1>>}}]

BlockDocuments == [kind : {"block"}, bytes : UNION {[1..n -> {0, 1}] : n \in 0..10}]

FieldDocuments(noClient) ==
    [kind : {"fields"}, _rootBlob : {"", "blob"}, _encKey : {"key"}, _cipher : {"aes-256-gcm"}, _version : {"0.8", "0.10"},
     _createdWithVersion : {"0.8", "0.10"}, _lastOpenedWithVersion : {"0.8", "0.10"}, _blocksizeBytes : {1, 2},
     _filesystemId : {"id"}, _exclusiveClientId : {0, 1, noClient}, _hasVersionNumbers : BOOLEAN, _hasParentPointers : BOOLEAN]

FirstDocument == [kind |-> "block", bytes |-> <<>>]
AllDocuments(base, noClient) ==
    StateDocuments \cup ConfigDocuments \cup DirectoryDocuments(base) \cup BlockDocuments \cup FieldDocuments(noClient)
=============================================================================
