---------------------------- MODULE IDNAMapping ----------------------------
(***************************************************************************)
(* `IDNAMapping.for(scalar:)` (IDNAMapping.swift) and the tables it reads  *)
(* (cswift_idna_mapping_table.c): a scalar's number leads to an index, the *)
(* index to an entry that many scalars share, and the entry's type to what *)
(* is to be done with the scalar.                                          *)
(*                                                                         *)
(* The tables are generated data, constants here.  Whether a valid scalar  *)
(* is NV8 or XV8 is left out: no conversion reads it.                      *)
(***************************************************************************)
EXTENDS Integers, Sequences

CONSTANTS
    UnicodeScalar,  \* the scalars in use
    MappingTable,   \* cswift_idna_mapping_table
    LookupTable     \* cswift_idna_lookup_table

\* CSwiftIDNAMappingResultType
IDNA_RESULT_VALID == 0
IDNA_RESULT_MAPPED == 1
IDNA_RESULT_DEVIATION == 2
IDNA_RESULT_DISALLOWED == 3
IDNA_RESULT_IGNORED == 4

\* The bytes of an entry are those of whole scalars, and as many as it says.
ASSUME MappingTableAssumption ==
    \A j \in DOMAIN MappingTable :
        /\ MappingTable[j].type \in 0 .. 4
        /\ MappingTable[j].mapped_utf8_bytes \in Seq(Nat)
        /\ MappingTable[j].mapped_byte_count = Len(MappingTable[j].mapped_utf8_bytes)
ASSUME LookupTableAssumption ==
    UnicodeScalar \subseteq Nat /\ \A c \in UnicodeScalar : LookupTable[c] \in DOMAIN MappingTable

cswift_idna_mapping_lookup(code_point) ==
    LET index == LookupTable[code_point] IN MappingTable[index]

\* IDNAUnicodeScalarView(staticPointer:)
MappedScalars(entry) == SubSeq(entry.mapped_utf8_bytes, 1, entry.mapped_byte_count)

For(scalar) ==
    LET entry == cswift_idna_mapping_lookup(scalar)
    IN  CASE entry.type = IDNA_RESULT_VALID -> [kind |-> "valid", bytes |-> <<>>]
          [] entry.type = IDNA_RESULT_MAPPED ->
                [kind |-> "mapped", bytes |-> MappedScalars(entry)]
          [] entry.type = IDNA_RESULT_DEVIATION ->
                [kind |-> "deviation", bytes |-> MappedScalars(entry)]
          [] entry.type = IDNA_RESULT_DISALLOWED -> [kind |-> "disallowed", bytes |-> <<>>]
          [] entry.type = IDNA_RESULT_IGNORED -> [kind |-> "ignored", bytes |-> <<>>]

=============================================================================
