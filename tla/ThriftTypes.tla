---------------------------- MODULE ThriftTypes -----------------------------
(***************************************************************************)
(* The fields of Thrift structs.  A field travels as its id, its type on   *)
(* the wire and its value; strings and byte strings have one wire type.    *)
(* `of` is the struct, or what the list or the map holds.                  *)
(***************************************************************************)
EXTENDS Naturals

Field(id, wire, of) == [id |-> id, wire |-> wire, of |-> of]

String(id) == Field(id, "Binary", "")
Binary(id) == Field(id, "Binary", "")
I32(id) == Field(id, "I32", "")
I64(id) == Field(id, "I64", "")
Bool(id) == Field(id, "Bool", "")
Double(id) == Field(id, "Double", "")
Struct(id, of) == Field(id, "Struct", of)
List(id, of) == Field(id, "List", of)
Map(id, of) == Field(id, "Map", of)
=============================================================================
