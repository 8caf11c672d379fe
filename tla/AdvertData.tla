----------------------------- MODULE AdvertData -----------------------------
(***************************************************************************)
(* The application data of an advert (support/meshcore_advert_data.c): a   *)
(* flag byte, an optional position and two optional features, and a name   *)
(* that fills what is left.  Data is a record of the flags and its length. *)
(***************************************************************************)
EXTENDS Integers

MAX_ADVERT_DATA_LEN == 32

Bytes(flag, n) == IF flag THEN n ELSE 0

\* The bytes before the name: flags, latitude and longitude, feat1, feat2
FixedLen(d) == 1 + Bytes(d.loc, 8) + Bytes(d.feat1, 2) + Bytes(d.feat2, 2)

\* meshcore_advert_data_builder_encode_to: b.name is the length of the name,
\* which is cut where the data is full
EncodeTo(b) ==
  [type |-> b.type, loc |-> b.loc, feat1 |-> b.feat1, feat2 |-> b.feat2,
   named |-> b.name > 0,
   len |-> IF FixedLen(b) + b.name < MAX_ADVERT_DATA_LEN
           THEN FixedLen(b) + b.name ELSE MAX_ADVERT_DATA_LEN]

\* meshcore_advert_data_parser_init: is the data valid, and how long is the name?
NameLen(d) == IF d.named THEN d.len - FixedLen(d) ELSE 0
IsValid(d) == d.len >= FixedLen(d) /\ NameLen(d) < MAX_ADVERT_DATA_LEN

=============================================================================
