--------------------------- MODULE MCAddressSpace ---------------------------
(***************************************************************************)
(* Small instances of AddressSpace.                                        *)
(***************************************************************************)
EXTENDS AddressSpace

\* A class whose runs are cut short by kMaxElems, and one whose last block starts
\* beyond kRunSize.
MCSizes == <<1, 8>>
=============================================================================
