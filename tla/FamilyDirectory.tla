--------------------------- MODULE FamilyDirectory ---------------------------
(***************************************************************************)
(* What a registry of page families promises: a name is registered once,   *)
(* with a size a page can hold, and its family then stays where it is.     *)
(* PageFamilies relies on it: there Family and StructSize are constants.   *)
(***************************************************************************)
EXTENDS Naturals

CONSTANTS Name, PageSize, Place

VARIABLE directory  \* the families: name, size and place

Entry == [name : Name, size : 1 .. PageSize, place : Place]

Register(entry) ==
  /\ \A other \in directory : other.name # entry.name /\ other.place # entry.place
  /\ directory' = directory \cup {entry}

Spec == directory = {} /\ [][\E entry \in Entry : Register(entry)]_directory

=============================================================================
