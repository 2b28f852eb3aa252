----------------------------- MODULE MCDescriptor ------------------------------
(* Every descriptor class of the library, filled to its capacity by strings    *)
(* and vectors that fit, that must be cut, and that a ui8 or a ui16 truncates. *)
EXTENDS Descriptor, MpegDesc, PmtDesc, DvbDesc, NitDesc, EitDesc, LinkageDescs

MCClasses ==
  MpegClasses @@ PmtClasses @@ DvbClasses @@ NitClasses @@ EitClasses @@ LinkageClasses
    @@ "ClonedDataDesc" :> ClonedDataDesc
==============================================================================
