---------------------------- MODULE MCSchemaTree ----------------------------
(* Instances of SchemaTree for TLC.                                        *)
EXTENDS SchemaTree
=============================================================================
