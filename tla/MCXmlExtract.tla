---------------------------- MODULE MCXmlExtract ----------------------------
(***************************************************************************)
(* XmlExtract for TLC: the configuration bounds the documents.             *)
(***************************************************************************)
EXTENDS XmlExtract
=============================================================================
