----------------------------- MODULE MCStartup -----------------------------
(***************************************************************************)
(* Startup for TLC: one line of every kind that parse_argument tells apart *)
(* and the settings a second line could undo.                              *)
(***************************************************************************)
EXTENDS Startup

Lined(k, v) == [key |-> k, value |-> v]

FewLines ==
  {Lined("address", "host"), Lined("width", 640), Lined("height", 360), Lined("1080", TRUE),
   Lined("4k", FALSE), Lined("fps", 60), Lined("bitrate", 8000), Lined("bitrate", -1),
   Lined("sops", TRUE), Lined("nosops", TRUE), Lined("mapping", "file"),
   Lined("nounsupported", TRUE), Lined("input", "device"), Lined("config", "file")}
=============================================================================
