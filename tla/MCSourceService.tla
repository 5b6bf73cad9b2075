-------------------------- MODULE MCSourceService --------------------------
(***************************************************************************)
(* Three sources, so that a read may be dropped twice; a directory that is  *)
(* assumed and one that the manifest names; an id nobody knows; two summons *)
(* under way at once, so that the payload of one is stale when it arrives.  *)
(***************************************************************************)
EXTENDS SourceService

CONSTANTS kernel, engine, ruby, unknown, home, plugin, left

MCCatalog     == <<kernel, engine, ruby>>
MCInitialId   == kernel
MCUnknownIds  == {unknown}
MCDirs        == {home, plugin}
MCHomeDir     == home
MCScreenNames == {left}
=============================================================================
