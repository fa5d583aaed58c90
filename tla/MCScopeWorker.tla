---------------------------- MODULE MCScopeWorker ----------------------------
(* Settings and requests for ScopeWorker.                                   *)
EXTENDS ScopeWorker

MCSettings == {"autoShort", "normalLong", "otherLong", "singleShort"}
MCMode == [s \in MCSettings |->
             IF s = "autoShort" THEN "auto" ELSE IF s = "singleShort" THEN "single" ELSE "normal"]
MCLong == {"normalLong", "otherLong"}
MCAutoResults == {"autoShort", "normalLong"}

Plain == [setting : MCSettings, single : {FALSE}, auto : {FALSE}]
All == Plain \cup [setting : {"normalLong", "singleShort"}, single : {TRUE}, auto : {FALSE}]
             \cup [setting : MCSettings, single : {FALSE}, auto : {TRUE}]
==============================================================================
