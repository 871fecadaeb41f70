----------------------------- MODULE MCCyLibrary ----------------------------
(* Instances of CyLibrary: a main thread and one or two workers, with the   *)
(* functions each of them calls.                                            *)
EXTENDS CyLibrary, TLC

CONSTANTS main, worker, helper

OpenAndClose == {"CyOpen", "CyClose"}

(* The main thread starts and stops the library and looks for devices; the *)
(* workers open and close them.                                            *)
Workers ==
  (main :> Functions) @@ (worker :> OpenAndClose) @@ (helper :> OpenAndClose)

(* The main thread starts the library, and from then on all threads look   *)
(* for devices and open and close them.  Nobody stops the library.         *)
Shared ==
  (main :> Functions \ {"CyLibraryExit"}) @@
  (worker :> Functions \ {"CyLibraryInit", "CyLibraryExit"}) @@
  (helper :> {"CyGetListofDevices", "CyGetDeviceInfo", "CyGetDeviceInfoVidPid"})

(* The worker only reads device information. *)
LateReader == (main :> Functions) @@ (worker :> {"CyGetDeviceInfo"})

(* The worker only opens and closes. *)
LateCloser == (main :> Functions) @@ (worker :> OpenAndClose)

(* One thread. *)
Alone == (main :> Functions) @@ (worker :> {})
=============================================================================
