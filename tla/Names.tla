--------------------------------- MODULE Names ---------------------------------
(***************************************************************************)
(* The names that the library builds from the DriverName parameter, seen   *)
(* as their lengths in characters: the message device, its symbolic link,  *)
(* and the name under which the user library opens that link.              *)
(***************************************************************************)
EXTENDS Naturals

\* NDFCOMM_MSG_MAX_CCH_NAME_SIZE.
MaxNameSize == 64

\* The lengths of "\Device\NdfCommMsg_" and "\DosDevices\NdfCommMsg_".
DevicePrefix == 19
LinkPrefix == 23

\* RtlUnicodeStringPrintf fills a counted string up to its last character.
DeviceNameFits(n) == DevicePrefix + n =< MaxNameSize
LinkNameFits(n) == LinkPrefix + n =< MaxNameSize

\* FAULT: the shorter prefix is used.
UserNameFitsDevice(n) == DevicePrefix + n + 1 =< MaxNameSize

\* StringCbPrintf in NdfCommunicationpBuildMsgDeviceName needs room for a null.
UserNameFits(n) == LinkPrefix + n + 1 =< MaxNameSize
=============================================================================
