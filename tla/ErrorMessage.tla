---------------------------- MODULE ErrorMessage ----------------------------
(***************************************************************************)
(* error_get_message_buf of src/ncom/core_impl.c: what it reports and      *)
(* copies for a message of a given length and a caller's buffer, which is  *)
(* NULL or has a capacity and a pointer that may be NULL (ncom_char_buf_t).*)
(***************************************************************************)
EXTENDS Naturals

CONSTANT NULL

(* The bytes a message takes with its terminating NUL.                     *)
Need(len) == len + 1

(* Fault: room for the characters is taken for room for the NUL as well.   *)
GetMessageBufNoNul(buf, len) ==
  [need    |-> Need(len),
   st      |-> IF buf # NULL /\ buf.ptr /\ buf.cap # 0 /\ buf.cap < len
               THEN "MORE_DATA" ELSE "OK",
   written |-> IF buf # NULL /\ buf.ptr /\ buf.cap # 0 /\ buf.cap >= len
               THEN Need(len) ELSE 0]

(* A buffer without room or without memory makes it a sizing call.         *)
IsSizing(buf) == buf = NULL \/ buf.cap = 0 \/ ~buf.ptr

(* Fault: the length is reported without the NUL.                          *)
GetMessageBufReportsLen(buf, len) ==
  [need    |-> len,
   st      |-> IF ~IsSizing(buf) /\ buf.cap < Need(len) THEN "MORE_DATA" ELSE "OK",
   written |-> IF ~IsSizing(buf) /\ buf.cap >= Need(len) THEN Need(len) ELSE 0]

(* The size is always reported; the message is copied whole or not at all. *)
GetMessageBuf(buf, len) ==
  [need    |-> Need(len),
   st      |-> IF ~IsSizing(buf) /\ buf.cap < Need(len) THEN "MORE_DATA" ELSE "OK",
   written |-> IF ~IsSizing(buf) /\ buf.cap >= Need(len) THEN Need(len) ELSE 0]

=============================================================================
