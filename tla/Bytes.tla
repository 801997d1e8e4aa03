-------------------------------- MODULE Bytes --------------------------------
(***************************************************************************)
(* Numbers in a datagram: bytes from the highest to the lowest, as the     *)
(* static functions of rxs_packetizer.c, rxs_depacketizer.c and            *)
(* rxs_control.c write and read them on a little-endian machine.  A        *)
(* datagram is a sequence of bytes, the first one has index 1.             *)
(***************************************************************************)
EXTENDS Integers, Sequences

Byte == 0 .. 255

(* The bit of weight w.                                                    *)
Bit(byte, w) == (byte \div w) % 2

(* The bytes of a number of 16 bits: packetizer_write_u16,                 *)
(* control_write_u16.                                                      *)
Hi(v) == (v \div 256) % 256
Lo(v) == v % 256

(* The halves of one of 32 bits: packetizer_write_u32.                     *)
Hi16(v) == v \div 65536
Lo16(v) == v % 65536

(* depacketizer_read_u16, control_read_u16                                 *)
Read16(d, at) == 256 * d[at] + d[at + 1]

(* depacketizer_read_u32                                                   *)
Read32(d, at) == 65536 * Read16(d, at) + Read16(d, at + 2)
=============================================================================
