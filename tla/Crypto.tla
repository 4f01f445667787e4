------------------------------- MODULE Crypto -------------------------------
(***************************************************************************)
(* Core/Network/Crypto.hpp: how long a message becomes.  AES in CBC mode   *)
(* encrypts whole blocks; EVP_EncryptFinal_ex pads what is left over to    *)
(* one block more, also when nothing is.  A vector's size has 64 bits,     *)
(* OpenSSL counts in int, and the header holds a uint32_t.                 *)
(***************************************************************************)
EXTENDS Integers

BlockLength == 16
EVP_MAX_BLOCK_LENGTH == 32

(* The conversion to int, and the sum of two of them as it comes out. *)
AsInt32(n) == ((n + 2147483648) % 4294967296) - 2147483648

(* static_cast<uint32_t> *)
AsUint32(n) == n % 4294967296

(* What EVP_EncryptUpdate and EVP_EncryptFinal_ex write.  Given a negative *)
(* length the former writes nothing, if the version at hand checks that.   *)
UpdateLength(inl) == IF inl > 0 THEN inl - (inl % BlockLength) ELSE 0
FinalLength == BlockLength

(* encrypt: the size of its buffer, how much OpenSSL writes there, and the *)
(* int it resizes the buffer to, which throws when that is negative.       *)
BufferLength(size) == size + EVP_MAX_BLOCK_LENGTH
WrittenLength(size) == UpdateLength(AsInt32(size)) + FinalLength
EncryptedLength(size) == AsInt32(WrittenLength(size))
Returns(size) == EncryptedLength(size) >= 0

(* writeNext: the length in the header. *)
HeaderLength(size) == AsUint32(EncryptedLength(size))

(* The check of readHeader, in the session and in the client. *)
maxPacketSize == 64 * 1024
TooLong(incomingLength) == incomingLength > maxPacketSize
=============================================================================
