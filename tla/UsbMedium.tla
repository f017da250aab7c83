------------------------------ MODULE UsbMedium ------------------------------
(***************************************************************************)
(* What a USB partition turns out to hold: mount_usb_device (mount/usb.rs),*)
(* discover_credentials (discovery.rs) and the PKCS#12 decoding            *)
(* (pkcs12/mod.rs), as functions of the medium.                            *)
(***************************************************************************)
EXTENDS Integers

\* Size caps of discovery.rs, scaled down: MAX_P12_BYTES is ten times
\* MAX_CHAIN_BYTES.
MaxChainBytes == 1
MaxP12Bytes == 10 * MaxChainBytes

\* A path on the medium: is_file, metadata or read may fail, its size.
File(max) == [is_file : BOOLEAN, readable : BOOLEAN, size : {0, max, max + 1}]

\* mount_usb_device: the mountpoint exists, udev reported a filesystem type
\* ("none" when ID_FS_TYPE is empty), the type is allowed, mount(2) works.
MountUsbDevice(exists, fs, syscall) ==
    CASE ~exists -> "MountpointInvalid"
      [] exists /\ fs # "allowed" -> "UnsupportedFs"
      [] exists /\ fs = "allowed" /\ ~syscall -> "MountSyscall"
      [] OTHER -> "ok"

\* A file looked up, measured against its cap, then read.
ReadFile(file, max) ==
    CASE ~file.is_file -> "absent"
      [] file.is_file /\ ~file.readable -> "Io"
      [] file.is_file /\ file.readable /\ file.size > max -> "TooLarge"
      [] OTHER -> "read"

\* discover_credentials: the bundle is required, chain.pem is not, but a
\* chain.pem that is there must be readable and small.
DiscoverCredentials(p12, chain) ==
    CASE ReadFile(p12, MaxP12Bytes) = "absent" -> "P12NotFound"
      [] ReadFile(p12, MaxP12Bytes) \in {"Io", "TooLarge"} -> "Discovery"
      [] ReadFile(p12, MaxP12Bytes) = "read" /\ ReadFile(chain, MaxChainBytes) \in {"Io", "TooLarge"}
            -> "Discovery"
      [] OTHER -> "found"

\* What the bytes of the bundle are: no PKCS#12 envelope; an envelope whose
\* content cannot be decoded, or lacks the key or the certificate; a bundle.
Content == {"junk", "corrupt", "no_key", "no_cert", "bundle"}

\* validate_p12_envelope: the outer ASN.1 only, without the PIN.
EnvelopeOk(content) == content # "junk"

\* LoadedKeyMaterial::from_p12 with classify_parse_error, as the set of results
\* it may have: the MAC is checked first, so a wrong PIN hides what is missing
\* inside, and damaged content looks like a wrong PIN whenever OpenSSL
\* reports it as a MAC or decryption failure.
FromP12(content, pin_ok) ==
    CASE content = "junk" -> {"Corrupt"}
      [] content = "corrupt" -> {"Corrupt", "WrongPin"}
      [] content \in {"no_key", "no_cert", "bundle"} /\ ~pin_ok -> {"WrongPin"}
      [] content = "no_key" /\ pin_ok -> {"MissingKey"}
      [] content = "no_cert" /\ pin_ok -> {"MissingCert"}
      [] OTHER -> {"ok"}

=============================================================================
