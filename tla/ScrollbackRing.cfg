\* Three bytes, writes of up to three (a whole ring), nine bytes in all: three wraps.
SPECIFICATION Spec
CONSTANTS
    a = a
    b = b
    Size = 3
    Byte = {a, b}
    MaxWrite = 3
    MaxBytes = 9
PROPERTIES
    ImplementsLastBytes
