-------------------------- MODULE MCTextureUploads --------------------------
(* Two threads race for two sampler textures; one of them also makes a      *)
(* render target. A slot and a texture for every call, so none runs out.    *)
EXTENDS TextureUploads
=============================================================================
